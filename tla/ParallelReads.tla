--------------------------- MODULE ParallelReads ---------------------------
(***************************************************************************)
(* The tools that ask several questions of Meta at once and make one       *)
(* report of the answers: tools/macros.ts and the anomaly and context      *)
(* views of tools/insights-views.ts.  Answers and failures come in any     *)
(* order.  The first failure of a question nobody catches ends the         *)
(* Promise.all it belongs to; the other questions of it go on unheard.     *)
(***************************************************************************)
EXTENDS Naturals, Sequences, FiniteSets

CONSTANTS
  Accounts,      \* what a portfolio is asked of
  MaxAccounts    \* bound: the length of its list (20 in the code)

ASSUME ReadAssumption == MaxAccounts \in Nat

VARIABLE reading    \* the call: its questions in the order they were issued, and their answers

\* Part is the Promise.all of a question; caught: its failure is an answer like another.
Question(what, part, caught) == [what |-> what, part |-> part, caught |-> caught]

Diagnose(input) ==
  <<Question("insights", 1, TRUE)>>
  \o (IF input.pixel THEN <<Question("pixel", 1, TRUE)>> ELSE <<>>)
  \o (IF input.account THEN <<Question("issues", 1, TRUE)>> ELSE <<>>)

AnomalySignal == <<Question("recent", 1, FALSE), Question("previous", 1, FALSE)>>

AdvertiserContext ==
  <<Question("total", 1, FALSE), Question("campaigns", 1, FALSE), Question("meta", 1, TRUE)>>

\* Two questions of each account; one may be named twice, and each mention is a part of its own.
PortfolioSummary(ids) ==
  [k \in 1 .. 2 * Len(ids) |-> IF k % 2 = 1 THEN Question("meta", (k + 1) \div 2, TRUE)
                               ELSE Question("insights", k \div 2, FALSE)]

Calls ==
  {[tool |-> "diagnose", account |-> a, pixel |-> p, ids |-> <<>>] : a, p \in BOOLEAN}
  \cup {[tool |-> t, account |-> FALSE, pixel |-> FALSE, ids |-> <<>>] : t \in {"anomaly", "context"}}
  \cup {[tool |-> "portfolio", account |-> FALSE, pixel |-> FALSE, ids |-> ids] :
          ids \in UNION {[1 .. n -> Accounts] : n \in 1 .. MaxAccounts}}

Questions(call) ==
  CASE call.tool = "diagnose" -> Diagnose(call)
    [] call.tool = "anomaly" -> AnomalySignal
    [] call.tool = "context" -> AdvertiserContext
    [] OTHER -> PortfolioSummary(call.ids)

\* An answer remembers its question: [to, is], where is tells data, an empty answer, an error
\* that was caught, or a failure.
Pending == [to |-> 0, is |-> "pending"]

ReadInit ==
  reading = [pc |-> "idle", call |-> CHOOSE c \in Calls : TRUE, answers |-> <<>>, report |-> <<>>]

AskReads(call) ==
  /\ reading.pc = "idle"
  /\ reading' = [pc |-> "asked", call |-> call, report |-> <<>>,
                 answers |-> [i \in DOMAIN Questions(call) |-> Pending]]

Parts == {Questions(reading.call)[i].part : i \in DOMAIN reading.answers}

OfPart(part) == {i \in DOMAIN reading.answers : Questions(reading.call)[i].part = part}

Failed(part) == \E i \in OfPart(part) : reading.answers[i].is = "failed"

\* The Promise.all of a part: rejected by a failure, or resolved by its last answer.
Settles(part) == Failed(part) \/ \A i \in OfPart(part) : reading.answers[i].is # "pending"

\* One question is answered, or fails.
AnswerRead(i) ==
  /\ reading.pc = "asked" /\ reading.answers[i].is = "pending"
  /\ \E is \in {"data", "empty", IF Questions(reading.call)[i].caught THEN "error" ELSE "failed"} :
       reading' = [reading EXCEPT !.answers[i] = [to |-> i, is |-> is]]

(* The answer each field of a report is made of, by its place among the    *)
(* results.  What diagnose has left once the insights are taken is shifted *)
(* off in turn.                                                            *)
Rest == Tail(reading.answers)

\* The fields as a bug would have them: the issues are shifted off before the pixel.
MutDiagnosis(call) ==
  [insights |-> reading.answers[1],
   issues |-> IF call.account /\ Rest # <<>> THEN Rest[1] ELSE Pending,
   pixel |-> IF ~ call.pixel THEN Pending ELSE IF call.account THEN Rest[2] ELSE Rest[1]]

Diagnosis(call) ==
  [insights |-> reading.answers[1],
   pixel |-> IF call.pixel /\ Rest # <<>> THEN Rest[1] ELSE Pending,
   issues |-> IF ~ call.account THEN Pending ELSE IF call.pixel THEN Rest[2] ELSE Rest[1]]

\* What is found only rests on data; "empty" is the finding that there is none.
Findings(fields) ==
  {<<f, fields[f].is>> : f \in {g \in DOMAIN fields : fields[g].is = "data"}}
  \cup (IF fields.insights.is # "data" THEN {<<"insights", "none">>} ELSE {})

\* fetchOne, of the i-th mention: its numbers, or its error and zeros.
Entry(ids, i) ==
  IF Failed(i) THEN [id |-> ids[i], meta |-> Pending, insights |-> Pending, error |-> TRUE]
  ELSE [id |-> ids[i], meta |-> reading.answers[2 * i - 1], insights |-> reading.answers[2 * i],
        error |-> FALSE]

\* A spend counts one where there is data, so that the total tells how many were added; an
\* entry in error keeps its place, which is the order it is listed in.
Portfolio(ids) ==
  LET entries == [i \in DOMAIN ids |-> Entry(ids, i)]
      spending == {i \in DOMAIN ids : ~ entries[i].error /\ entries[i].insights.is = "data"}
  IN [byAccount |-> entries,
      total |-> Cardinality(spending),
      errored |-> [i \in {j \in DOMAIN ids : entries[j].error} |-> entries[i]]]

Anomalies ==
  LET recent == reading.answers[1] previous == reading.answers[2]
  IN IF recent.is = "data" /\ previous.is = "data" THEN [recent |-> recent, previous |-> previous]
     ELSE [recent |-> Pending, previous |-> Pending]

Context ==
  [total |-> reading.answers[1], campaigns |-> reading.answers[2], meta |-> reading.answers[3]]

Report(call) ==
  CASE call.tool = "diagnose" ->
         LET d == Diagnosis(call)
         IN [insights |-> d.insights, pixel |-> d.pixel, issues |-> d.issues, findings |-> Findings(d)]
    [] call.tool = "anomaly" -> Anomalies
    [] call.tool = "context" -> Context
    [] OTHER -> Portfolio(call.ids)

\* Every Promise.all is settled: the report, or the error of the one there is.
Conclude ==
  /\ reading.pc = "asked"
  /\ \/ /\ reading.call.tool # "portfolio" /\ Failed(1)
        /\ reading' = [reading EXCEPT !.pc = "failed"]
     \/ /\ reading.call.tool = "portfolio" \/ ~ Failed(1)
        /\ \A p \in Parts : Settles(p)
        /\ reading' = [reading EXCEPT !.pc = "over", !.report = Report(reading.call)]

ReadTypeOK ==
  /\ reading.pc \in {"idle", "asked", "over", "failed"} /\ reading.call \in Calls
  /\ \A i \in DOMAIN reading.answers :
       reading.answers[i] = Pending
       \/ reading.answers[i] \in [to : {i}, is : {"data", "empty", "error", "failed"}]

\* macros.ts:107-164, 241-291, insights-views.ts:147-161, 370-391: in whatever order answers
\* come, a report shows each under the question it answers, a finding rests on data of its
\* own question, and a portfolio counts what was read and names what was not.
AnswersAreOfTheirQuestion ==
  reading.pc = "over" =>
    LET call == reading.call r == reading.report q == Questions(call)
        Shows(field, what) == r[field] # Pending => q[r[field].to].what = what
    IN CASE call.tool = "diagnose" ->
              /\ Shows("insights", "insights") /\ Shows("pixel", "pixel") /\ Shows("issues", "issues")
              /\ (call.pixel <=> r.pixel # Pending) /\ (call.account <=> r.issues # Pending)
              /\ \A f \in r.findings : f[2] = "data" =>
                   \E i \in DOMAIN q : q[i].what = f[1] /\ reading.answers[i].is = "data"
         [] call.tool = "anomaly" -> Shows("recent", "recent") /\ Shows("previous", "previous")
         [] call.tool = "context" ->
              Shows("total", "total") /\ Shows("campaigns", "campaigns") /\ Shows("meta", "meta")
         [] OTHER ->
              /\ \A i \in DOMAIN call.ids :
                   LET e == r.byAccount[i]
                   IN /\ e.id = call.ids[i]
                      /\ ~ e.error => /\ q[e.meta.to] = Question("meta", i, TRUE)
                                      /\ q[e.insights.to] = Question("insights", i, FALSE)
              /\ r.total + Cardinality(DOMAIN r.errored) <= Len(call.ids)
              /\ {r.errored[i].id : i \in DOMAIN r.errored}
                   = {call.ids[i] : i \in {j \in DOMAIN call.ids : reading.answers[2 * j].is = "failed"}}
=============================================================================
