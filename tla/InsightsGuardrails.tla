------------------------- MODULE InsightsGuardrails -------------------------
(***************************************************************************)
(* enforceInsightsGuardrails of tools/insights-guardrails.ts, before       *)
(* ads_get_insights and before a report is created; and a caller that is   *)
(* refused and does what the refusal advises, in each of the ways it       *)
(* offers.                                                                 *)
(***************************************************************************)
EXTENDS Naturals

CONSTANT Spans     \* the spans, in days, a time range may have

NoRange == 0       \* no time range, or one that does not parse (a span of no day passes too)

\* maximum, this_year and last_year are wide presets; product_id is a breakdown of high
\* cardinality.
Month == 30

Queries ==
  [level : {"account", "ad"}, breakdowns : {"none", "low", "high"}, widePreset : BOOLEAN,
   span : Spans \cup {NoRange, Month}, async : BOOLEAN]

VARIABLE query     \* what the caller asks for: a query, and what came of it

GuardInit == query = [is |-> "none"]

\* The rules as a bug would have it: a wide report is refused as a wide read is.
MutVerdict(q) ==
  IF q.level = "account" /\ q.breakdowns = "high" THEN "narrow"
  ELSE IF q.breakdowns # "none" /\ (q.widePreset \/ q.span > 90) THEN "report"
  ELSE IF q.span > 37 * Month THEN "trim"
  ELSE "accepted"

Verdict(q) ==
  IF q.level = "account" /\ q.breakdowns = "high" THEN "narrow"
  ELSE IF ~ q.async /\ q.breakdowns # "none" /\ (q.widePreset \/ q.span > 90) THEN "report"
  ELSE IF q.span > 37 * Month THEN "trim"
  ELSE "accepted"

Judged(q) == [is |-> Verdict(q), of |-> q]

\* ads_get_insights, ads_create_async_report or ads_run_report_and_wait is called.
AskInsights(q) == query.is = "none" /\ query' = Judged(q)

\* A narrower level, or "an async report with tighter scope"; a report; a range that is
\* trimmed, here to a month.
Advised(verdict, q) ==
  CASE verdict = "narrow" -> {[q EXCEPT !.level = "ad"]}
                               \cup {[q EXCEPT !.async = TRUE, !.widePreset = FALSE, !.span = s] :
                                       s \in {q.span, Month}}
    [] verdict = "report" -> {[q EXCEPT !.async = TRUE]}
    [] OTHER -> {[q EXCEPT !.span = Month]}

\* The caller follows the advice of the error.
FollowAdvice ==
  /\ query.is \notin {"none", "accepted"}
  /\ \E q \in Advised(query.is, query.of) : query' = Judged(q)

GuardTypeOK == query.is = "none" \/ query.of \in Queries

\* The rules in the order they are asked in, an acceptance last.
Rule(verdict) ==
  CASE verdict = "narrow" -> 1 [] verdict = "report" -> 2 [] verdict = "trim" -> 3 [] OTHER -> 4

\* insights-guardrails.ts:47-75: a caller who does what a refusal says comes to a later rule,
\* or is accepted: none of these ways leads back.  But for one: rule 1 offers a report of
\* tighter scope as well (line 50), and does not ask whether the query is one, so a caller
\* who stays at the level of the account is refused again in the same words.
AdviceHelps ==
  [][query.is # "none" /\ query' # query =>
       IF query.is = "narrow" /\ query'.of.level = "account" THEN query'.is = "narrow"
       ELSE Rule(query'.is) > Rule(query.is)]_query
=============================================================================
