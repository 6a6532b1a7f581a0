---------------------------- MODULE AsyncReports ----------------------------
(***************************************************************************)
(* The asynchronous reports of tools/reports.ts: a report is created and   *)
(* polled by hand, under the minimum interval the process keeps per        *)
(* report, or created and waited for, with sleeps that grow up to a        *)
(* deadline.  A report runs at Meta and need never end.                    *)
(***************************************************************************)
EXTENDS Clock, SecurityConfig, FiniteSets, FiniteSetsExt

CONSTANTS
  Reports, Waits,
  MinPollInterval, MaxPollInterval,
  PollIntervals, MaxWaits        \* what a call may ask for, in ticks (reports.ts:219-228)

ASSUME ReportsAssumption ==
  /\ MinPollInterval \in Nat \ {0} /\ MaxPollInterval \in Nat
  /\ MinPollInterval <= MaxPollInterval
  /\ PollIntervals \subseteq MinPollInterval .. MaxPollInterval /\ MaxWaits \subseteq Nat
  /\ "status" \notin Waits

VARIABLES
  report,       \* report -> its state at Meta
  lastPollAt,   \* report -> when the status tool polled it last, 0 for never
  wait,         \* call of ads_run_report_and_wait -> where it stands
  polls         \* every poll: of which report, by whom, when (to observe)

reportVars == <<report, lastPollAt, wait, polls>>

ReportStates == {"free", "running", "completed", "failed", "skipped"}

NotWaiting == [pc |-> "idle", report |-> None, deadline |-> 0, interval |-> 0, wake |-> 0]

ReportsInit ==
  /\ report = [p \in Reports |-> "free"]
  /\ lastPollAt = [p \in Reports |-> 0]
  /\ wait = [w \in Waits |-> NotWaiting]
  /\ polls = {}

Polled(p, caller) ==
  LET before == {q \in polls : q.report = p /\ q.by = caller}
  IN polls' = polls \cup {[report |-> p, by |-> caller, at |-> now, n |-> Cardinality(before)]}

\* ads_create_async_report.
CreateReport(p) ==
  /\ report[p] = "free"
  /\ report' = [report EXCEPT ![p] = "running"]
  /\ UNCHANGED <<lastPollAt, wait, polls>>

\* enforceMinPollInterval as a bug would have it: a refused poll sets the clock back to zero.
MutStamp(p) == IF lastPollAt[p] # 0 /\ now - lastPollAt[p] < MinPollInterval THEN 0 ELSE now

\* enforceMinPollInterval: what it leaves in lastPollAt.
Stamp(p) ==
  IF lastPollAt[p] # 0 /\ now - lastPollAt[p] < MinPollInterval THEN lastPollAt[p] ELSE now

TooFast(p) == lastPollAt[p] # 0 /\ now - lastPollAt[p] < MinPollInterval

\* ads_get_report_status, of a report that is known to its caller.
PollStatus(p) ==
  /\ report[p] # "free"
  /\ lastPollAt' = [lastPollAt EXCEPT ![p] = Stamp(p)]
  /\ IF TooFast(p) \/ config.tokenFree THEN UNCHANGED polls ELSE Polled(p, "status")
  /\ UNCHANGED <<report, wait>>

\* The head of the loop of ads_run_report_and_wait.
LoopHead(record) ==
  IF now < record.deadline
    THEN [record EXCEPT !.pc = "sleeping", !.wake = now + record.interval,
                        !.interval = Min({MaxPollInterval, (3 * record.interval + 1) \div 2})]
    ELSE [record EXCEPT !.pc = "timed out"]

\* ads_run_report_and_wait, once its report is created; MaxTime leaves room for its end.
RunAndWait(w, p, maxWait, interval) ==
  /\ wait[w].pc = "idle" /\ report[p] = "free"
  /\ now + maxWait + MaxPollInterval <= MaxTime
  /\ report' = [report EXCEPT ![p] = "running"]
  /\ wait' = [wait EXCEPT ![w] =
       LoopHead([pc |-> "head", report |-> p, deadline |-> now + maxWait, wake |-> 0,
                 interval |-> Max({MinPollInterval, interval})])]
  /\ UNCHANGED <<lastPollAt, polls>>

\* The sleep is over and Meta is asked; in token-free mode the read throws.
PollReport(w) ==
  /\ wait[w].pc = "sleeping" /\ now >= wait[w].wake
  /\ IF config.tokenFree
       THEN /\ wait' = [wait EXCEPT ![w].pc = "failed"]
            /\ UNCHANGED polls
       ELSE /\ wait' = [wait EXCEPT ![w].pc = "polling"]
            /\ Polled(wait[w].report, w)
  /\ UNCHANGED <<report, lastPollAt>>

\* The loop as a bug would have it: the deadline is not looked at again.
MutAfterPoll(record, state) ==
  CASE state = "completed" -> [record EXCEPT !.pc = "fetching"]
    [] state \in {"failed", "skipped"} -> [record EXCEPT !.pc = "failed"]
    [] OTHER -> [record EXCEPT !.pc = "sleeping", !.wake = now + record.interval]

AfterPoll(record, state) ==
  CASE state = "completed" -> [record EXCEPT !.pc = "fetching"]
    [] state \in {"failed", "skipped"} -> [record EXCEPT !.pc = "failed"]
    [] OTHER -> LoopHead(record)

\* The answer to the poll, or its error, which ends the call.
AnswerPoll(w) ==
  /\ wait[w].pc = "polling"
  /\ \/ wait' = [wait EXCEPT ![w] = AfterPoll(wait[w], report[wait[w].report])]
     \/ wait' = [wait EXCEPT ![w].pc = "failed"]
  /\ UNCHANGED <<report, lastPollAt, polls>>

FetchResults(w) ==
  /\ wait[w].pc = "fetching"
  /\ \E end \in {"answered", "failed"} : wait' = [wait EXCEPT ![w].pc = end]
  /\ UNCHANGED <<report, lastPollAt, polls>>

\* At Meta: a report comes to its end.
EndReport(p) ==
  /\ report[p] = "running"
  /\ \E end \in {"completed", "failed", "skipped"} : report' = [report EXCEPT ![p] = end]
  /\ UNCHANGED <<lastPollAt, wait, polls>>

WaitOver(w) == wait[w].pc \in {"timed out", "answered", "failed"}

ReportsTypeOK ==
  /\ report \in [Reports -> ReportStates]
  /\ lastPollAt \in [Reports -> 0 .. now]
  /\ \A w \in Waits :
       /\ wait[w].pc \in {"idle", "sleeping", "polling", "fetching", "timed out", "answered", "failed"}
       /\ wait[w].pc # "idle" => wait[w].report \in Reports
       /\ wait[w].interval \in 0 .. MaxPollInterval
  /\ \A q \in polls : q.report \in Reports /\ q.at \in 1 .. now

\* reports.ts:265-269 and 326-337: two polls of one report by the status tool, or two polls
\* of one wait, are at least the minimum interval apart, failed and refused ones in between
\* or not; and no wait sleeps past its deadline by a whole longest interval.
PollsSpaced ==
  /\ \A q, r \in polls :
       q.report = r.report /\ q.by = r.by /\ q.n < r.n => r.at >= q.at + MinPollInterval
  /\ \A w \in Waits :
       wait[w].pc = "sleeping" => wait[w].wake < wait[w].deadline + MaxPollInterval
=============================================================================
