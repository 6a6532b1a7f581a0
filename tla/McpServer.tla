----------------------------- MODULE McpServer -----------------------------
(***************************************************************************)
(* The process as its callers meet it: started under one of its settled    *)
(* configurations, it answers one kind of load.  The loads share the       *)
(* configuration and the clock and nothing else, so a behaviour has one of *)
(* them.  An image is fetched before it is uploaded.                       *)
(***************************************************************************)
EXTENDS RequestLimiter, RequestAuth, WriteTools, InsightsGuardrails, AsyncReports, SafeDownload,
        ParallelReads

CONSTANTS
  MaxRequests,   \* bound: how often the doors are knocked at
  MaxPolls       \* bound: how often the status tool polls

VARIABLE load

tokenVars == <<poolVars, requestVars>>
doorVars == <<requests, log>>
\* The variables of every load but the one named.
vars == <<load, config, now, tokenVars, doorVars, write, query, reportVars, fetch, reading>>

Loads == {"door", "tokens", "writes", "uploads", "queries", "reports", "reads"}

\* The settlements a load depends on: all of them, token-free or not, or none.
Matters(c) ==
  \/ load = "tokens"
  \/ /\ c.http /\ ~ c.multiTenant /\ ~ c.apiKey /\ c.metaTokens = "none"
     /\ c.metaToken = ~ c.tokenFree
     /\ c.tokenFree => load \in {"writes", "uploads", "reports"}

Init ==
  /\ load \in Loads /\ ConfigInit /\ Matters(config) /\ ClockInit
  /\ PoolInit /\ AuthInit /\ LimiterInit /\ WriteInit /\ GuardInit /\ ReportsInit /\ DownloadInit
  /\ ReadInit

Door ==
  /\ load = "door"
  /\ \E d \in Doors :
       Sweep(d) \/ \E a \in Addresses : Cardinality(log) < MaxRequests /\ Request(d, a)
  /\ UNCHANGED <<load, config, now, tokenVars, write, query, reportVars, fetch, reading>>

Token ==
  /\ load = "tokens" /\ Serve
  /\ UNCHANGED <<load, config, now, doorVars, write, query, reportVars, fetch, reading>>

WriteOn == Send \/ Answered \/ ReadBack

Write ==
  /\ load \in {"writes", "uploads"}
  /\ WriteOn \/ (load = "writes" /\ \E a \in Asks : AskWrite(a))
  /\ UNCHANGED <<load, config, now, tokenVars, doorVars, query, reportVars, fetch, reading>>

DownloadOn ==
  \/ ResolveHost \/ Connect \/ Rejected \/ Accepted \/ Complete
  \/ \E url \in Urls : Redirected(url)
  \/ \E n \in 1 .. MaxBytes + 1 : Chunk(n)

Download ==
  /\ load = "uploads"
  /\ DownloadOn \/ \E kind \in {"download", "vet"}, url \in Urls : AskDownload(kind, url)
  /\ UNCHANGED <<load, config, now, tokenVars, doorVars, write, query, reportVars, reading>>

\* ads_upload_ad_image with the image it fetched, ads_upload_ad_video with the URL it vetted;
\* either throws if there is none.
Upload ==
  /\ load = "uploads" /\ fetch.pc = "over"
  /\ \E ask \in IF fetch.kind = "download" THEN UploadImage ELSE UploadVideo :
       fetch.ok = (ask.method # "none") /\ AskWrite(ask)
  /\ UNCHANGED <<load, config, now, tokenVars, doorVars, query, reportVars, fetch, reading>>

Query ==
  /\ load = "queries"
  /\ FollowAdvice \/ \E q \in Queries : AskInsights(q)
  /\ UNCHANGED <<load, config, now, tokenVars, doorVars, write, reportVars, fetch, reading>>

WaitOn(w) == PollReport(w) \/ AnswerPoll(w) \/ FetchResults(w)

PollByHand == Cardinality({q \in polls : q.by = "status"}) < MaxPolls /\ \E p \in Reports : PollStatus(p)

RunReport ==
  /\ load = "reports"
  /\ \/ \E p \in Reports : CreateReport(p) \/ EndReport(p)
     \/ PollByHand
     \/ \E w \in Waits : WaitOn(w)
     \/ \E w \in Waits, p \in Reports, m \in MaxWaits, i \in PollIntervals : RunAndWait(w, p, m, i)
  /\ UNCHANGED <<load, config, now, tokenVars, doorVars, write, query, fetch, reading>>

Read ==
  /\ load = "reads"
  /\ \/ Conclude
     \/ \E i \in DOMAIN reading.answers : AnswerRead(i)
     \/ \E c \in Calls : AskReads(c)
  /\ UNCHANGED <<load, config, now, tokenVars, doorVars, write, query, reportVars, fetch>>

TimePasses ==
  /\ load \in {"door", "reports"} /\ Tick
  /\ UNCHANGED <<load, config, tokenVars, doorVars, write, query, reportVars, fetch, reading>>

Next ==
  \/ Door \/ Token \/ Write \/ Download \/ Upload \/ Query \/ RunReport \/ Read \/ TimePasses

(* The client and the download have timeouts, a sleep ends, time passes.   *)
Spec ==
  /\ Init /\ [][Next]_vars
  /\ WF_vars(TimePasses)
  /\ WF_vars(Write /\ WriteOn)
  /\ WF_vars(Download /\ DownloadOn)
  /\ \A w \in Waits : WF_vars(RunReport /\ WaitOn(w))
  /\ WF_vars(Read /\ reading.pc = "asked")

TypeOK ==
  /\ load \in Loads
  /\ AuthTypeOK /\ LimiterTypeOK /\ WriteTypeOK /\ GuardTypeOK /\ ReportsTypeOK /\ DownloadTypeOK
  /\ ReadTypeOK

\* reports.ts:259-311, client.ts:260, safe-download.ts:192: every call that was begun returns:
\* a wait for a report that never ends, a download of a server that only redirects, a write or
\* a report of many answers, whichever of them fail.
EveryToolReturns ==
  /\ \A w \in Waits : wait[w].pc # "idle" ~> WaitOver(w)
  /\ write.pc # "idle" ~> write.pc = "over"
  /\ fetch.pc # "idle" ~> fetch.pc = "over"
  /\ reading.pc # "idle" ~> reading.pc \in {"over", "failed"}

=============================================================================
