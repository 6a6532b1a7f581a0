----------------------------- MODULE PacedWrites -----------------------------
(***************************************************************************)
(* The write pacer on its own: calls that acquire, sleep when they must,   *)
(* and go, while answers of earlier ones report the tier.  A history       *)
(* counts what the bucket let through.                                     *)
(***************************************************************************)
EXTENDS WritePacer, FiniteSets

VARIABLES
  sleeping,   \* call -> when its timer is due, 0 when it is not asleep
  prompt,     \* the calls the pacer let through at once
  delayed     \* the calls it let through after a sleep

vars == <<now, pacer, sleeping, prompt, delayed>>

CONSTANT Bucket    \* the bucket all of these calls are accounted to

ASSUME BucketAssumption == Bucket \in PacerKeys

Init ==
  /\ ClockInit
  /\ PacerInit
  /\ sleeping = [r \in Calls |-> 0]
  /\ prompt = {}
  /\ delayed = {}

Waiting(r) == sleeping[r] # 0

Fresh(r) == ~ Waiting(r) /\ r \notin prompt \cup delayed

Acquire(r) ==
  /\ Fresh(r)
  /\ \/ /\ AcquireNow(Bucket)
        /\ prompt' = prompt \cup {r}
        /\ UNCHANGED sleeping
     \/ /\ AcquireMustWait(Bucket)
        /\ sleeping' = [sleeping EXCEPT ![r] = now + AccrualTime(Bucket)]
        /\ UNCHANGED prompt
  /\ UNCHANGED <<now, delayed>>

Wake(r) ==
  /\ Waiting(r) /\ now >= sleeping[r]
  /\ AcquireAfterWait(Bucket)
  /\ sleeping' = [sleeping EXCEPT ![r] = 0]
  /\ delayed' = delayed \cup {r}
  /\ UNCHANGED <<now, prompt>>

ReportTier(tier) == TierSeen(Bucket, tier) /\ UNCHANGED <<now, sleeping, prompt, delayed>>

TimePasses == Tick /\ UNCHANGED <<pacer, sleeping, prompt, delayed>>

Next ==
  \/ TimePasses
  \/ \E r \in Calls : Acquire(r) \/ Wake(r)
  \/ \E tier \in Tiers : ReportTier(tier)

Spec == Init /\ [][Next]_vars

-----------------------------------------------------------------------------

\* The types of the pacer's buckets and of the history.
TypeOK ==
  /\ now \in Nat
  /\ pacer \in [PacerKeys -> PacerBucket]
  /\ sleeping \in [Calls -> Nat]
  /\ prompt \subseteq Calls /\ delayed \subseteq Calls

\* Shares the quota of the faster tier has granted since the process started.
Granted == InitialWrites * Share + (now - 1) * QuotaOf["standard_access"]

\* write-pacer.ts:10-13: the writes that go through without a sleep, and what is
\* left in the bucket, never come to more than the quota has granted - through
\* refills, sleepers that take what they find, and changes of tier.
PromptWithinQuota ==
  Cardinality(prompt) * Share + pacer[Bucket].level <= Granted

\* write-pacer.ts:10-11, "so a burst of writes from an agent never blows the hourly
\* quota": the same for all the writes that go through.
WritesWithinQuota ==
  Cardinality(prompt \cup delayed) * Share <= Granted
=============================================================================
