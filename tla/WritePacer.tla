------------------------------ MODULE WritePacer ------------------------------
(***************************************************************************)
(* WritePacer (src/meta/write-pacer.ts): a token bucket per (token,        *)
(* account) that spaces out writes.  Levels are counted in shares, Share   *)
(* of them to one write; a tick refills the hourly quota of the tier, in   *)
(* shares, so that with Share = 3600 and ticks of one second the integers  *)
(* are the code's fractions exactly.                                       *)
(***************************************************************************)
EXTENDS RequestScope, Integers

CONSTANTS
  Share,              \* shares that make one write
  QuotaOf,            \* tier -> shares refilled per tick (computeRate)
  CapacityOf,         \* tier -> writes a bucket can hold
  InitialWrites       \* writes a new bucket holds

Tiers == {"development_access", "standard_access"}

ASSUME PacerAssumption ==
  /\ Share \in Nat \ {0}
  /\ QuotaOf \in [Tiers -> Nat \ {0}]
  /\ QuotaOf["development_access"] <= QuotaOf["standard_access"]
  /\ CapacityOf \in [Tiers -> Nat \ {0}]
  /\ InitialWrites \in 0..CapacityOf["development_access"]

VARIABLE pacer    \* [token, account] -> bucket; tier "none" until getOrCreate made it

PacerKeys == [token : Tokens, account : Accounts]

PacerBucket ==
  [level : Nat, tier : Tiers \cup {"none"}, refilledAt : Nat]

NoPacerBucket == [level |-> 0, tier |-> "none", refilledAt |-> 0]

PacerInit == pacer = [k \in PacerKeys |-> NoPacerBucket]

NewPacerBucket ==
  [level |-> InitialWrites * Share, tier |-> "development_access", refilledAt |-> now]

GetOrCreate(k) == IF pacer[k].tier = "none" THEN NewPacerBucket ELSE pacer[k]

\* refill as a bug would have it: lastRefillMs is left alone, the same time counts twice.
MutRefill(b) ==
  LET level == b.level + (now - b.refilledAt) * QuotaOf[b.tier] IN
  IF level > CapacityOf[b.tier] * Share THEN [b EXCEPT !.level = CapacityOf[b.tier] * Share]
  ELSE [b EXCEPT !.level = level]

\* refill: nothing within one tick, otherwise up to the capacity of the tier.
Refill(b) ==
  LET full  == CapacityOf[b.tier] * Share
      level == b.level + (now - b.refilledAt) * QuotaOf[b.tier]
  IN  IF now <= b.refilledAt THEN b
      ELSE [b EXCEPT !.level = IF level > full THEN full ELSE level, !.refilledAt = now]

\* The first half of acquire, where a whole write is in the bucket.
AcquireNow(k) ==
  LET b == Refill(GetOrCreate(k)) IN
  /\ b.level >= Share
  /\ pacer' = [pacer EXCEPT ![k] = [b EXCEPT !.level = @ - Share]]

\* Where it is not: the caller sleeps until one write has accrued ...
AcquireMustWait(k) ==
  LET b == Refill(GetOrCreate(k)) IN
  /\ b.level < Share
  /\ pacer' = [pacer EXCEPT ![k] = b]

AccrualTime(k) ==
  LET b == Refill(GetOrCreate(k)) IN
  (Share - b.level + QuotaOf[b.tier] - 1) \div QuotaOf[b.tier]

\* Taking as a bug would have it: the level is not kept from falling below nothing.
MutAcquireAfterWait(k) ==
  LET b == Refill(GetOrCreate(k)) IN
  pacer' = [pacer EXCEPT ![k] = [b EXCEPT !.level = @ - Share]]

\* ... and takes what it finds then, down to nothing (write-pacer.ts:93-94).
AcquireAfterWait(k) ==
  LET b == Refill(GetOrCreate(k)) IN
  pacer' = [pacer EXCEPT ![k] = [b EXCEPT !.level = IF @ > Share THEN @ - Share ELSE 0]]

\* updateTier: a bucket that exists follows the tier Meta reports, its level kept.
TierSeen(k, tier) ==
  pacer' = IF tier \in Tiers /\ pacer[k].tier \notin {"none", tier}
           THEN [pacer EXCEPT ![k].tier = tier]
           ELSE pacer
=============================================================================
