------------------------------ MODULE CloneBundle ------------------------------
(***************************************************************************)
(* ads_clone_ad_set_bundle (src/tools/adsets.ts): concurrent executions    *)
(* under one idempotency key, in any number of processes over one store.   *)
(* Each await is a point where another execution may run and where the     *)
(* process may die.  Meta is external: a creating request may fail, or     *)
(* succeed and lose its answer (the client never repeats one).             *)
(***************************************************************************)
EXTENDS CloneBundleStore, FiniteSets

CONSTANTS
  Signature,   \* run -> its payload
  Swapped      \* the ads a creative override is swapped onto

ASSUME BundleAssumption ==
  /\ Signature \in [Runs -> Payloads] /\ Swapped \subseteq Ads
  /\ IsFiniteSet(Ads) /\ Ads = 1..Cardinality(Ads)
  /\ Runs \cap {"conflict", "busy", "failed before", "error"} = {}

VARIABLES
  run,      \* run -> [pc, ad, created]: where it stands, the ad in hand, what it knows it made
  told,     \* run -> what its caller was told
  meta,     \* what exists at Meta, made by these runs
  claims    \* run -> when it claimed the key, 0 if it never did

vars == <<now, record, run, told, meta, claims>>

Working == {"creating", "savingAdSet", "copying", "savingAd", "swapping", "savingCreative",
            "failing", "completing"}

Stages == Working \cup {"idle", "reading", "claiming", "ended", "dead"}

\* A caller is told of the run whose result it gets, or why it gets none.
Answers == Runs \cup {NoOne, "conflict", "busy", "failed before", "error"}

Init ==
  /\ ClockInit
  /\ StoreInit
  /\ run = [r \in Runs |-> [pc |-> "idle", ad |-> 0, created |-> {}]]
  /\ told = [r \in Runs |-> NoOne]
  /\ meta = {}
  /\ claims = [r \in Runs |-> 0]

Goto(r, stage) == run' = [run EXCEPT ![r].pc = stage] /\ UNCHANGED told

End(r, answer) ==
  /\ run' = [run EXCEPT ![r].pc = "ended"]
  /\ told' = [told EXCEPT ![r] = answer]

\* The loop as a bug would have it: its end is always success.
MutNextAd(r) ==
  LET ad == run[r].ad + 1 IN
  /\ run' = [run EXCEPT ![r].ad = ad, ![r].pc = IF ad \in Ads THEN "copying" ELSE "completing"]
  /\ UNCHANGED told

\* The loop as a bug would have it: one ad too many.
MutOneAdTooMany(r) ==
  LET ad == run[r].ad + 1 IN
  /\ run' = [run EXCEPT ![r].ad = ad,
                        ![r].pc = IF run[r].ad \in Ads \cup {0} THEN "copying" ELSE "completing"]
  /\ UNCHANGED told

\* The loop goes on with the next ad; after the last, a run without a copy has failed.
NextAd(r) ==
  LET ad     == run[r].ad + 1
      copied == \E c \in run[r].created : c.kind = "ad"
  IN  /\ run' = [run EXCEPT ![r].ad = ad,
                            ![r].pc = IF ad \in Ads THEN "copying"
                                      ELSE IF copied THEN "completing" ELSE "failing"]
      /\ UNCHANGED told

-----------------------------------------------------------------------------

LookUp(r) ==
  /\ run[r].pc = "idle"
  /\ IF record.state = "absent" THEN Goto(r, "reading")
     ELSE IF record.signature # Signature[r] THEN End(r, "conflict")
     ELSE IF record.state = "completed" THEN End(r, record.result)
     ELSE IF record.state = "failed" THEN End(r, "failed before")
     ELSE IF now - record.startedAt <= StaleAfter THEN End(r, "busy")
     ELSE Goto(r, "reading")
  /\ UNCHANGED <<now, record, meta, claims>>

\* The source ad set, its ads and the creatives to patch are read; or a read fails,
\* the ad set cannot be cloned, or it has no ads.
ReadSource(r) ==
  /\ run[r].pc = "reading"
  /\ Goto(r, "claiming") \/ End(r, "error")
  /\ UNCHANGED <<now, record, meta, claims>>

Claim(r) ==
  /\ run[r].pc = "claiming"
  /\ Claimable
  /\ record' = Claimed(Signature[r])
  /\ claims' = [claims EXCEPT ![r] = now]
  /\ Goto(r, "creating") \/ End(r, "error")
  /\ UNCHANGED <<now, meta>>

\* The refused claim as a bug would have it: who finds the key held by its own payload goes on.
MutClaimDuplicate(r) ==
  /\ run[r].pc = "claiming"
  /\ ~ Claimable
  /\ IF record.signature # Signature[r] THEN End(r, "conflict")
     ELSE IF record.state = "completed" THEN End(r, record.result)
     ELSE Goto(r, "creating")
  /\ UNCHANGED <<now, record, meta, claims>>

ClaimDuplicate(r) ==
  /\ run[r].pc = "claiming"
  /\ ~ Claimable
  /\ End(r, IF record.signature # Signature[r] THEN "conflict"
            ELSE IF record.state = "completed" THEN record.result ELSE "busy")
  /\ UNCHANGED <<now, record, meta, claims>>

\* The store throws before anything is written.
StoreUnavailable(r) ==
  /\ run[r].pc \in {"idle", "claiming", "savingAdSet", "savingAd", "completing"}
  /\ End(r, "error")
  /\ UNCHANGED <<now, record, meta, claims>>

-----------------------------------------------------------------------------

\* A creating request whose answer arrives: the run knows what it made.
Make(r, resource, stage) ==
  /\ meta' = meta \cup {resource}
  /\ run' = [run EXCEPT ![r].pc = stage, ![r].created = @ \cup {resource}]
  /\ UNCHANGED told

\* One that fails, as far as the run can tell.
MakeUnknown(resource) == meta' \in {meta, meta \cup {resource}}

Resource(r, kind, ad) == [kind |-> kind, by |-> r, ad |-> ad]

CreateAdSet(r) ==
  /\ run[r].pc = "creating"
  /\ LET adSet == Resource(r, "adSet", 0) IN
       \/ Make(r, adSet, "savingAdSet")
       \/ MakeUnknown(adSet) /\ Goto(r, "failing")
  /\ UNCHANGED <<now, record, claims>>

\* Outside a swap nothing catches an update that throws after it has written.
SaveAdSet(r) ==
  /\ run[r].pc = "savingAdSet"
  /\ record' = WithLedger(run[r].created)
  /\ NextAd(r) \/ End(r, "error")
  /\ UNCHANGED <<now, meta, claims>>

\* A copy that fails is skipped.
CopyAd(r) ==
  /\ run[r].pc = "copying"
  /\ LET copy == Resource(r, "ad", run[r].ad) IN
       \/ Make(r, copy, "savingAd")
       \/ MakeUnknown(copy) /\ NextAd(r)
  /\ UNCHANGED <<now, record, claims>>

\* After a saved copy (and its rename, which no other run sees), the swap if any.
AfterCopy(r) == IF run[r].ad \in Swapped THEN Goto(r, "swapping") ELSE NextAd(r)

\* SaveAd as a bug would have it: the copies are left for the last write to list.
MutSaveAd(r) ==
  /\ run[r].pc = "savingAd"
  /\ AfterCopy(r)
  /\ UNCHANGED <<now, record, meta, claims>>

SaveAd(r) ==
  /\ run[r].pc = "savingAd"
  /\ record' = WithLedger(run[r].created)
  /\ AfterCopy(r) \/ End(r, "error")
  /\ UNCHANGED <<now, meta, claims>>

CreateCreative(r) ==
  /\ run[r].pc = "swapping"
  /\ LET creative == Resource(r, "creative", run[r].ad) IN
       \/ Make(r, creative, "savingCreative")
       \/ MakeUnknown(creative) /\ NextAd(r)
  /\ UNCHANGED <<now, record, claims>>

\* Within a swap an update that throws, written or not, only costs a warning.
SaveCreative(r) ==
  /\ run[r].pc = "savingCreative"
  /\ record' \in {record, WithLedger(run[r].created)}
  /\ NextAd(r)
  /\ UNCHANGED <<now, meta, claims>>

\* markFailed, best effort, after the ad set or every copy has failed.
MarkFailed(r) ==
  /\ run[r].pc = "failing"
  /\ record' \in {record, WithFailure(run[r].created)}
  /\ End(r, "error")
  /\ UNCHANGED <<now, meta, claims>>

Complete(r) ==
  /\ run[r].pc = "completing"
  /\ record' = WithCompletion(r)
  /\ End(r, r) \/ End(r, "error")
  /\ UNCHANGED <<now, meta, claims>>

\* The process dies; nobody is told anything.
Crash(r) ==
  /\ run[r].pc \notin {"idle", "ended", "dead"}
  /\ Goto(r, "dead")
  /\ UNCHANGED <<now, record, meta, claims>>

TimePasses == Tick /\ UNCHANGED <<record, run, told, meta, claims>>

Next ==
  \/ TimePasses
  \/ \E r \in Runs :
       \/ LookUp(r) \/ ReadSource(r) \/ Claim(r) \/ ClaimDuplicate(r)
       \/ CreateAdSet(r) \/ SaveAdSet(r)
       \/ CopyAd(r) \/ SaveAd(r) \/ CreateCreative(r) \/ SaveCreative(r)
       \/ StoreUnavailable(r) \/ MarkFailed(r) \/ Complete(r) \/ Crash(r)

Spec == Init /\ [][Next]_vars

-----------------------------------------------------------------------------

\* The types of the record (clone-bundle-store.ts:5-24) and of the executions.
TypeOK ==
  /\ now \in Nat
  /\ record \in Records
  /\ run \in [Runs -> [pc : Stages, ad : Ads \cup {0, Cardinality(Ads) + 1}, created : SUBSET Resources]]
  /\ told \in [Runs -> Answers]
  /\ meta \subseteq Resources
  /\ claims \in [Runs -> Nat]

Claimants == {r \in Runs : claims[r] # 0}

\* clone-bundle-store.ts:74-98: of two executions that got the key, the later one got
\* it more than the stale window after the earlier - whatever lookups, failures,
\* crashes and late updates of others lie between.
ClaimsAWindowApart ==
  \A r, q \in Claimants :
    r # q => claims[r] - claims[q] > StaleAfter \/ claims[q] - claims[r] > StaleAfter

\* adsets.ts:576-604: no ad set is made without the key, and of two made under one key the
\* makers got it more than the stale window apart: a repetition that asks for the key
\* sooner - after a crash, a lost answer or a failed store, or side by side in another
\* process - never makes a second one.
AdSetsApart ==
  \A x, y \in meta :
    x.kind = "adSet" /\ y.kind = "adSet" /\ x # y =>
      /\ x.by \in Claimants /\ y.by \in Claimants /\ x.by # y.by
      /\ claims[x.by] - claims[y.by] > StaleAfter \/ claims[y.by] - claims[x.by] > StaleAfter

\* adsets.ts:436-451 and 589-602: a caller that gets a result gets that of an
\* execution whose ad set and at least one ad exist, and, unless the key changed
\* hands, one of its own payload.
ResultsAreReal ==
  \A r, q \in Runs :
    told[r] = q =>
      /\ Resource(q, "adSet", 0) \in meta
      /\ \E ad \in Ads : Resource(q, "ad", ad) \in meta
      /\ Claimants = {q} => Signature[r] = Signature[q]

\* clone-bundle-store.ts:7-10, the ledger for cleanup: while the key has had one
\* execution, the record of an unfinished operation misses at most one of the ad
\* set and the ads that the execution knows it made, and a failed one none.
LedgerKeepsUp ==
  \A r \in Runs :
    Claimants = {r} /\ record.state # "completed" =>
      LET missing == {c \in run[r].created \ record.createdResources : c.kind # "creative"} IN
      /\ Cardinality(missing) <= 1
      /\ record.state = "failed" => missing = {}

\* adsets.ts:413, "Reusing the same key returns the prior result instead of
\* duplicating resources": one key never has two ad sets made at Meta.
OneBundlePerKey == Cardinality({c \in meta : c.kind = "adSet"}) <= 1
=============================================================================
