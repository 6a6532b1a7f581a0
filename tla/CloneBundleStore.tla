-------------------------- MODULE CloneBundleStore --------------------------
(***************************************************************************)
(* The Firestore store of clone bundle operations                          *)
(* (src/store/clone-bundle-store.ts), for one cache key.  claim runs in a  *)
(* transaction; update is a merging set: it writes the fields it is given, *)
(* whoever holds the record by then.  Every write may reach the store and  *)
(* still throw, so the composing module decides between record and the     *)
(* record written here.                                                    *)
(***************************************************************************)
EXTENDS Clock, Integers

CONSTANTS
  Runs,          \* executions of ads_clone_ad_set_bundle under this key
  Ads,           \* the ads of the source ad set, 1..n in the order they are copied
  Payloads,      \* request signatures
  StaleAfter,    \* STALE_IN_PROGRESS_MS
  NoOne

ASSUME StoreAssumption == StaleAfter \in Nat /\ NoOne \notin Runs

VARIABLE record

\* What runs create at Meta; a run makes one ad set, at most one copy and one
\* creative per source ad.
Resources == [kind : {"adSet"}, by : Runs, ad : {0}]
               \cup [kind : {"ad", "creative"}, by : Runs, ad : Ads]

\* result is the run that reported one.
Records ==
  [state : {"absent", "in_progress", "completed", "failed"}, signature : Payloads \cup {NoOne},
   startedAt : Nat, createdResources : SUBSET Resources, result : Runs \cup {NoOne}]

NoRecord ==
  [state |-> "absent", signature |-> NoOne, startedAt |-> 0,
   createdResources |-> {}, result |-> NoOne]

StoreInit == record = NoRecord

\* The lock as a bug would have it: a failed operation may be claimed again.
MutClaimable ==
  \/ record.state \in {"absent", "failed"}
  \/ record.state = "in_progress" /\ now - record.startedAt > StaleAfter

Claimable ==
  \/ record.state = "absent"
  \/ record.state = "in_progress" /\ now - record.startedAt > StaleAfter

\* A claim starts a fresh record: what a stale one listed is gone.
Claimed(signature) ==
  [NoRecord EXCEPT !.state = "in_progress", !.signature = signature, !.startedAt = now]

\* The ledger merges field by field: an adSetId that is still undefined is left out
\* of the write (ignoreUndefinedProperties), the two lists are always replaced.
Merged(created) ==
  IF \E c \in created : c.kind = "adSet" THEN created
  ELSE created \cup {c \in record.createdResources : c.kind = "adSet"}

WithLedger(created) == [record EXCEPT !.createdResources = Merged(created)]

WithFailure(created) ==
  [record EXCEPT !.state = "failed", !.createdResources = Merged(created)]

WithCompletion(r) == [record EXCEPT !.state = "completed", !.result = r]
=============================================================================
