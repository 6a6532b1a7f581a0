----------------------------- MODULE CloneProofs -----------------------------
(***************************************************************************)
(* The lock of a clone bundle operation, for every number of executions,   *)
(* ads and payloads and every length of the stale window.                  *)
(***************************************************************************)
EXTENDS CloneBundle, FiniteSetTheorems, TLAPS

RecordFields == {"state", "signature", "startedAt", "createdResources", "result"}

\* The record remembers the last claim, and no update by anyone moves it: that is
\* why the age of the record bounds the age of every claim from below.
LockInv ==
  /\ now \in Nat \ {0}
  /\ DOMAIN record = RecordFields /\ record = [f \in RecordFields |-> record[f]]
  /\ record.startedAt \in Nat
  /\ claims \in [Runs -> Nat]
  /\ \A r \in Claimants : record.state # "absent" /\ claims[r] <= record.startedAt
  /\ ClaimsAWindowApart

-----------------------------------------------------------------------------

\* The writes that follow a claim change neither its time nor, back, its state.
Written(new) ==
  /\ DOMAIN new = RecordFields /\ new = [f \in RecordFields |-> new[f]]
  /\ new.startedAt = record.startedAt
  /\ record.state # "absent" => new.state # "absent"

LEMMA UpdatesKeepTheClaim ==
  ASSUME LockInv, NEW r, NEW created
  PROVE  /\ Written(record)
         /\ Written(WithLedger(created))
         /\ Written(WithFailure(created))
         /\ Written(WithCompletion(r))
BY DEF LockInv, Written, RecordFields, WithLedger, WithFailure, WithCompletion

\* Every step but a claim leaves the claims alone, and the record to such a write.
LEMMA StepWithoutClaim ==
  ASSUME LockInv, now' \in Nat, now' >= now, UNCHANGED claims, Written(record')
  PROVE  LockInv'
BY DEF LockInv, Written, Claimants, ClaimsAWindowApart

\* The writes of an execution past its claim.
LEMMA RecordWrites ==
  ASSUME LockInv, NEW r \in Runs,
         \/ SaveAdSet(r) \/ SaveAd(r) \/ SaveCreative(r) \/ MarkFailed(r) \/ Complete(r)
  PROVE  UNCHANGED <<now, claims>> /\ Written(record')
<1>1. CASE SaveAdSet(r)
  BY <1>1, UpdatesKeepTheClaim DEF SaveAdSet
<1>2. CASE SaveAd(r)
  BY <1>2, UpdatesKeepTheClaim DEF SaveAd
<1>3. CASE SaveCreative(r)
  BY <1>3, UpdatesKeepTheClaim DEF SaveCreative
<1>4. CASE MarkFailed(r)
  BY <1>4, UpdatesKeepTheClaim DEF MarkFailed
<1>5. CASE Complete(r)
  BY <1>5, UpdatesKeepTheClaim DEF Complete
<1> QED BY <1>1, <1>2, <1>3, <1>4, <1>5

LEMMA LockInit == Init => LockInv
<1> SUFFICES ASSUME Init PROVE LockInv
  OBVIOUS
<1>1. /\ DOMAIN record = RecordFields /\ record = [f \in RecordFields |-> record[f]]
      /\ record.startedAt = 0
  BY DEF Init, StoreInit, NoRecord, RecordFields
<1>2. claims \in [Runs -> Nat] /\ Claimants = {}
  BY DEF Init, Claimants
<1>3. now \in Nat \ {0}
  BY DEF Init, ClockInit
<1> QED BY <1>1, <1>2, <1>3 DEF LockInv, ClaimsAWindowApart

\* A claim that finds the key free of claims or the last of them stale.
LEMMA ClaimStep ==
  ASSUME LockInv, NEW r \in Runs, Claim(r)
  PROVE  LockInv'
<1>1. /\ Claimable /\ record' = Claimed(Signature[r]) /\ now' = now
      /\ claims' = [claims EXCEPT ![r] = now]
  BY DEF Claim
<1>2. /\ DOMAIN record' = RecordFields /\ record' = [f \in RecordFields |-> record'[f]]
      /\ record'.startedAt = now /\ record'.state = "in_progress"
  BY <1>1 DEF Claimed, NoRecord, RecordFields
<1>3. \A q \in Runs :
        /\ claims'[q] = IF q = r THEN now ELSE claims[q]
        /\ claims'[q] \in Nat
        /\ q # r /\ claims[q] # 0 => now - claims[q] > StaleAfter
        /\ claims[q] # 0 => claims[q] <= now
  BY <1>1, StoreAssumption DEF LockInv, Claimable, Claimants
<1>4. ClaimsAWindowApart'
  BY <1>3 DEF LockInv, ClaimsAWindowApart, Claimants
<1>5. \A q \in Claimants' : record'.state # "absent" /\ claims'[q] <= record'.startedAt
  BY <1>2, <1>3 DEF LockInv, Claimants
<1> QED BY <1>1, <1>2, <1>4, <1>5 DEF LockInv

LEMMA LockStep == LockInv /\ [Next]_vars => LockInv'
<1> SUFFICES ASSUME LockInv, [Next]_vars PROVE LockInv'
  OBVIOUS
<1>n. now \in Nat
  BY DEF LockInv
<1>1. CASE TimePasses
  BY <1>1, <1>n, UpdatesKeepTheClaim, StepWithoutClaim DEF TimePasses, Tick
<1>2. ASSUME NEW r \in Runs, Claim(r) PROVE LockInv'
  BY <1>2, ClaimStep
<1>3. ASSUME NEW r \in Runs,
             \/ SaveAdSet(r) \/ SaveAd(r) \/ SaveCreative(r) \/ MarkFailed(r) \/ Complete(r)
      PROVE  LockInv'
  <2>1. UNCHANGED <<now, claims>> /\ Written(record')
    BY <1>3, RecordWrites
  <2> QED BY <1>n, <2>1, StepWithoutClaim
<1>4. ASSUME NEW r \in Runs,
             \/ LookUp(r) \/ ReadSource(r) \/ ClaimDuplicate(r) \/ CreateAdSet(r)
             \/ CopyAd(r) \/ CreateCreative(r) \/ StoreUnavailable(r) \/ Crash(r)
      PROVE  LockInv'
  <2>1. UNCHANGED <<now, record, claims>>
    BY <1>4 DEF LookUp, ReadSource, ClaimDuplicate, CreateAdSet, CopyAd,
                CreateCreative, StoreUnavailable, Crash
  <2>2. Written(record')
    BY <2>1, UpdatesKeepTheClaim DEF Written
  <2> QED BY <1>n, <2>1, <2>2, StepWithoutClaim
<1>5. CASE UNCHANGED vars
  <2>1. Written(record')
    BY <1>5, UpdatesKeepTheClaim DEF vars, Written
  <2> QED BY <1>5, <1>n, <2>1, StepWithoutClaim DEF vars
<1> QED BY <1>1, <1>2, <1>3, <1>4, <1>5 DEF Next

\* clone-bundle-store.ts:74-98: whatever lookups, failures, crashes and late updates
\* of others lie between, no two executions claim the key within the stale window.
THEOREM Lock == Spec => []ClaimsAWindowApart
<1>1. Spec => []LockInv
  BY LockInit, LockStep, PTL DEF Spec
<1> QED BY <1>1, PTL DEF LockInv

-----------------------------------------------------------------------------

Last == Cardinality(Ads) + 1

Made(r) == {x \in Resources : x.by = r}

Calls(r) == [pc : Stages, ad : Ads \cup {0, Last}, created : SUBSET Made(r)]

Early   == {"idle", "reading", "claiming", "creating"}
Looping == {"copying", "savingAd", "swapping", "savingCreative"}
Cloning == Looping \cup {"savingAdSet", "completing"}

\* What an execution knows it made, and which ad it has in hand, at each of its stages.
Sound(r, c) ==
  /\ c \in Calls(r)
  /\ c.pc \in Early => c.created = {} /\ c.ad = 0
  /\ c.pc \in Cloning => Resource(r, "adSet", 0) \in c.created
  /\ c.pc = "savingAdSet" => c.ad = 0
  /\ c.pc \in Looping => c.ad \in Ads
  /\ c.pc = "completing" => \E x \in c.created : x.kind = "ad"

Types ==
  /\ now \in Nat \ {0}
  /\ record \in Records
  /\ run \in [Runs -> [pc : Stages, ad : Ads \cup {0, Last}, created : SUBSET Resources]]
  /\ told \in [Runs -> Answers]
  /\ meta \subseteq Resources
  /\ claims \in [Runs -> Nat]
  /\ \A r \in Runs :
       /\ Sound(r, run[r])
       /\ run[r].created \subseteq meta
       /\ run[r].pc \in Working => claims[r] # 0

\* What an execution does at Meta or to the record once it has claimed the key.
Works(r) ==
  \/ CreateAdSet(r) \/ SaveAdSet(r) \/ CopyAd(r) \/ SaveAd(r)
  \/ CreateCreative(r) \/ SaveCreative(r) \/ MarkFailed(r) \/ Complete(r)

\* What leaves the record and Meta alone.
Looks(r) ==
  LookUp(r) \/ ReadSource(r) \/ ClaimDuplicate(r) \/ StoreUnavailable(r) \/ Crash(r)

LEMMA NextCases ==
  Next => TimePasses \/ \E r \in Runs : Claim(r) \/ Looks(r) \/ Works(r)
BY DEF Next, Looks, Works

LEMMA AdsInOrder ==
  /\ 0 \notin Ads
  /\ \A a \in Ads \cup {0} : a + 1 \in Ads \/ a + 1 = Last
<1> DEFINE n == Cardinality(Ads)
<1>1. n \in Nat BY BundleAssumption, FS_CardinalityType
<1>2. Ads = 1..n BY BundleAssumption
<1> HIDE DEF n
<1>3. 0 \notin Ads /\ \A a \in Ads \cup {0} : a + 1 \in Ads \/ a + 1 = n + 1
  BY <1>1, <1>2
<1> QED BY <1>3 DEF Last, n

LEMMA ResourceMade ==
  ASSUME NEW r \in Runs
  PROVE  /\ Resource(r, "adSet", 0) \in Made(r)
         /\ \A ad \in Ads : /\ Resource(r, "ad", ad) \in Made(r)
                            /\ Resource(r, "creative", ad) \in Made(r)
         /\ \A ad : Resource(r, "ad", ad).kind = "ad"
         /\ \A ad : Resource(r, "creative", ad).kind = "creative"
BY DEF Resource, Made, Resources

\* An execution that ends or dies, and one that moves on before it has made anything.
LEMMA SoundStops ==
  ASSUME NEW r \in Runs, NEW c, Sound(r, c), NEW stage,
         stage \in {"ended", "dead", "failing"} \/ (stage \in Early /\ c.pc \in Early),
         NEW d, d = [c EXCEPT !.pc = stage]
  PROVE  Sound(r, d) /\ d.pc = stage /\ d.created = c.created
BY DEF Sound, Calls, Early, Cloning, Looping, Stages, Working

\* The next ad, or the end of the loop.
OnToNextAd(c) ==
  [c EXCEPT !.ad = c.ad + 1,
            !.pc = IF c.ad + 1 \in Ads THEN "copying"
                   ELSE IF \E x \in c.created : x.kind = "ad" THEN "completing" ELSE "failing"]

Having(c, x, stage) == [c EXCEPT !.pc = stage, !.created = @ \cup {x}]

LEMMA SoundNextAd ==
  ASSUME NEW r \in Runs, NEW c, Sound(r, c), c.pc \in Looping \cup {"savingAdSet"}
  PROVE  /\ Sound(r, OnToNextAd(c)) /\ OnToNextAd(c).created = c.created
         /\ OnToNextAd(c).pc \in {"copying", "completing", "failing"}
<1>1. c.ad + 1 \in Ads \/ c.ad + 1 = Last
  BY AdsInOrder DEF Sound
<1>2. Last \notin Ads
  <2>1. Cardinality(Ads) \in Nat /\ Ads = 1..Cardinality(Ads)
    BY BundleAssumption, FS_CardinalityType
  <2> QED BY <2>1 DEF Last
<1> QED BY <1>1, <1>2 DEF OnToNextAd, Sound, Calls, Early, Cloning, Looping, Stages, Working

\* What is made is the execution's own.
LEMMA SoundMakes ==
  ASSUME NEW r \in Runs, NEW c, Sound(r, c), NEW x \in Made(r),
         NEW stage \in {"savingAdSet", "savingAd", "savingCreative"},
         stage = "savingAdSet" => c.ad = 0 /\ x = Resource(r, "adSet", 0),
         stage # "savingAdSet" => c.pc \in Looping
  PROVE  /\ Sound(r, Having(c, x, stage)) /\ Having(c, x, stage).pc = stage
         /\ Having(c, x, stage).created = c.created \cup {x}
BY DEF Having, Sound, Calls, Early, Cloning, Looping, Stages, Working

\* r stands at d after the step, and has forgotten nothing it made.
Moves(r, d) ==
  /\ Sound(r, d) /\ run' = [run EXCEPT ![r] = d]
  /\ run[r].created \subseteq d.created /\ d.created \subseteq meta'
  /\ d.pc \in Working => claims'[r] # 0

LEMMA StopMoves ==
  ASSUME Types, NEW r \in Runs, run[r].created \subseteq meta',
         NEW stage \in {"ended", "dead", "failing"}, run' = [run EXCEPT ![r].pc = stage],
         stage = "failing" => claims'[r] # 0
  PROVE  \E d : Moves(r, d) /\ d.created = run[r].created /\ d.pc = stage
<1> DEFINE d == [run[r] EXCEPT !.pc = stage]
<1>1. run' = [run EXCEPT ![r] = d] BY DEF Types
<1>s. Sound(r, run[r]) /\ d = [run[r] EXCEPT !.pc = stage] BY DEF Types
<1> HIDE DEF d
<1>2. Sound(r, d) /\ d.pc = stage /\ d.created = run[r].created BY <1>s, SoundStops
<1>3. d.pc \in Working => stage = "failing" BY <1>2 DEF Working
<1> QED BY <1>1, <1>2, <1>3 DEF Moves

LEMMA NextAdMoves ==
  ASSUME Types, NEW r \in Runs, run[r].created \subseteq meta', NextAd(r),
         run[r].pc \in Looping \cup {"savingAdSet"}, UNCHANGED claims
  PROVE  \E d : Moves(r, d) /\ d.created = run[r].created
                /\ d.pc \in {"copying", "completing", "failing"}
<1> DEFINE c == run[r]
           d == OnToNextAd(c)
<1>1. run' = [run EXCEPT ![r] = d] BY DEF NextAd, Types, OnToNextAd
<1>2. Sound(r, d) /\ d.created = c.created /\ d.pc \in {"copying", "completing", "failing"}
  BY SoundNextAd DEF Types
<1>3. claims'[r] # 0 BY DEF Types, Working, Looping
<1> QED BY <1>1, <1>2, <1>3 DEF Moves

LEMMA MakeMoves ==
  ASSUME Types, NEW r \in Runs, NEW x \in Made(r),
         NEW stage \in {"savingAdSet", "savingAd", "savingCreative"}, Make(r, x, stage),
         stage = "savingAdSet" => run[r].pc = "creating" /\ x = Resource(r, "adSet", 0),
         stage # "savingAdSet" => run[r].pc \in Looping, UNCHANGED claims
  PROVE  \E d : Moves(r, d) /\ d.created = run[r].created \cup {x} /\ d.pc = stage
<1> DEFINE c == run[r]
           d == Having(c, x, stage)
<1>1. run' = [run EXCEPT ![r] = d] BY DEF Make, Types, Having
<1>2. stage = "savingAdSet" => c.ad = 0 BY DEF Types, Sound, Early
<1>3. Sound(r, d) /\ d.pc = stage /\ d.created = c.created \cup {x}
  BY <1>2, SoundMakes DEF Types
<1>4. claims'[r] # 0 /\ c.created \cup {x} \subseteq meta'
  BY DEF Types, Working, Looping, Make
<1> QED BY <1>1, <1>3, <1>4 DEF Moves

\* The stages of an execution at work, and what it makes of them.
LEMMA WorkMoves ==
  ASSUME Types, NEW r \in Runs, Works(r)
  PROVE  /\ run[r].pc \in Working /\ UNCHANGED <<now, claims>>
         /\ meta \subseteq meta' /\ meta' \subseteq Resources
         /\ \E d : Moves(r, d)
<1> DEFINE c == run[r]
<1>0. run[r].pc \in Working /\ UNCHANGED <<now, claims>> /\ claims[r] # 0
  BY DEF Types, Works, CreateAdSet, SaveAdSet, CopyAd, SaveAd, CreateCreative, SaveCreative,
         MarkFailed, Complete, Working
<1>r. /\ Made(r) \subseteq Resources /\ c.created \subseteq meta /\ meta \subseteq Resources
      /\ Resource(r, "adSet", 0) \in Made(r)
      /\ c.pc \in Looping => /\ Resource(r, "ad", c.ad) \in Made(r)
                            /\ Resource(r, "creative", c.ad) \in Made(r)
  BY ResourceMade DEF Types, Made, Sound
<1>1. CASE CreateAdSet(r)
  <2> DEFINE x == Resource(r, "adSet", 0)
  <2>1. c.pc = "creating" BY <1>1 DEF CreateAdSet
  <2>2. meta \subseteq meta' /\ meta' \subseteq Resources
    BY <1>1, <1>r DEF CreateAdSet, Make, MakeUnknown
  <2>3. CASE Make(r, x, "savingAdSet")
    BY <1>0, <1>r, <2>1, <2>2, <2>3, MakeMoves
  <2>4. CASE Goto(r, "failing")
    BY <1>0, <1>r, <2>2, <2>4, StopMoves DEF Goto
  <2> QED BY <1>0, <1>1, <2>2, <2>3, <2>4 DEF CreateAdSet
<1>2. CASE SaveAdSet(r) \/ SaveAd(r) \/ SaveCreative(r)
  <2>1. c.pc \in Looping \cup {"savingAdSet"} /\ meta' = meta
    BY <1>2 DEF SaveAdSet, SaveAd, SaveCreative, Looping
  <2>2. CASE NextAd(r) BY <1>0, <1>r, <2>1, <2>2, NextAdMoves
  <2>3. CASE End(r, "error") BY <1>0, <1>r, <2>1, <2>3, StopMoves DEF End
  <2>4. CASE c.pc = "savingAd" /\ c.ad \in Swapped /\ Goto(r, "swapping")
    <3> DEFINE d == [c EXCEPT !.pc = "swapping"]
    <3>1. run' = [run EXCEPT ![r] = d] BY <2>4 DEF Goto, Types
    <3>2. Sound(r, c) BY DEF Types
    <3>3. Sound(r, d) /\ d.created = c.created
      BY <2>4, <3>2 DEF Sound, Calls, Early, Cloning, Looping, Stages, Working
    <3> QED BY <1>0, <1>r, <2>1, <3>1, <3>3 DEF Moves
  <2> QED BY <1>0, <1>2, <1>r, <2>1, <2>2, <2>3, <2>4 DEF SaveAdSet, SaveAd, SaveCreative, AfterCopy
<1>3. CASE CopyAd(r)
  <2>1. c.pc \in Looping BY <1>3 DEF CopyAd, Looping
  <2>2. meta \subseteq meta' /\ meta' \subseteq Resources
    BY <1>3, <1>r, <2>1 DEF CopyAd, Make, MakeUnknown
  <2>3. CASE Make(r, Resource(r, "ad", c.ad), "savingAd")
    BY <1>0, <1>r, <2>1, <2>2, <2>3, MakeMoves
  <2>4. CASE NextAd(r)
    BY <1>0, <1>r, <2>1, <2>2, <2>4, NextAdMoves
  <2> QED BY <1>0, <1>3, <2>2, <2>3, <2>4 DEF CopyAd
<1>4. CASE CreateCreative(r)
  <2>1. c.pc \in Looping BY <1>4 DEF CreateCreative, Looping
  <2>2. meta \subseteq meta' /\ meta' \subseteq Resources
    BY <1>4, <1>r, <2>1 DEF CreateCreative, Make, MakeUnknown
  <2>3. CASE Make(r, Resource(r, "creative", c.ad), "savingCreative")
    BY <1>0, <1>r, <2>1, <2>2, <2>3, MakeMoves
  <2>4. CASE NextAd(r)
    BY <1>0, <1>r, <2>1, <2>2, <2>4, NextAdMoves
  <2> QED BY <1>0, <1>4, <2>2, <2>3, <2>4 DEF CreateCreative
<1>5. CASE MarkFailed(r) \/ Complete(r)
  <2>1. meta' = meta /\ run' = [run EXCEPT ![r].pc = "ended"]
    BY <1>5 DEF MarkFailed, Complete, End
  <2> QED BY <1>0, <1>r, <2>1, StopMoves
<1> QED BY <1>1, <1>2, <1>3, <1>4, <1>5 DEF Works

LEMMA LookMoves ==
  ASSUME Types, NEW r \in Runs, Looks(r) \/ Claim(r)
  PROVE  /\ UNCHANGED <<now, meta>>
         /\ Looks(r) => UNCHANGED <<record, claims>>
         /\ \E d :
              /\ Moves(r, d) /\ d.created = run[r].created
              /\ d.created # {} => d.pc \in {"ended", "dead"}
              /\ d.pc \in Working => Claim(r)
<1> DEFINE c == run[r]
           Goal == \E d :
                     /\ Moves(r, d) /\ d.created = c.created
                     /\ d.created # {} => d.pc \in {"ended", "dead"}
                     /\ d.pc \in Working => Claim(r)
<1>0. /\ UNCHANGED <<now, meta>>
      /\ Looks(r) => UNCHANGED <<record, claims>>
  BY DEF Looks, LookUp, ReadSource, ClaimDuplicate, StoreUnavailable, Crash, Claim
<1>c. c.created \subseteq meta' /\ Sound(r, c)
  BY <1>0 DEF Types
<1>1. ASSUME NEW stage \in {"ended", "dead"}, run' = [run EXCEPT ![r].pc = stage]
      PROVE  Goal
  <2>1. stage \notin Working BY DEF Working
  <2> QED BY <1>c, <1>1, <2>1, StopMoves
<1>2. \A out : End(r, out) => Goal BY <1>1 DEF End
<1>3. ASSUME NEW stage \in Early, c.pc \in Early, Goto(r, stage),
             stage \in Working => claims'[r] # 0 /\ Claim(r)
      PROVE  Goal
  <2> DEFINE d == [c EXCEPT !.pc = stage]
  <2>1. run' = [run EXCEPT ![r] = d] BY <1>3 DEF Goto, Types
  <2>2. Sound(r, d) /\ d.pc = stage /\ d.created = c.created BY <1>c, <1>3, SoundStops
  <2>3. c.created = {} BY <1>c, <1>3 DEF Sound
  <2> HIDE DEF d
  <2> QED BY <1>c, <1>3, <2>1, <2>2, <2>3 DEF Moves
<1>4. CASE Claim(r)
  <2>1. claims'[r] # 0 BY <1>4 DEF Claim, Types
  <2> QED BY <1>0, <1>2, <1>3, <1>4, <2>1 DEF Claim, Early
<1>5. CASE LookUp(r)
  <2>1. c.pc \in Early /\ "reading" \in Early /\ "reading" \notin Working
    BY <1>5 DEF LookUp, Early, Working
  <2>2. Goto(r, "reading") \/ \E out : End(r, out) BY <1>5 DEF LookUp
  <2> QED BY <1>0, <1>2, <1>3, <2>1, <2>2
<1>6. CASE ReadSource(r)
  BY <1>0, <1>2, <1>3, <1>6 DEF ReadSource, Early, Working
<1>7. CASE ClaimDuplicate(r) \/ StoreUnavailable(r)
  BY <1>0, <1>2, <1>7 DEF ClaimDuplicate, StoreUnavailable
<1>8. CASE Crash(r)
  BY <1>0, <1>1, <1>8 DEF Crash, Goto
<1> QED BY <1>0, <1>4, <1>5, <1>6, <1>7, <1>8 DEF Looks

LEMMA MergedTyped ==
  ASSUME Types, NEW created \in SUBSET Resources
  PROVE  created \subseteq Merged(created) /\ Merged(created) \subseteq Resources
BY DEF Types, Merged, Records

LEMMA RecordTyped ==
  ASSUME Types, NEW r \in Runs, NEW created \in SUBSET Resources
  PROVE  /\ record \in Records /\ Claimed(Signature[r]) \in Records
         /\ WithLedger(created) \in Records /\ WithFailure(created) \in Records
         /\ WithCompletion(r) \in Records
<1>1. Claimed(Signature[r]) \in Records
  BY BundleAssumption DEF Types, Claimed, NoRecord, Records
<1>2. WithLedger(created) \in Records /\ WithFailure(created) \in Records
  BY MergedTyped DEF Types, WithLedger, WithFailure, Records
<1>3. WithCompletion(r) \in Records
  BY DEF Types, WithCompletion, Records
<1> QED BY <1>1, <1>2, <1>3 DEF Types

\* What a caller is told is one of the answers.
LEMMA ToldTyped ==
  ASSUME Types, NEW r \in Runs, Looks(r) \/ Claim(r) \/ Works(r)
  PROVE  told' \in [Runs -> Answers]
<1>1. ASSUME NEW answer \in Answers, End(r, answer) PROVE told' \in [Runs -> Answers]
  BY <1>1 DEF End, Types
<1>2. /\ "conflict" \in Answers /\ "busy" \in Answers /\ "failed before" \in Answers
      /\ "error" \in Answers /\ r \in Answers /\ record.result \in Answers
  BY DEF Answers, Types, Records
<1>3. CASE UNCHANGED told BY <1>3 DEF Types
<1>4. UNCHANGED told \/ \E answer \in Answers : End(r, answer)
  <2>1. CASE LookUp(r) BY <1>2, <2>1 DEF LookUp, Goto
  <2>2. CASE ClaimDuplicate(r) BY <1>2, <2>2 DEF ClaimDuplicate
  <2>3. CASE ReadSource(r) \/ StoreUnavailable(r) \/ Crash(r) \/ Claim(r)
    BY <1>2, <2>3 DEF ReadSource, StoreUnavailable, Crash, Claim, Goto
  <2>4. CASE Works(r)
    BY <1>2, <2>4 DEF Works, CreateAdSet, SaveAdSet, CopyAd, SaveAd, CreateCreative,
                      SaveCreative, MarkFailed, Complete, Make, NextAd, AfterCopy, Goto
  <2> QED BY <2>1, <2>2, <2>3, <2>4 DEF Looks
<1> QED BY <1>1, <1>3, <1>4

LEMMA TypesInit == Init => Types
<1> SUFFICES ASSUME Init PROVE Types OBVIOUS
<1>1. record \in Records BY DEF Init, StoreInit, NoRecord, Records
<1>2. ASSUME NEW r \in Runs PROVE Sound(r, run[r])
  BY DEF Init, Sound, Calls, Stages, Cloning, Looping, Working
<1>3. run \in [Runs -> [pc : Stages, ad : Ads \cup {0, Last}, created : SUBSET Resources]]
  BY DEF Init, Stages
<1> QED BY <1>1, <1>2, <1>3 DEF Init, ClockInit, Types, Answers, Working

\* Where a run's step leaves everything well typed but what it is told.
LEMMA MovedTyped ==
  ASSUME Types, NEW r \in Runs, NEW d, Moves(r, d), now' = now,
         meta \subseteq meta', meta' \subseteq Resources,
         record' \in Records, told' \in [Runs -> Answers], claims' \in [Runs -> Nat],
         \A q \in Runs \ {r} : claims[q] # 0 => claims'[q] # 0
  PROVE  Types'
<1>1. d \in [pc : Stages, ad : Ads \cup {0, Last}, created : SUBSET Resources]
  BY DEF Moves, Sound, Calls, Made
<1>2. run'[r] = d /\ \A q \in Runs \ {r} : run'[q] = run[q]
  BY DEF Moves, Types
<1>3. run' \in [Runs -> [pc : Stages, ad : Ads \cup {0, Last}, created : SUBSET Resources]]
  BY <1>1 DEF Moves, Types
<1>4. ASSUME NEW q \in Runs
      PROVE  /\ Sound(q, run'[q])
             /\ run'[q].created \subseteq meta'
             /\ run'[q].pc \in Working => claims'[q] # 0
  BY <1>2 DEF Moves, Types
<1> QED BY <1>3, <1>4 DEF Types

LEMMA TypesStep == Types /\ [Next]_vars => Types'
<1> SUFFICES ASSUME Types, [Next]_vars PROVE Types' OBVIOUS
<1>1. CASE UNCHANGED vars BY <1>1 DEF vars, Types
<1>2. CASE TimePasses BY <1>2 DEF TimePasses, Tick, Types
<1>3. ASSUME NEW r \in Runs, Claim(r) PROVE Types'
  <2>1. record' \in Records BY <1>3, RecordTyped DEF Claim
  <2>2. claims' \in [Runs -> Nat] /\ \A q \in Runs \ {r} : claims'[q] = claims[q]
    BY <1>3 DEF Claim, Types
  <2> QED BY <1>3, <2>1, <2>2, LookMoves, ToldTyped, MovedTyped DEF Types
<1>4. ASSUME NEW r \in Runs, Looks(r) PROVE Types'
  BY <1>4, LookMoves, ToldTyped, MovedTyped DEF Types
<1>5. ASSUME NEW r \in Runs, Works(r) PROVE Types'
  <2>1. record' \in Records
    <3>1. run[r].created \in SUBSET Resources BY DEF Types
    <3> QED BY <1>5, <3>1, RecordTyped DEF Works, CreateAdSet, SaveAdSet, CopyAd, SaveAd,
              CreateCreative, SaveCreative, MarkFailed, Complete
  <2> QED BY <1>5, <2>1, WorkMoves, ToldTyped, MovedTyped DEF Types
<1> QED BY <1>1, <1>2, <1>3, <1>4, <1>5, NextCases

\* The record, the executions and what they made keep their types
\* (clone-bundle-store.ts:5-24), for any number of executions, ads and payloads.
THEOREM BundleTyped == Spec => []TypeOK
<1>1. Types => TypeOK BY DEF Types, TypeOK, Last
<1> QED BY <1>1, TypesInit, TypesStep, PTL DEF Spec

-----------------------------------------------------------------------------

\* An execution whose ad set and at least one ad exist.
Real(q) ==
  /\ q \in Claimants
  /\ Resource(q, "adSet", 0) \in meta
  /\ \E ad \in Ads : Resource(q, "ad", ad) \in meta

\* What a caller may be told, while one execution only has had the key: its own payload's.
Belongs(r, q) == Claimants = {q} => Signature[r] = Signature[q]

ResultInv ==
  /\ Types
  /\ \A q \in Runs : Claimants = {q} => record.state # "absent" /\ record.signature = Signature[q]
  /\ record.state = "completed" => record.result \in Runs
  /\ \A q \in Runs : record.result = q => Real(q)
  /\ \A r, q \in Runs : told[r] = q => Real(q) /\ Belongs(r, q)

\* What an execution knows it made and the ledger does not list.
Missing(r) == {c \in run[r].created \ record.createdResources : c.kind # "creative"}

\* The ledger of the only execution so far, at each of its stages.
Kept(r) ==
  /\ \A x, y \in Missing(r) : x = y
  /\ run[r].pc \in Working => record.state = "in_progress"
  /\ record.state = "failed" => Missing(r) = {}
  /\ run[r].pc \in Working \ {"savingAdSet", "savingAd"} => Missing(r) = {}

LedgerInv ==
  /\ Types
  /\ \A r \in Runs : Claimants = {r} => Kept(r)

LEMMA AnswersDiffer ==
  /\ NoOne \notin Runs
  /\ \A answer \in {"conflict", "busy", "failed before", "error"} : answer \notin Runs
BY StoreAssumption, BundleAssumption

\* What exists stays, and who has claimed stays a claimant.
LEMMA Grows ==
  ASSUME Types, [Next]_vars
  PROVE  meta \subseteq meta' /\ Claimants \subseteq Claimants'
<1>1. ASSUME NEW r \in Runs, Claim(r) PROVE meta' = meta /\ Claimants' = Claimants \cup {r}
  BY <1>1 DEF Claim, Claimants, Types
<1>2. ASSUME NEW r \in Runs, Looks(r) PROVE meta' = meta /\ Claimants' = Claimants
  BY <1>2, LookMoves DEF Claimants
<1>3. ASSUME NEW r \in Runs, Works(r) PROVE meta \subseteq meta' /\ Claimants' = Claimants
  BY <1>3, WorkMoves DEF Claimants
<1>4. CASE UNCHANGED <<meta, claims>> BY <1>4 DEF Claimants
<1> QED BY <1>1, <1>2, <1>3, <1>4, NextCases DEF TimePasses, vars

\* An answer that is a result is that of the record, for a caller of its payload.
LEMMA LookTold ==
  ASSUME Types, NEW r \in Runs, Looks(r) \/ Claim(r), NEW x \in Runs, NEW q \in Runs,
         told'[x] = q
  PROVE  told[x] = q \/ (x = r /\ q = record.result /\ record.state = "completed"
                          /\ record.signature = Signature[r])
<1>1. ASSUME NEW answer, End(r, answer), answer \notin Runs PROVE told[x] = q
  BY <1>1 DEF End, Types
<1>2. CASE UNCHANGED told BY <1>2
<1>3. CASE End(r, record.result) /\ record.state = "completed" /\ record.signature = Signature[r]
  BY <1>3 DEF End, Types
<1>4. \/ UNCHANGED told
      \/ \E answer : End(r, answer) /\ answer \notin Runs
      \/ End(r, record.result) /\ record.state = "completed" /\ record.signature = Signature[r]
  <2>1. CASE LookUp(r) BY <2>1, AnswersDiffer DEF LookUp, Goto
  <2>2. CASE ClaimDuplicate(r) BY <2>2, AnswersDiffer DEF ClaimDuplicate
  <2>3. CASE ReadSource(r) \/ StoreUnavailable(r) \/ Crash(r) \/ Claim(r)
    BY <2>3, AnswersDiffer DEF ReadSource, StoreUnavailable, Crash, Claim, Goto
  <2> QED BY <2>1, <2>2, <2>3 DEF Looks
<1> QED BY <1>1, <1>2, <1>3, <1>4

LEMMA WorkTold ==
  ASSUME Types, NEW r \in Runs, Works(r), NEW x \in Runs, NEW q \in Runs, told'[x] = q
  PROVE  told[x] = q \/ (x = r /\ q = r /\ Complete(r))
<1>1. ASSUME NEW answer, End(r, answer), answer \notin Runs PROVE told[x] = q
  BY <1>1 DEF End, Types
<1>2. CASE Complete(r) /\ End(r, r) BY <1>2 DEF End, Types
<1>3. UNCHANGED told \/ End(r, "error") \/ (Complete(r) /\ End(r, r))
  BY DEF Works, CreateAdSet, SaveAdSet, CopyAd, SaveAd, CreateCreative,
         SaveCreative, MarkFailed, Complete, Make, NextAd, AfterCopy, Goto
<1> QED BY <1>1, <1>2, <1>3, AnswersDiffer

\* Work on the record never changes whose payload it is of, and completes it with the
\* result of the execution at work only.
LEMMA WorkWrites ==
  ASSUME Types, NEW r \in Runs, Works(r)
  PROVE  /\ record'.signature = record.signature
         /\ record.state # "absent" => record'.state # "absent"
         /\ record'.state = "completed" => record.state = "completed" \/ Complete(r)
         /\ record'.result = IF Complete(r) THEN r ELSE record.result
<1> DEFINE created == run[r].created
<1>1. /\ WithLedger(created).signature = record.signature
      /\ WithLedger(created).state = record.state
      /\ WithLedger(created).result = record.result
      /\ WithFailure(created).signature = record.signature
      /\ WithFailure(created).state = "failed"
      /\ WithFailure(created).result = record.result
      /\ WithCompletion(r).signature = record.signature
      /\ WithCompletion(r).state = "completed"
      /\ WithCompletion(r).result = r
  BY DEF Types, Records, WithLedger, WithFailure, WithCompletion
<1>2. CASE Complete(r) BY <1>1, <1>2 DEF Complete
<1>3. CASE ~ Complete(r)
  <2>1. record' \in {record, WithLedger(created), WithFailure(created)}
    BY <1>3 DEF Works, CreateAdSet, SaveAdSet, CopyAd, SaveAd, CreateCreative, SaveCreative,
                MarkFailed
  <2> QED BY <1>1, <1>3, <2>1
<1> QED BY <1>2, <1>3

LEMMA CompletedIsReal ==
  ASSUME Types, NEW r \in Runs, Complete(r)
  PROVE  Real(r)
<1>1. run[r].pc = "completing" /\ Sound(r, run[r]) /\ run[r].created \subseteq meta
  BY DEF Complete, Types
<1>2. PICK x \in run[r].created : x.kind = "ad" BY <1>1 DEF Sound
<1>3. x \in Made(r) BY <1>1 DEF Sound, Calls
<1>4. x.ad \in Ads /\ x = Resource(r, "ad", x.ad)
  BY <1>2, <1>3 DEF Made, Resources, Resource
<1>5. Resource(r, "adSet", 0) \in meta BY <1>1 DEF Sound, Cloning
<1>6. claims[r] # 0 BY <1>1 DEF Types, Working
<1> QED BY <1>1, <1>2, <1>4, <1>5, <1>6 DEF Real, Claimants

LEMMA ResultInit == Init => ResultInv
<1> SUFFICES ASSUME Init PROVE ResultInv OBVIOUS
<1>1. Claimants = {} /\ \A r \in Runs : told[r] = NoOne BY DEF Init, Claimants
<1>2. record.state = "absent" /\ record.result = NoOne BY DEF Init, StoreInit, NoRecord
<1> QED BY <1>1, <1>2, AnswersDiffer, TypesInit DEF ResultInv

LEMMA ResultStep == ResultInv /\ [Next]_vars => ResultInv'
<1> SUFFICES ASSUME ResultInv, [Next]_vars PROVE ResultInv' OBVIOUS
<1>0. Types /\ Types' BY TypesStep DEF ResultInv
<1>g. /\ \A q \in Runs : Real(q) => Real(q)'
      /\ \A r, q \in Runs : Real(q) /\ Belongs(r, q) => Belongs(r, q)'
  <2>1. meta \subseteq meta' /\ Claimants \subseteq Claimants' BY <1>0, Grows
  <2> QED BY <2>1 DEF Real, Belongs
<1>1. CASE UNCHANGED <<record, told, claims>>
  <2>1. Claimants' = Claimants BY <1>1 DEF Claimants
  <2> QED BY <1>0, <1>1, <1>g, <2>1 DEF ResultInv
<1>2. ASSUME NEW r \in Runs, Claim(r) PROVE ResultInv'
  <2>1. /\ record'.state = "in_progress" /\ record'.signature = Signature[r]
        /\ record'.result = NoOne
    BY <1>2 DEF Claim, Claimed, NoRecord
  <2>2. Claimants' = Claimants \cup {r} BY <1>0, <1>2 DEF Claim, Claimants, Types
  <2>3. ASSUME NEW x \in Runs, NEW q \in Runs, told'[x] = q PROVE told[x] = q
    BY <1>0, <1>2, <2>3, AnswersDiffer DEF Claim, Goto, End, Types
  <2>4. \A x, q \in Runs : told'[x] = q => Real(q)' /\ Belongs(x, q)'
    BY <1>g, <2>3 DEF ResultInv
  <2>5. \A q \in Runs : Claimants' = {q} => q = r BY <2>2
  <2> QED BY <1>0, <2>1, <2>4, <2>5, AnswersDiffer DEF ResultInv
<1>3. ASSUME NEW r \in Runs, Looks(r) PROVE ResultInv'
  <2>1. UNCHANGED <<record, claims>> /\ Claimants' = Claimants
    BY <1>0, <1>3, LookMoves DEF Claimants
  <2>2. ASSUME NEW x \in Runs, NEW q \in Runs, told'[x] = q PROVE Real(q) /\ Belongs(x, q)
    BY <1>0, <1>3, <2>2, LookTold DEF ResultInv, Belongs
  <2> QED BY <1>0, <1>g, <2>1, <2>2 DEF ResultInv
<1>4. ASSUME NEW r \in Runs, Works(r) PROVE ResultInv'
  <2>1. Claimants' = Claimants BY <1>0, <1>4, WorkMoves DEF Claimants
  <2>2. ASSUME NEW x \in Runs, NEW q \in Runs, told'[x] = q PROVE Real(q) /\ Belongs(x, q)
    BY <1>0, <1>4, <2>2, WorkTold, CompletedIsReal DEF ResultInv, Belongs
  <2>3. \A q \in Runs : Claimants' = {q} =>
          record'.state # "absent" /\ record'.signature = Signature[q]
    BY <1>0, <1>4, <2>1, WorkWrites DEF ResultInv
  <2>4. record'.state = "completed" => record'.result \in Runs
    BY <1>0, <1>4, WorkWrites DEF ResultInv
  <2>5. \A q \in Runs : record'.result = q => Real(q)'
    BY <1>0, <1>4, <1>g, WorkWrites, CompletedIsReal DEF ResultInv
  <2> QED BY <1>0, <1>g, <2>2, <2>3, <2>4, <2>5 DEF ResultInv
<1> QED BY <1>1, <1>2, <1>3, <1>4, NextCases DEF TimePasses, vars

\* A caller that gets a result gets that of an execution whose ad set and at least one ad
\* exist, and, unless the key changed hands, one of its own payload (adsets.ts:436-451,
\* 589-602), for any number of executions, ads and payloads.
THEOREM Results == Spec => []ResultsAreReal
<1>1. ResultInv => ResultsAreReal BY DEF ResultInv, ResultsAreReal, Real, Belongs
<1> QED BY <1>1, ResultInit, ResultStep, PTL DEF Spec

-----------------------------------------------------------------------------

LEMMA AtMostOneListed ==
  ASSUME NEW S, \A x, y \in S : x = y
  PROVE  Cardinality(S) <= 1
<1>1. CASE S = {} BY <1>1, FS_EmptySet
<1>2. CASE S # {}
  <2>1. PICK x \in S : TRUE BY <1>2
  <2>2. S = {x} BY <2>1
  <2> QED BY <2>2, FS_Singleton
<1> QED BY <1>1, <1>2

\* What the only execution so far has in hand when it writes is listed by the write.
LEMMA LedgerWork ==
  ASSUME LedgerInv, NEW r \in Runs, Claimants = {r}, Works(r)
  PROVE  Kept(r)'
<1> DEFINE c == run[r]
           Listed == Missing(r)' = {}
<1>0. /\ Types /\ Kept(r) /\ c.pc \in Working /\ record.state = "in_progress"
      /\ c.created \in SUBSET Resources
      /\ c.pc \notin {"savingAdSet", "savingAd"} => Missing(r) = {}
  BY WorkMoves DEF LedgerInv, Kept, Types
<1>t. c \in [pc : Stages, ad : Ads \cup {0, Last}, created : SUBSET Resources]
  BY <1>0 DEF Types
<1>s. ASSUME Goto(r, "failing") \/ Goto(r, "swapping") \/ End(r, "error") \/ End(r, r) \/ NextAd(r)
      PROVE  run'[r].created = c.created
  <2>1. ASSUME NEW stage, run' = [run EXCEPT ![r].pc = stage] PROVE run'[r].created = c.created
    <3>1. run'[r] = [c EXCEPT !.pc = stage] BY <1>0, <2>1 DEF Types
    <3> QED BY <1>t, <3>1
  <2>2. CASE NextAd(r)
    <3>1. PICK ad, stage : run' = [run EXCEPT ![r].ad = ad, ![r].pc = stage] BY <2>2 DEF NextAd
    <3>2. run'[r] = [c EXCEPT !.ad = ad, !.pc = stage] BY <1>0, <3>1 DEF Types
    <3> QED BY <1>t, <3>2
  <2> QED BY <1>s, <2>1, <2>2 DEF Goto, End
<1>m. ASSUME NEW x, NEW stage, Make(r, x, stage)
      PROVE  run'[r].created = c.created \cup {x} /\ run'[r].pc = stage
  <2>1. run'[r] = [c EXCEPT !.pc = stage, !.created = @ \cup {x}]
    BY <1>0, <1>m DEF Make, Types
  <2> QED BY <1>t, <2>1
\* A request leaves the ledger as it is, and at most what it made is missing from it.
<1>1. CASE CreateAdSet(r) \/ CopyAd(r) \/ CreateCreative(r)
  <2>1. record' = record /\ Missing(r) = {}
    BY <1>0, <1>1 DEF CreateAdSet, CopyAd, CreateCreative
  <2>2. CASE run'[r].created = c.created
    <3>1. Listed BY <2>1, <2>2 DEF Missing
    <3> QED BY <1>0, <2>1, <3>1 DEF Kept
  <2>3. ASSUME NEW x, NEW stage \in {"savingAdSet", "savingAd"}, Make(r, x, stage)
        PROVE  Kept(r)'
    <3>1. \A y \in Missing(r)' : y = x BY <1>m, <2>1, <2>3 DEF Missing
    <3>2. run'[r].pc = stage BY <1>m, <2>3
    <3> QED BY <1>0, <2>1, <2>3, <3>1, <3>2 DEF Kept
  <2>4. ASSUME NEW ad, Make(r, Resource(r, "creative", ad), "savingCreative")
        PROVE  Kept(r)'
    <3>1. Resource(r, "creative", ad).kind = "creative" BY DEF Resource
    <3>2. Listed BY <1>m, <2>1, <2>4, <3>1 DEF Missing
    <3> QED BY <1>0, <2>1, <3>2 DEF Kept
  <2> QED BY <1>1, <1>s, <2>2, <2>3, <2>4 DEF CreateAdSet, CopyAd, CreateCreative
\* A save lists everything; one that throws within a swap had nothing to list.
<1>2. CASE SaveAdSet(r) \/ SaveAd(r) \/ SaveCreative(r)
  <2>1. run'[r].created = c.created
    BY <1>2, <1>s DEF SaveAdSet, SaveAd, SaveCreative, AfterCopy
  <2>2. CASE record' = WithLedger(c.created)
    <3>1. record'.state = record.state /\ record'.createdResources = Merged(c.created)
      BY <1>0, <2>2 DEF WithLedger, Types, Records
    <3>2. Listed BY <1>0, <2>1, <3>1, MergedTyped DEF Missing
    <3> QED BY <1>0, <3>1, <3>2 DEF Kept
  <2>3. CASE record' = record /\ c.pc = "savingCreative"
    <3>1. Listed BY <1>0, <2>1, <2>3 DEF Missing
    <3> QED BY <1>0, <2>3, <3>1 DEF Kept
  <2> QED BY <1>2, <2>2, <2>3 DEF SaveAdSet, SaveAd, SaveCreative
<1>3. CASE MarkFailed(r) \/ Complete(r)
  <2>1. /\ run'[r].created = c.created /\ Missing(r) = {}
        /\ run' = [run EXCEPT ![r].pc = "ended"]
    BY <1>0, <1>3, <1>s DEF MarkFailed, Complete, End
  <2>2. run'[r].pc \notin Working
    <3>1. run'[r] = [c EXCEPT !.pc = "ended"] BY <1>0, <2>1 DEF Types
    <3>2. run'[r].pc = "ended" BY <1>t, <3>1
    <3> QED BY <3>2 DEF Working
  <2>3. CASE record' = record
    <3>1. Listed BY <2>1, <2>3 DEF Missing
    <3> QED BY <2>2, <3>1 DEF Kept
  <2>4. CASE record' = WithFailure(c.created)
    <3>1. record'.createdResources = Merged(c.created)
      BY <1>0, <2>4 DEF WithFailure, Types, Records
    <3>2. Listed BY <1>0, <2>1, <3>1, MergedTyped DEF Missing
    <3> QED BY <2>2, <3>2 DEF Kept
  <2>5. CASE record' = WithCompletion(r)
    <3>1. record'.createdResources = record.createdResources
      BY <1>0, <2>5 DEF WithCompletion, Types, Records
    <3>2. Listed BY <2>1, <3>1 DEF Missing
    <3> QED BY <2>2, <3>2 DEF Kept
  <2> QED BY <1>3, <2>3, <2>4, <2>5 DEF MarkFailed, Complete
<1> QED BY <1>1, <1>2, <1>3 DEF Works

LEMMA LedgerStep == LedgerInv /\ [Next]_vars => LedgerInv'
<1> SUFFICES ASSUME LedgerInv, [Next]_vars PROVE LedgerInv' OBVIOUS
<1>0. Types /\ Types' BY TypesStep DEF LedgerInv
<1> SUFFICES ASSUME NEW r \in Runs, Claimants' = {r} PROVE Kept(r)'
  BY <1>0 DEF LedgerInv
<1>g. Claimants \subseteq Claimants' BY <1>0, Grows
<1>1. CASE UNCHANGED <<record, run, claims>>
  <2>1. Claimants' = Claimants BY <1>1 DEF Claimants
  <2> QED BY <1>1, <2>1 DEF LedgerInv, Kept, Missing
\* An execution that claims the key has made nothing yet.
<1>2. ASSUME NEW q \in Runs, Claim(q) PROVE Kept(r)'
  <2>1. q = r BY <1>0, <1>2 DEF Claim, Claimants, Types
  <2>2. run[r].created = {} BY <1>0, <1>2, <2>1 DEF Claim, Types, Sound, Early
  <2>3. run'[r].created = {}
    BY <1>0, <1>2, <2>1, <2>2, LookMoves DEF Moves, Types
  <2>4. Missing(r)' = {} BY <2>3 DEF Missing
  <2>5. record'.state = "in_progress" BY <1>2 DEF Claim, Claimed, NoRecord
  <2> QED BY <2>4, <2>5 DEF Kept
\* One that looks, ends or dies adds nothing.
<1>3. ASSUME NEW q \in Runs, Looks(q) PROVE Kept(r)'
  <2>1. UNCHANGED <<record, claims>> BY <1>0, <1>3, LookMoves
  <2>2. Kept(r) BY <2>1 DEF LedgerInv, Claimants
  <2>3. PICK d : /\ Moves(q, d) /\ d.created = run[q].created
                 /\ d.pc \in Working => Claim(q)
    BY <1>0, <1>3, LookMoves
  <2>4. run'[r].created = run[r].created BY <1>0, <2>3 DEF Moves, Types
  <2>5. run'[r].pc \in Working /\ ~ Claim(q) => run[r].pc = run'[r].pc
    <3>1. CASE q # r BY <1>0, <2>3, <3>1 DEF Moves, Types
    <3>2. CASE q = r /\ ~ Claim(q) BY <1>0, <2>3, <3>2 DEF Moves, Types
    <3> QED BY <3>1, <3>2
  <2>6. CASE Claim(q) BY <1>2, <2>6
  <2>7. CASE ~ Claim(q) BY <2>1, <2>2, <2>4, <2>5, <2>7 DEF Kept, Missing
  <2> QED BY <2>6, <2>7
<1>4. ASSUME NEW q \in Runs, Works(q) PROVE Kept(r)'
  <2>1. UNCHANGED claims /\ run[q].pc \in Working BY <1>0, <1>4, WorkMoves
  <2>2. Claimants = {r} BY <2>1 DEF Claimants
  <2>3. q = r BY <1>0, <2>1, <2>2 DEF Types, Claimants
  <2> QED BY <1>4, <2>2, <2>3, LedgerWork
<1> QED BY <1>1, <1>2, <1>3, <1>4, NextCases DEF TimePasses, vars

\* While the key has had one execution, the record of an unfinished operation misses at
\* most one of the ad set and the ads that the execution knows it made, and a failed one
\* none (clone-bundle-store.ts:7-10), for any number of executions and ads.
THEOREM Ledger == Spec => []LedgerKeepsUp
<1>1. Init => LedgerInv
  BY TypesInit DEF Init, LedgerInv, Claimants
<1>2. LedgerInv => LedgerKeepsUp
  <2> SUFFICES ASSUME LedgerInv, NEW r \in Runs, Claimants = {r}
               PROVE  Cardinality(Missing(r)) <= 1 /\ (record.state = "failed" => Missing(r) = {})
    BY DEF LedgerKeepsUp, Missing
  <2> QED BY AtMostOneListed DEF LedgerInv, Kept
<1> QED BY <1>1, <1>2, LedgerStep, PTL DEF Spec

-----------------------------------------------------------------------------

\* Nothing is made without the key.
MakersClaim == \A x \in meta : x.by \in Claimants

LEMMA OfTheMaker ==
  ASSUME Types, NEW r \in Runs, Works(r)
  PROVE  \A x \in meta' : x \in meta \/ x.by = r
<1>1. \A kind, ad : Resource(r, kind, ad).by = r BY DEF Resource
<1>2. UNCHANGED meta \/ \E kind, ad : meta' \subseteq meta \cup {Resource(r, kind, ad)}
  BY DEF Works, CreateAdSet, SaveAdSet, CopyAd, SaveAd, CreateCreative,
         SaveCreative, MarkFailed, Complete, Make, MakeUnknown
<1> QED BY <1>1, <1>2

LEMMA MakersStep == Types /\ MakersClaim /\ [Next]_vars => MakersClaim'
<1> SUFFICES ASSUME Types, MakersClaim, [Next]_vars PROVE MakersClaim' OBVIOUS
<1>1. Claimants \subseteq Claimants' BY Grows
<1>2. CASE UNCHANGED meta BY <1>1, <1>2 DEF MakersClaim
<1>3. ASSUME NEW r \in Runs, Works(r) PROVE MakersClaim'
  <2>1. r \in Claimants' BY <1>3, WorkMoves DEF Types, Claimants
  <2> QED BY <1>1, <1>3, <2>1, OfTheMaker DEF MakersClaim
<1>4. ASSUME NEW r \in Runs, Looks(r) \/ Claim(r) PROVE UNCHANGED meta
  BY <1>4, LookMoves
<1> QED BY <1>2, <1>3, <1>4, NextCases DEF TimePasses, vars

\* adsets.ts:413 promises no second ad set under a key. What the lock gives is this: a
\* second one exists only where its execution took the key over after the stale window.
THEOREM SecondAfterTheWindow == Spec => []AdSetsApart
<1>1. Init => MakersClaim BY DEF Init, MakersClaim
<1>2. Types /\ MakersClaim /\ ClaimsAWindowApart => AdSetsApart
  <2> SUFFICES ASSUME Types, MakersClaim, ClaimsAWindowApart,
                      NEW x \in meta, NEW y \in meta,
                      x.kind = "adSet", y.kind = "adSet", x # y
               PROVE  /\ x.by \in Claimants /\ y.by \in Claimants /\ x.by # y.by
                      /\ \/ claims[x.by] - claims[y.by] > StaleAfter
                         \/ claims[y.by] - claims[x.by] > StaleAfter
    BY DEF AdSetsApart
  <2>1. x \in [kind : {"adSet"}, by : Runs, ad : {0}] /\ y \in [kind : {"adSet"}, by : Runs, ad : {0}]
    BY DEF Types, Resources
  <2>2. x.by # y.by BY <2>1
  <2> QED BY <2>2 DEF MakersClaim, ClaimsAWindowApart
<1> QED BY <1>1, <1>2, TypesInit, TypesStep, MakersStep, Lock, PTL DEF Spec

=============================================================================
