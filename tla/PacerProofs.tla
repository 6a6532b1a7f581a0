----------------------------- MODULE PacerProofs -----------------------------
(***************************************************************************)
(* What the run of PacedWrites shows, for every number of calls, every     *)
(* share and every quota and capacity that PacerAssumption allows.         *)
(***************************************************************************)
EXTENDS PacedWrites, FiniteSetTheorems, TLAPS

Fast == QuotaOf["standard_access"]

\* What a bucket with these contents may have been granted by the tick t.
GrantedBy(t) == InitialWrites * Share + (t - 1) * Fast

\* The bucket is accounted for up to its last refill: what it holds and what it has
\* let through at once were granted by then.
QuotaInv ==
  LET b == pacer[Bucket] IN
  /\ now \in Nat \ {0}
  /\ pacer \in [PacerKeys -> PacerBucket]
  /\ IsFiniteSet(prompt)
  /\ b.tier = "none" => prompt = {} /\ b.level = 0
  /\ b.tier # "none" =>
       /\ b.refilledAt \in 1..now
       /\ Cardinality(prompt) * Share + b.level <= GrantedBy(b.refilledAt)

-----------------------------------------------------------------------------

LEMMA QuotaFacts ==
  /\ Share \in Nat \ {0} /\ Fast \in Nat \ {0}
  /\ InitialWrites \in Nat
  /\ \A tier \in Tiers : QuotaOf[tier] \in Nat \ {0} /\ QuotaOf[tier] <= Fast
  /\ \A tier \in Tiers : CapacityOf[tier] \in Nat \ {0}
BY PacerAssumption DEF Tiers, Fast

LEMMA MonotoneProduct ==
  ASSUME NEW n \in Nat, NEW a \in Nat, NEW b \in Nat, a <= b
  PROVE  n * a <= n * b /\ n * a \in Nat /\ n * b \in Nat
OBVIOUS

LEMMA ProductType ==
  ASSUME NEW m \in Nat, NEW n \in Nat
  PROVE  m * n \in Nat
OBVIOUS

LEMMA GrantType ==
  ASSUME NEW t \in Nat \ {0}
  PROVE  GrantedBy(t) \in Nat
<1>1. InitialWrites * Share \in Nat /\ (t - 1) * Fast \in Nat
  BY QuotaFacts, ProductType
<1> QED BY <1>1 DEF GrantedBy

LEMMA GrantGrows ==
  ASSUME NEW s \in Nat \ {0}, NEW t \in Nat, s <= t, NEW q \in Nat, q <= Fast
  PROVE  /\ GrantedBy(s) \in Nat /\ GrantedBy(t) \in Nat
         /\ GrantedBy(s) + (t - s) * q <= GrantedBy(t)
<1>1. InitialWrites * Share \in Nat /\ Fast \in Nat
  BY QuotaFacts
<1>2. /\ (t - s) * q <= (t - s) * Fast
      /\ (t - s) * q \in Nat /\ (t - s) * Fast \in Nat
  BY <1>1, MonotoneProduct
<1>3. (t - 1) * Fast = (s - 1) * Fast + (t - s) * Fast
  BY <1>1
<1>4. (s - 1) * Fast \in Nat
  BY <1>1
<1> HIDE DEF Fast
<1> QED BY <1>1, <1>2, <1>3, <1>4 DEF GrantedBy

LEMMA GrantMonotone ==
  ASSUME NEW s \in Nat \ {0}, NEW t \in Nat, s <= t
  PROVE  /\ GrantedBy(s) \in Nat /\ GrantedBy(t) \in Nat
         /\ GrantedBy(s) <= GrantedBy(t)
<1>1. 0 \in Nat /\ 0 <= Fast
  BY QuotaFacts
<1>2. /\ GrantedBy(s) \in Nat /\ GrantedBy(t) \in Nat
      /\ GrantedBy(s) + (t - s) * 0 <= GrantedBy(t)
  BY <1>1, GrantGrows
<1>3. (t - s) * 0 = 0
  OBVIOUS
<1> QED BY <1>2, <1>3

\* What acquire works on, new or refilled, is accounted for.
LEMMA RefillAccounted ==
  ASSUME QuotaInv
  PROVE  LET b == Refill(GetOrCreate(Bucket)) IN
         /\ b \in PacerBucket /\ b.tier \in Tiers /\ b.refilledAt \in 1..now
         /\ Cardinality(prompt) * Share + b.level <= GrantedBy(b.refilledAt)
         /\ Cardinality(prompt) * Share \in Nat
<1> DEFINE c == GetOrCreate(Bucket)
           b == Refill(c)
           spent == Cardinality(prompt) * Share
<1>1. now \in Nat \ {0} /\ pacer[Bucket] \in PacerBucket
  BY BucketAssumption DEF QuotaInv
<1>2. spent \in Nat
  BY QuotaFacts, FS_CardinalityType DEF QuotaInv
<1>3. CASE pacer[Bucket].tier = "none"
  <2>1. c = NewPacerBucket
    BY <1>3 DEF GetOrCreate
  <2>2. spent = 0
    BY <1>3, QuotaFacts, FS_EmptySet DEF QuotaInv
  <2>3. b = c
    BY <1>1, <2>1 DEF Refill, NewPacerBucket
  <2>4. InitialWrites * Share \in Nat /\ (now - 1) * Fast \in Nat
    BY <1>1, QuotaFacts
  <2>5. b.level = InitialWrites * Share /\ b.refilledAt = now
    BY <2>1, <2>3 DEF NewPacerBucket
  <2>6. b \in PacerBucket /\ b.tier \in Tiers /\ b.refilledAt \in 1..now
    BY <1>1, <2>1, <2>3, <2>4 DEF NewPacerBucket, PacerBucket, Tiers
  <2>7. spent + b.level <= GrantedBy(b.refilledAt)
    BY <2>2, <2>4, <2>5 DEF GrantedBy
  <2> QED BY <1>2, <2>6, <2>7
<1>4. CASE pacer[Bucket].tier # "none"
  <2>1. /\ c = pacer[Bucket] /\ c \in PacerBucket /\ c.tier \in Tiers
        /\ c.refilledAt \in 1..now /\ c.level \in Nat
        /\ spent + c.level <= GrantedBy(c.refilledAt)
    BY <1>1, <1>4 DEF GetOrCreate, PacerBucket, QuotaInv
  <2> DEFINE q == QuotaOf[c.tier]
             level == c.level + (now - c.refilledAt) * q
             full == CapacityOf[c.tier] * Share
  <2>2. q \in Nat \ {0} /\ q <= Fast /\ full \in Nat
    BY <2>1, QuotaFacts
  <2>3. (now - c.refilledAt) * q \in Nat /\ level \in Nat
    <3>1. now - c.refilledAt \in Nat /\ q \in Nat /\ c.level \in Nat
      BY <1>1, <2>1, <2>2
    <3>2. (now - c.refilledAt) * q \in Nat
      <4> HIDE DEF c, q
      <4> QED BY <3>1, ProductType
    <3> QED BY <3>1, <3>2
  <2>4. /\ GrantedBy(c.refilledAt) + (now - c.refilledAt) * q <= GrantedBy(now)
        /\ GrantedBy(c.refilledAt) \in Nat /\ GrantedBy(now) \in Nat
    BY <1>1, <2>1, <2>2, GrantGrows
  <2>5. spent + level <= GrantedBy(now)
    BY <1>2, <2>1, <2>3, <2>4
  <2>6. CASE now <= c.refilledAt
    BY <1>2, <2>1, <2>6 DEF Refill
  <2>7. CASE ~ (now <= c.refilledAt)
    <3> HIDE DEF q, spent
    <3>1. b = [c EXCEPT !.level = IF level > full THEN full ELSE level,
                        !.refilledAt = now]
      BY <2>7 DEF Refill, q
    <3> HIDE DEF level, full, b, c
    <3>2. /\ b \in PacerBucket /\ b.tier = c.tier /\ b.refilledAt = now
          /\ b.level <= level /\ b.level \in Nat
      <4>1. /\ c \in PacerBucket /\ level \in Nat /\ full \in Nat /\ now \in Nat
        BY <1>1, <2>1, <2>2, <2>3
      <4> DEFINE kept == IF level > full THEN full ELSE level
      <4>2. kept \in Nat /\ kept <= level
        BY <4>1
      <4>3. b = [c EXCEPT !.level = kept, !.refilledAt = now]
        BY <3>1
      <4> HIDE DEF kept
      <4>4. b.level = kept /\ b.tier = c.tier /\ b.refilledAt = now
        BY <4>1, <4>3 DEF PacerBucket
      <4>5. b \in PacerBucket
        BY <4>1, <4>2, <4>3 DEF PacerBucket
      <4> QED BY <4>2, <4>4, <4>5
    <3>3. spent + b.level <= GrantedBy(b.refilledAt)
      BY <1>2, <2>3, <2>4, <2>5, <3>2
    <3> QED BY <1>1, <1>2, <2>1, <3>2, <3>3 DEF spent, b, c
  <2> QED BY <2>6, <2>7
<1> QED BY <1>3, <1>4

LEMMA QuotaInit == Init => QuotaInv
BY BucketAssumption, FS_EmptySet
DEF Init, ClockInit, PacerInit, NoPacerBucket, PacerBucket, QuotaInv

LEMMA QuotaStep == QuotaInv /\ [Next]_vars => QuotaInv'
<1> SUFFICES ASSUME QuotaInv, [Next]_vars PROVE QuotaInv'
  OBVIOUS
<1> DEFINE b == Refill(GetOrCreate(Bucket))
           spent == Cardinality(prompt) * Share
<1>b. /\ b \in PacerBucket /\ b.tier \in Tiers /\ b.refilledAt \in 1..now
      /\ spent + b.level <= GrantedBy(b.refilledAt) /\ spent \in Nat
  BY RefillAccounted
<1>t. now \in Nat \ {0} /\ pacer \in [PacerKeys -> PacerBucket] /\ Bucket \in PacerKeys
  BY BucketAssumption DEF QuotaInv
<1>g. GrantedBy(b.refilledAt) \in Nat
  <2> HIDE DEF b
  <2>1. b.refilledAt \in Nat \ {0}
    BY <1>b, <1>t
  <2> QED BY <2>1, GrantType
<1>n. "none" \notin Tiers /\ Share \in Nat \ {0}
  BY QuotaFacts DEF Tiers
<1> HIDE DEF b
<1>1. CASE TimePasses
  BY <1>1, <1>t DEF TimePasses, Tick, QuotaInv
<1>2. ASSUME NEW r \in Calls, Acquire(r) PROVE QuotaInv'
  <2>1. CASE AcquireNow(Bucket) /\ prompt' = prompt \cup {r}
    <3>1. pacer' = [pacer EXCEPT ![Bucket] = [b EXCEPT !.level = @ - Share]]
          /\ b.level >= Share
      BY <2>1 DEF AcquireNow, b
    <3>2. /\ pacer' \in [PacerKeys -> PacerBucket]
          /\ pacer'[Bucket].level = b.level - Share
          /\ pacer'[Bucket].tier = b.tier /\ pacer'[Bucket].refilledAt = b.refilledAt
      BY <1>b, <1>t, <1>n, <3>1 DEF PacerBucket
    <3>3. /\ r \notin prompt /\ IsFiniteSet(prompt')
          /\ Cardinality(prompt') = Cardinality(prompt) + 1
          /\ Cardinality(prompt) \in Nat
      BY <1>2, <2>1, FS_AddElement, FS_CardinalityType DEF Acquire, Fresh, QuotaInv
    <3>4. Cardinality(prompt') * Share = spent + Share
      BY <1>n, <3>3
    <3>5. Cardinality(prompt') * Share + pacer'[Bucket].level <= GrantedBy(b.refilledAt)
      <4>1. b.level \in Nat
        BY <1>b DEF PacerBucket
      <4> HIDE DEF spent
      <4> QED BY <1>b, <1>g, <1>n, <3>2, <3>4, <4>1
    <3> QED BY <1>2, <1>b, <1>t, <1>n, <3>2, <3>3, <3>5
          DEF Acquire, QuotaInv, GrantedBy, Fast
  <2>2. CASE AcquireMustWait(Bucket) /\ UNCHANGED prompt
    <3>1. pacer' = [pacer EXCEPT ![Bucket] = b]
      BY <2>2 DEF AcquireMustWait, b
    <3> QED BY <1>2, <1>b, <1>t, <1>n, <2>2, <3>1 DEF Acquire, QuotaInv, GrantedBy, Fast
  <2> QED BY <1>2, <2>1, <2>2 DEF Acquire
\* A sleeper takes what it finds, and the bucket is never below nothing.
<1>3. ASSUME NEW r \in Calls, Wake(r) PROVE QuotaInv'
  <2>1. pacer' = [pacer EXCEPT ![Bucket] =
                    [b EXCEPT !.level = IF @ > Share THEN @ - Share ELSE 0]]
    BY <1>3 DEF Wake, AcquireAfterWait, b
  <2>2. /\ pacer' \in [PacerKeys -> PacerBucket]
        /\ pacer'[Bucket].level <= b.level /\ pacer'[Bucket].level \in Nat
        /\ b.level \in Nat
        /\ pacer'[Bucket].tier = b.tier /\ pacer'[Bucket].refilledAt = b.refilledAt
    BY <1>b, <1>t, <1>n, <2>1 DEF PacerBucket
  <2>3. spent + pacer'[Bucket].level <= GrantedBy(b.refilledAt)
    <3> HIDE DEF spent
    <3> QED BY <1>b, <1>g, <2>2
  <2> QED BY <1>3, <1>b, <1>t, <1>n, <2>2, <2>3 DEF Wake, QuotaInv, GrantedBy, Fast
<1>4. ASSUME NEW tier \in Tiers, ReportTier(tier) PROVE QuotaInv'
  <2>1. /\ pacer' \in [PacerKeys -> PacerBucket]
        /\ pacer'[Bucket].level = pacer[Bucket].level
        /\ pacer'[Bucket].refilledAt = pacer[Bucket].refilledAt
        /\ pacer'[Bucket].tier = "none" <=> pacer[Bucket].tier = "none"
    BY <1>4, <1>t, <1>n DEF ReportTier, TierSeen, PacerBucket
  <2> QED BY <1>4, <2>1 DEF ReportTier, QuotaInv, GrantedBy, Fast
<1>5. CASE UNCHANGED vars
  BY <1>5 DEF vars, QuotaInv, GrantedBy, Fast
<1> QED BY <1>1, <1>2, <1>3, <1>4, <1>5 DEF Next

LEMMA QuotaSuffices == QuotaInv => PromptWithinQuota
<1> SUFFICES ASSUME QuotaInv PROVE PromptWithinQuota
  OBVIOUS
<1>1. Granted = GrantedBy(now) /\ now \in Nat \ {0}
  BY DEF Granted, GrantedBy, Fast, QuotaInv
<1>2. CASE pacer[Bucket].tier = "none"
  <2>1. Cardinality(prompt) * Share = 0
    BY <1>2, QuotaFacts, FS_EmptySet DEF QuotaInv
  <2>2. InitialWrites * Share \in Nat /\ (now - 1) * Fast \in Nat
    BY <1>1, QuotaFacts
  <2> QED BY <1>1, <1>2, <2>1, <2>2 DEF PromptWithinQuota, QuotaInv, GrantedBy
<1>3. CASE pacer[Bucket].tier # "none"
  <2> DEFINE t == pacer[Bucket].refilledAt
             held == Cardinality(prompt) * Share + pacer[Bucket].level
  <2>1. held <= GrantedBy(t) /\ t \in 1..now
    BY <1>3 DEF QuotaInv
  <2>2. held \in Nat
    <3>1. Cardinality(prompt) \in Nat /\ pacer[Bucket].level \in Nat
      BY BucketAssumption, FS_CardinalityType DEF QuotaInv, PacerBucket
    <3>2. Cardinality(prompt) * Share \in Nat
      BY <3>1, QuotaFacts, ProductType
    <3> QED BY <3>1, <3>2
  <2> HIDE DEF held, t
  <2>3. /\ GrantedBy(t) \in Nat /\ GrantedBy(now) \in Nat
        /\ GrantedBy(t) <= GrantedBy(now)
    <3>1. t \in Nat \ {0} /\ now \in Nat /\ t <= now
      BY <1>1, <2>1
    <3> QED BY <3>1, GrantMonotone
  <2>4. held <= GrantedBy(now)
    BY <1>1, <2>1, <2>2, <2>3
  <2> QED BY <1>1, <2>4 DEF PromptWithinQuota, held
<1> QED BY <1>2, <1>3

\* write-pacer.ts:10-13: through refills, sleepers that take what they find and
\* changes of tier, what goes through without a sleep stays within the quota.
THEOREM PromptWrites == Spec => []PromptWithinQuota
<1>1. Spec => []QuotaInv
  BY QuotaInit, QuotaStep, PTL DEF Spec
<1> QED BY <1>1, QuotaSuffices, PTL

-----------------------------------------------------------------------------

LEMMA QuotientType ==
  ASSUME NEW m \in Nat, NEW n \in Nat \ {0}
  PROVE  m \div n \in Nat
OBVIOUS

\* A refill and what follows it keep a bucket a bucket.
LEMMA RefillTyped ==
  ASSUME NEW c \in PacerBucket, c.tier \in Tiers, now \in Nat
  PROVE  Refill(c) \in PacerBucket /\ Refill(c).tier \in Tiers
<1> DEFINE q == QuotaOf[c.tier]
           level == c.level + (now - c.refilledAt) * q
           full == CapacityOf[c.tier] * Share
<1>1. c.level \in Nat /\ c.refilledAt \in Nat /\ q \in Nat /\ CapacityOf[c.tier] \in Nat /\ Share \in Nat
  BY QuotaFacts DEF PacerBucket
<1>2. CASE now <= c.refilledAt BY <1>2 DEF Refill
<1>3. CASE ~ (now <= c.refilledAt)
  <2>1. now - c.refilledAt \in Nat BY <1>1, <1>3
  <2>2. (now - c.refilledAt) * q \in Nat /\ full \in Nat
    <3> HIDE DEF q
    <3> QED BY <1>1, <2>1, ProductType
  <2>3. level \in Nat BY <1>1, <2>2
  <2>4. Refill(c) = [c EXCEPT !.level = IF level > full THEN full ELSE level, !.refilledAt = now]
    BY <1>3 DEF Refill
  <2> HIDE DEF level, full
  <2> QED BY <2>2, <2>3, <2>4 DEF PacerBucket
<1> QED BY <1>2, <1>3

LEMMA AcquiredTyped ==
  ASSUME now \in Nat, pacer \in [PacerKeys -> PacerBucket], NEW k \in PacerKeys
  PROVE  LET b == Refill(GetOrCreate(k)) IN b \in PacerBucket /\ b.tier \in Tiers
<1>1. InitialWrites * Share \in Nat BY QuotaFacts, ProductType
<1>2. GetOrCreate(k) \in PacerBucket /\ GetOrCreate(k).tier \in Tiers
  BY <1>1 DEF GetOrCreate, NewPacerBucket, PacerBucket, Tiers
<1> QED BY <1>2, RefillTyped

LEMMA AccrualType ==
  ASSUME now \in Nat, pacer \in [PacerKeys -> PacerBucket], NEW k \in PacerKeys,
         AcquireMustWait(k)
  PROVE  AccrualTime(k) \in Nat
<1> DEFINE b == Refill(GetOrCreate(k))
           q == QuotaOf[b.tier]
<1>1. b \in PacerBucket /\ b.tier \in Tiers BY AcquiredTyped
<1>2. b.level < Share BY DEF AcquireMustWait
<1>3. AccrualTime(k) = (Share - b.level + q - 1) \div q BY DEF AccrualTime
<1> HIDE DEF b
<1>4. b.level \in Nat /\ q \in Nat \ {0} /\ Share \in Nat BY <1>1, QuotaFacts DEF PacerBucket
<1> HIDE DEF q
<1>5. Share - b.level + q - 1 \in Nat BY <1>2, <1>4
<1> QED BY <1>3, <1>4, <1>5, QuotientType

\* Every operation of the pacer keeps every bucket a bucket.
LEMMA PacerTyped ==
  ASSUME now \in Nat, pacer \in [PacerKeys -> PacerBucket], NEW k \in PacerKeys,
         \/ AcquireNow(k) \/ AcquireMustWait(k) \/ AcquireAfterWait(k)
         \/ \E tier \in Tiers : TierSeen(k, tier)
  PROVE  pacer' \in [PacerKeys -> PacerBucket]
<1> DEFINE b == Refill(GetOrCreate(k))
<1>1. b \in PacerBucket /\ Share \in Nat BY AcquiredTyped, QuotaFacts
<1>2. CASE AcquireNow(k)
  <2>1. b.level >= Share /\ pacer' = [pacer EXCEPT ![k] = [b EXCEPT !.level = @ - Share]]
    BY <1>2 DEF AcquireNow
  <2> HIDE DEF b
  <2> QED BY <1>1, <2>1 DEF PacerBucket
<1>3. CASE AcquireMustWait(k) BY <1>1, <1>3 DEF AcquireMustWait
<1>4. CASE AcquireAfterWait(k)
  <2>1. pacer' = [pacer EXCEPT ![k] = [b EXCEPT !.level = IF @ > Share THEN @ - Share ELSE 0]]
    BY <1>4 DEF AcquireAfterWait
  <2> HIDE DEF b
  <2> QED BY <1>1, <2>1 DEF PacerBucket
<1>5. ASSUME NEW tier \in Tiers, TierSeen(k, tier) PROVE pacer' \in [PacerKeys -> PacerBucket]
  BY <1>5 DEF TierSeen, PacerBucket
<1> QED BY <1>2, <1>3, <1>4, <1>5

\* The buckets, the timers and the history keep their types (write-pacer.ts:17-24), for
\* every share, quota and capacity.
THEOREM PacedTyped == Spec => []TypeOK
<1>1. Init => TypeOK
  BY DEF Init, ClockInit, PacerInit, NoPacerBucket, PacerBucket, TypeOK
<1>2. TypeOK /\ [Next]_vars => TypeOK'
  <2> SUFFICES ASSUME TypeOK, [Next]_vars PROVE TypeOK' OBVIOUS
  <2> USE BucketAssumption
  <2>1. CASE TimePasses BY <2>1 DEF TimePasses, Tick, TypeOK
  <2>2. ASSUME NEW r \in Calls, Acquire(r) PROVE TypeOK'
    <3>1. pacer' \in [PacerKeys -> PacerBucket] BY <2>2, PacerTyped DEF Acquire, TypeOK
    <3>2. sleeping' \in [Calls -> Nat] BY <2>2, AccrualType DEF Acquire, TypeOK
    <3> QED BY <2>2, <3>1, <3>2 DEF Acquire, TypeOK
  <2>3. ASSUME NEW r \in Calls, Wake(r) PROVE TypeOK'
    <3>1. pacer' \in [PacerKeys -> PacerBucket] BY <2>3, PacerTyped DEF Wake, TypeOK
    <3> QED BY <2>3, <3>1 DEF Wake, TypeOK
  <2>4. ASSUME NEW tier \in Tiers, ReportTier(tier) PROVE TypeOK'
    <3>1. pacer' \in [PacerKeys -> PacerBucket] BY <2>4, PacerTyped DEF ReportTier, TypeOK
    <3> QED BY <2>4, <3>1 DEF ReportTier, TypeOK
  <2>5. CASE UNCHANGED vars BY <2>5 DEF vars, TypeOK
  <2> QED BY <2>1, <2>2, <2>3, <2>4, <2>5 DEF Next
<1> QED BY <1>1, <1>2, PTL DEF Spec

-----------------------------------------------------------------------------

\* The whole quotient, rounded up, is the least number of parts that suffices.
LEMMA RoundedUp ==
  ASSUME NEW m \in Nat \ {0}, NEW n \in Nat \ {0}
  PROVE  LET t == (m + n - 1) \div n
         IN  t \in Nat \ {0} /\ m <= t * n /\ (t - 1) * n < m
<1> DEFINE x == m + n - 1
           t == x \div n
<1>1. x \in Nat BY SMT
<1> HIDE DEF x
<1>2. t \in Nat /\ t * n <= x /\ x < (t + 1) * n BY <1>1
<1>3. (t + 1) * n = t * n + n /\ (t - 1) * n = t * n - n /\ t * n \in Nat
  <2> HIDE DEF t
  <2> QED BY <1>2
<1> HIDE DEF t
<1>4. x = m + n - 1 BY DEF x
<1>5. m <= t * n /\ (t - 1) * n < m BY <1>2, <1>3, <1>4
<1>6. t # 0 BY <1>2, <1>5
<1> QED BY <1>2, <1>5, <1>6 DEF t, x

\* write-pacer.ts:67-92: a write that finds too little sleeps until the first tick by which a
\* whole write has accrued in its bucket, if nobody else takes from it - no tick less, and no
\* tick more - and the bucket can hold that write.
THEOREM SleepIsExact ==
  ASSUME now \in Nat, pacer \in [PacerKeys -> PacerBucket], NEW k \in PacerKeys,
         AcquireMustWait(k), NEW d \in Nat
  PROVE  LET b == Refill(GetOrCreate(k)) IN
         /\ b.level + d * QuotaOf[b.tier] >= Share <=> d >= AccrualTime(k)
         /\ CapacityOf[b.tier] * Share >= Share
<1> DEFINE b == Refill(GetOrCreate(k))
           q == QuotaOf[b.tier]
           cap == CapacityOf[b.tier]
           m == Share - b.level
           t == (m + q - 1) \div q
<1>1. b \in PacerBucket /\ b.tier \in Tiers BY AcquiredTyped
<1>2. b.level < Share BY DEF AcquireMustWait
<1>3. AccrualTime(k) = t BY DEF AccrualTime
<1> HIDE DEF b
<1>4. b.level \in Nat /\ q \in Nat \ {0} /\ cap \in Nat \ {0} /\ Share \in Nat \ {0}
  BY <1>1, QuotaFacts DEF PacerBucket
<1>5. m \in Nat \ {0} BY <1>2, <1>4
<1>6. t \in Nat \ {0} /\ m <= t * q /\ (t - 1) * q < m
  <2> HIDE DEF q, m
  <2> QED BY <1>4, <1>5, RoundedUp
<1>7. d * q >= m <=> d >= t
  <2> HIDE DEF q, m, t
  <2>1. CASE d >= t
    <3>1. t * q <= d * q BY <1>4, <1>6, <2>1
    <3>2. t * q \in Nat /\ d * q \in Nat BY <1>4, <1>6, ProductType
    <3> QED BY <1>5, <1>6, <2>1, <3>1, <3>2
  <2>2. CASE ~ (d >= t)
    <3>1. d <= t - 1 /\ t - 1 \in Nat BY <1>6, <2>2
    <3>2. d * q <= (t - 1) * q BY <1>4, <3>1
    <3>3. (t - 1) * q \in Nat /\ d * q \in Nat BY <1>4, <3>1, ProductType
    <3> QED BY <1>5, <1>6, <2>2, <3>2, <3>3
  <2> QED BY <2>1, <2>2
<1>8. b.level + d * q >= Share <=> d * q >= m
  <2>1. d * q \in Nat
    <3> HIDE DEF q
    <3> QED BY <1>4, ProductType
  <2> QED BY <1>4, <2>1
<1>9. cap * Share >= Share
  <2> HIDE DEF cap
  <2> QED BY <1>4
<1> QED BY <1>3, <1>7, <1>8, <1>9 DEF b

=============================================================================
