---------------------------- MODULE BreakerProofs ----------------------------
(***************************************************************************)
(* What the runs of BreakerHistory show on a small instance, for every set *)
(* of tokens, accounts, types and calls, every threshold and every length  *)
(* of the window and the cool-downs that BreakerAssumption allows.         *)
(***************************************************************************)
EXTENDS BreakerHistory, FiniteSetTheorems, TLAPS

\* What the counter still knows of the throttles it was told: each is counted, too
\* old to matter, or has been paid for by a cool-down that outlasts its window.
Accounted(k) ==
  \A h \in hits[k] :
    \/ h \in throttleEvents[k]
    \/ now - h.at >= ThrottleWindow
    \/ circuits[k] >= h.at + RepeatedCooldown

BelowThreshold(k) ==
  /\ IsFiniteSet(throttleEvents[k])
  /\ Cardinality(throttleEvents[k]) < ThrottleThreshold

CountingInv == TypeOK /\ \A k \in CircuitKeys : Accounted(k) /\ BelowThreshold(k)

-----------------------------------------------------------------------------

\* The class of every error is well formed (errors.ts:62-265).
LEMMA ClassOfEveryError ==
  ASSUME NEW e
  PROVE  /\ ClassifyMetaError(e).hint \in Nat
         /\ ClassifyMetaError(e).throttled \in BOOLEAN
BY HintAssumption DEF ClassifyMetaError, Throttle, Surface

\* A cool-down is a number of ticks, none longer than the longest constant.
LEMMA CoolDownBounds ==
  ASSUME NEW e
  PROVE  /\ CoolDownOf(ClassifyMetaError(e)) \in 0..LongestOf
         /\ RepeatedCooldown \in 1..LongestOf
BY HintAssumption, BreakerAssumption
DEF ClassifyMetaError, Throttle, Surface, CoolDownOf, LongestOf, Later

\* The key trip writes is one of the breaker's keys (circuit-breaker.ts:196-202).
LEMMA KeyOfContext ==
  ASSUME NEW ctx \in Contexts
  PROVE  circuitKey(ctx) \in CircuitKeys
BY DEF circuitKey, CircuitKeys

\* openCircuit never moves a deadline back (circuit-breaker.ts:152-156).
LEMMA OpenCircuitExtends ==
  ASSUME circuits \in [CircuitKeys -> Nat],
         NEW key \in CircuitKeys, NEW until \in Nat
  PROVE  /\ OpenCircuit(key, until) \in [CircuitKeys -> Nat]
         /\ OpenCircuit(key, until)[key] >= until
         /\ \A k \in CircuitKeys : OpenCircuit(key, until)[k] >= circuits[k]
         /\ \A k \in CircuitKeys \ {key} : OpenCircuit(key, until)[k] = circuits[k]
BY DEF OpenCircuit

\* The two ends a throttled error may have, with all that each of them writes.
LEMMA ThrottledCases ==
  ASSUME TypeOK,
         NEW ctx \in Contexts, NEW e, NEW call \in Calls,
         Throttled(ctx, e, call)
  PROVE  LET class  == ClassifyMetaError(e)
             key    == circuitKey(ctx)
             event  == [at |-> now, by |-> call]
             recent == Recent(key) \cup {event}
         IN  /\ now' = now
             /\ \/ /\ CoolDownOf(class) \in 1..LongestOf
                   /\ circuits' = OpenCircuit(key, now + CoolDownOf(class))
                   /\ UNCHANGED <<throttleEvents, hits>>
                   /\ promised' =
                        [promised EXCEPT ![key] = Later(@, now + CoolDownOf(class))]
                \/ /\ Cardinality(recent) >= ThrottleThreshold
                   /\ circuits' = OpenCircuit(key, now + RepeatedCooldown)
                   /\ throttleEvents' = [throttleEvents EXCEPT ![key] = {}]
                   /\ hits' = [hits EXCEPT ![key] = @ \cup {event}]
                   /\ UNCHANGED promised
                \/ /\ ~ (Cardinality(recent) >= ThrottleThreshold)
                   /\ throttleEvents' = [throttleEvents EXCEPT ![key] = recent]
                   /\ hits' = [hits EXCEPT ![key] = @ \cup {event}]
                   /\ UNCHANGED <<circuits, promised>>
<1>1. ClassifyMetaError(e).throttled
  BY DEF Throttled
<1>2. CASE CoolDownOf(ClassifyMetaError(e)) > 0
  BY <1>2, CoolDownBounds DEF Throttled, Trip
<1>3. CASE ~ (CoolDownOf(ClassifyMetaError(e)) > 0)
  BY <1>1, <1>3 DEF Throttled, Trip, CountThrottle
<1> QED BY <1>2, <1>3

-----------------------------------------------------------------------------

LEMMA TypeInit == Init => TypeOK
BY DEF Init, ClockInit, BreakerInit, TypeOK, Event

LEMMA TypeStep == TypeOK /\ [Next]_vars => TypeOK'
<1> SUFFICES ASSUME TypeOK, [Next]_vars PROVE TypeOK'
  OBVIOUS
<1> USE DEF TypeOK, Event
<1>1. CASE TimePasses
  BY <1>1 DEF TimePasses, Tick
<1>2. ASSUME NEW ctx \in Contexts, Admit(ctx) PROVE TypeOK'
  BY <1>2 DEF Admit, AssertClosed
<1>3. ASSUME NEW ctx \in Contexts, Refuse(ctx) PROVE TypeOK'
  BY <1>3 DEF Refuse, vars
<1>4. ASSUME NEW ctx \in Contexts, NEW e \in Errors, NEW call \in Calls,
             Throttled(ctx, e, call)
      PROVE  TypeOK'
  <2> DEFINE key    == circuitKey(ctx)
             d      == CoolDownOf(ClassifyMetaError(e))
             event  == [at |-> now, by |-> call]
             recent == Recent(key) \cup {event}
  <2>1. key \in CircuitKeys /\ event \in Event
    BY <1>4, KeyOfContext
  <2>2. recent \in SUBSET Event
    BY <2>1 DEF Recent
  <2>3. now + d \in Nat /\ now + RepeatedCooldown \in Nat
    BY CoolDownBounds, BreakerAssumption
  <2> HIDE DEF key, d, event, recent
  <2>c. /\ now' = now
        /\ \/ /\ circuits' = OpenCircuit(key, now + d)
              /\ UNCHANGED <<throttleEvents, hits>>
              /\ promised' = [promised EXCEPT ![key] = Later(@, now + d)]
           \/ /\ circuits' = OpenCircuit(key, now + RepeatedCooldown)
              /\ throttleEvents' = [throttleEvents EXCEPT ![key] = {}]
              /\ hits' = [hits EXCEPT ![key] = @ \cup {event}]
              /\ UNCHANGED promised
           \/ /\ throttleEvents' = [throttleEvents EXCEPT ![key] = recent]
              /\ hits' = [hits EXCEPT ![key] = @ \cup {event}]
              /\ UNCHANGED <<circuits, promised>>
    BY <1>4, ThrottledCases DEF key, d, event, recent
  <2>4. now' = now /\ circuits' \in [CircuitKeys -> Nat]
    <3>1. /\ OpenCircuit(key, now + d) \in [CircuitKeys -> Nat]
          /\ OpenCircuit(key, now + RepeatedCooldown) \in [CircuitKeys -> Nat]
      BY <2>1, <2>3, OpenCircuitExtends
    <3> QED BY <2>c, <3>1
  <2>5. throttleEvents' \in [CircuitKeys -> SUBSET Event]
    BY <2>1, <2>2, <2>c
  <2>6. hits' \in [CircuitKeys -> SUBSET Event]
    BY <2>1, <2>c
  <2>7. promised' \in [CircuitKeys -> Nat]
    BY <2>1, <2>3, <2>c DEF Later
  <2> QED BY <2>4, <2>5, <2>6, <2>7
<1>5. CASE UNCHANGED vars
  BY <1>5 DEF vars
<1> QED BY <1>1, <1>2, <1>3, <1>4, <1>5 DEF Next

\* The types of the breaker's state hold under every stream of errors.
THEOREM Typed == Spec => []TypeOK
BY TypeInit, TypeStep, PTL DEF Spec

-----------------------------------------------------------------------------

LEMMA CountingInit == Init => CountingInv
BY TypeInit, FS_EmptySet, BreakerAssumption
DEF Init, BreakerInit, CountingInv, Accounted, BelowThreshold

LEMMA CountingStep == CountingInv /\ [Next]_vars => CountingInv'
<1> SUFFICES ASSUME CountingInv, [Next]_vars,
                    NEW k \in CircuitKeys
             PROVE  Accounted(k)' /\ BelowThreshold(k)'
  BY TypeStep DEF CountingInv
<1> USE DEF TypeOK, Event
<1>t. TypeOK /\ Accounted(k) /\ BelowThreshold(k)
  BY DEF CountingInv
<1>b. /\ ThrottleWindow \in Nat \ {0} /\ RepeatedCooldown \in Nat
      /\ RepeatedCooldown >= ThrottleWindow /\ ThrottleThreshold \in Nat \ {0}
  BY BreakerAssumption
<1>1. CASE TimePasses
  BY <1>1, <1>t, <1>b DEF TimePasses, Tick, Accounted, BelowThreshold
<1>2. ASSUME NEW ctx \in Contexts, Admit(ctx)
      PROVE  Accounted(k)' /\ BelowThreshold(k)'
  <2>1. BelowThreshold(k)'
    BY <1>2, <1>t DEF Admit, AssertClosed, BelowThreshold
  \* What the sweep forgets has cooled down for longer than the window.
  <2>2. Accounted(k)'
    BY <1>2, <1>t, <1>b DEF Admit, AssertClosed, Accounted
  <2> QED BY <2>1, <2>2
<1>3. ASSUME NEW ctx \in Contexts, Refuse(ctx)
      PROVE  Accounted(k)' /\ BelowThreshold(k)'
  BY <1>3, <1>t DEF Refuse, vars, Accounted, BelowThreshold
<1>4. ASSUME NEW ctx \in Contexts, NEW e \in Errors, NEW call \in Calls,
             Throttled(ctx, e, call)
      PROVE  Accounted(k)' /\ BelowThreshold(k)'
  <2> DEFINE key    == circuitKey(ctx)
             d      == CoolDownOf(ClassifyMetaError(e))
             event  == [at |-> now, by |-> call]
             recent == Recent(key) \cup {event}
  <2>1. /\ key \in CircuitKeys
        /\ now + d \in Nat /\ now + RepeatedCooldown \in Nat
    BY <1>t, <1>b, KeyOfContext, CoolDownBounds
  <2>2. now' = now
    BY <1>4, <1>t, ThrottledCases
  <2> HIDE DEF key, d
  <2>3. CASE /\ circuits' = OpenCircuit(key, now + d)
             /\ UNCHANGED <<throttleEvents, hits>>
    <3>1. circuits'[k] >= circuits[k] /\ circuits'[k] \in Nat
      <4>1. circuits \in [CircuitKeys -> Nat]
        BY <1>t
      <4> QED BY <4>1, <2>1, <2>3, OpenCircuitExtends
    <3> QED BY <1>t, <1>b, <2>2, <2>3, <3>1 DEF Accounted, BelowThreshold
  <2>4. CASE /\ circuits' = OpenCircuit(key, now + RepeatedCooldown)
             /\ throttleEvents' = [throttleEvents EXCEPT ![key] = {}]
             /\ hits' = [hits EXCEPT ![key] = @ \cup {event}]
    <3>1. /\ circuits'[k] >= circuits[k] /\ circuits'[k] \in Nat
          /\ k = key => circuits'[k] >= now + RepeatedCooldown
      <4>1. circuits \in [CircuitKeys -> Nat]
        BY <1>t
      <4> QED BY <4>1, <2>1, <2>4, OpenCircuitExtends
    \* The cool-down pays for every throttle there has been.
    <3>2. Accounted(k)'
      BY <1>t, <1>b, <2>1, <2>2, <2>4, <3>1 DEF Accounted
    <3>3. BelowThreshold(k)'
      BY <1>t, <1>b, <2>1, <2>4, FS_EmptySet DEF BelowThreshold
    <3> QED BY <3>2, <3>3
  <2>5. CASE /\ ~ (Cardinality(recent) >= ThrottleThreshold)
             /\ throttleEvents' = [throttleEvents EXCEPT ![key] = recent]
             /\ hits' = [hits EXCEPT ![key] = @ \cup {event}]
             /\ UNCHANGED circuits
    \* What recent leaves out is too old to matter.
    <3>1. Accounted(k)'
      BY <1>t, <1>b, <2>1, <2>2, <2>5 DEF Accounted, Recent
    <3>2. CASE k = key
      <4>1. IsFiniteSet(Recent(key))
        BY <1>t, <3>2, FS_Subset DEF Recent, BelowThreshold
      <4>2. IsFiniteSet(recent) /\ Cardinality(recent) \in Nat
        BY <4>1, FS_AddElement, FS_CardinalityType
      <4>3. throttleEvents'[k] = recent
        BY <1>t, <2>1, <2>5, <3>2
      <4> HIDE DEF recent
      <4>4. BelowThreshold(k)'
        BY <1>b, <2>5, <4>2, <4>3 DEF BelowThreshold
      <4> QED BY <3>1, <4>4
    <3>3. CASE k # key
      BY <1>t, <2>1, <2>5, <3>1, <3>3 DEF BelowThreshold
    <3> QED BY <3>2, <3>3
  <2> QED BY <1>4, <1>t, <2>3, <2>4, <2>5, ThrottledCases DEF key, d
<1>5. CASE UNCHANGED vars
  BY <1>5, <1>t DEF vars, Accounted, BelowThreshold
<1> QED BY <1>1, <1>2, <1>3, <1>4, <1>5 DEF Next

LEMMA CountingSuffices == CountingInv => RepeatedThrottleHalts
<1> SUFFICES ASSUME CountingInv, NEW k \in CircuitKeys,
                    Cardinality(RecentHits(k)) >= ThrottleThreshold,
                    ~ (circuits[k] > now)
             PROVE  FALSE
  BY DEF RepeatedThrottleHalts
<1>1. TypeOK /\ Accounted(k) /\ BelowThreshold(k)
  BY DEF CountingInv
<1>2. RecentHits(k) \subseteq throttleEvents[k]
  BY <1>1, BreakerAssumption DEF RecentHits, Accounted, TypeOK, Event
<1>3. /\ Cardinality(RecentHits(k)) <= Cardinality(throttleEvents[k])
      /\ Cardinality(RecentHits(k)) \in Nat /\ Cardinality(throttleEvents[k]) \in Nat
  BY <1>1, <1>2, FS_Subset, FS_CardinalityType DEF BelowThreshold
<1> QED BY <1>1, <1>3, BreakerAssumption DEF BelowThreshold

\* README.md:482: however the counter is filtered, reset by a trip or left behind
\* by a sweep, as many throttles as the threshold within one window silence the key
\* for as long as they lie within it.
THEOREM Halts == Spec => []RepeatedThrottleHalts
<1>1. Spec => []CountingInv
  BY CountingInit, CountingStep, PTL DEF Spec
<1> QED BY <1>1, CountingSuffices, PTL

-----------------------------------------------------------------------------

HintsInv == TypeOK /\ HintsHonoured

LEMMA HintsStep == HintsInv /\ [Next]_vars => HintsInv'
<1> SUFFICES ASSUME TypeOK, HintsHonoured, [Next]_vars,
                    NEW k \in CircuitKeys, promised'[k] > now'
             PROVE  circuits'[k] >= promised'[k]
  BY TypeStep DEF HintsInv, HintsHonoured
<1> USE DEF TypeOK
<1>t. promised[k] > now => circuits[k] >= promised[k]
  BY DEF HintsHonoured
<1>1. CASE TimePasses
  BY <1>1, <1>t DEF TimePasses, Tick
\* A silence that is still promised is a deadline the sweep keeps.
<1>2. ASSUME NEW ctx \in Contexts, Admit(ctx) PROVE circuits'[k] >= promised'[k]
  BY <1>2, <1>t DEF Admit, AssertClosed
<1>3. ASSUME NEW ctx \in Contexts, Refuse(ctx) PROVE circuits'[k] >= promised'[k]
  BY <1>3, <1>t DEF Refuse, vars
<1>4. ASSUME NEW ctx \in Contexts, NEW e \in Errors, NEW call \in Calls,
             Throttled(ctx, e, call)
      PROVE  circuits'[k] >= promised'[k]
  <2> DEFINE key == circuitKey(ctx)
             d   == CoolDownOf(ClassifyMetaError(e))
  <2>1. /\ key \in CircuitKeys
        /\ now + d \in Nat /\ now + RepeatedCooldown \in Nat
    BY KeyOfContext, CoolDownBounds, BreakerAssumption
  <2> HIDE DEF key, d
  <2>2. /\ now' = now
        /\ \/ /\ circuits' = OpenCircuit(key, now + d)
              /\ promised' = [promised EXCEPT ![key] = Later(@, now + d)]
           \/ circuits' = OpenCircuit(key, now + RepeatedCooldown) /\ UNCHANGED promised
           \/ UNCHANGED <<circuits, promised>>
    BY <1>4, ThrottledCases DEF key, d
  <2>3. CASE /\ circuits' = OpenCircuit(key, now + d)
             /\ promised' = [promised EXCEPT ![key] = Later(@, now + d)]
    <3>1. /\ circuits'[k] >= circuits[k] /\ circuits'[k] \in Nat
          /\ k = key => circuits'[k] >= now + d
      BY <2>1, <2>3, OpenCircuitExtends
    <3> QED BY <1>t, <2>1, <2>2, <2>3, <3>1 DEF Later
  <2>4. CASE circuits' = OpenCircuit(key, now + RepeatedCooldown) /\ UNCHANGED promised
    <3>1. circuits'[k] >= circuits[k] /\ circuits'[k] \in Nat
      BY <2>1, <2>4, OpenCircuitExtends
    <3> QED BY <1>t, <2>2, <2>4, <3>1
  <2> QED BY <1>t, <2>2, <2>3, <2>4
<1>5. CASE UNCHANGED vars
  BY <1>5, <1>t DEF vars
<1> QED BY <1>1, <1>2, <1>3, <1>4, <1>5 DEF Next

\* README.md:483: no counted throttle, shorter hint or sweep ends a silence before
\* the latest end Meta asked for.
THEOREM Honours == Spec => []HintsHonoured
<1>1. Init => HintsInv
  BY TypeInit DEF HintsInv, HintsHonoured, TypeOK, Init
<1>2. Spec => []HintsInv
  BY <1>1, HintsStep, PTL DEF Spec
<1> QED BY <1>2, PTL DEF HintsInv

-----------------------------------------------------------------------------

LEMMA AbstractInit == Init => Abstract!Init
BY DEF Init, ClockInit, BreakerInit, Abstract!Init, Abstract!ClockInit, SilentUntil

\* Opening a circuit is silencing its key, whether or not the old deadline was over.
LEMMA OpeningSilences ==
  ASSUME TypeOK, NEW key \in CircuitKeys, NEW d \in 1..LongestOf,
         LongestOf \in Nat,
         now' = now, circuits' = OpenCircuit(key, now + d)
  PROVE  Abstract!Silence(key, d)
<1>1. SilentUntil' = [SilentUntil EXCEPT ![key] = IF @ > now + d THEN @ ELSE now + d]
  <2>1. /\ now \in Nat /\ d \in Nat \ {0}
        /\ circuits \in [CircuitKeys -> Nat]
    BY DEF TypeOK
  <2>2. CASE circuits[key] > now + d
    BY <2>1, <2>2 DEF OpenCircuit, SilentUntil
  <2>3. CASE ~ (circuits[key] > now + d)
    <3>1. circuits' = [circuits EXCEPT ![key] = now + d]
      BY <2>3 DEF OpenCircuit
    <3>2. \A k \in CircuitKeys :
            circuits'[k] = IF k = key THEN now + d ELSE circuits[k]
      BY <2>1, <3>1
    <3>3. \A k \in CircuitKeys :
            SilentUntil'[k] = IF k = key THEN now + d ELSE SilentUntil[k]
      BY <2>1, <3>2 DEF SilentUntil
    <3>4. ~ (SilentUntil[key] > now + d)
      BY <2>1, <2>3 DEF SilentUntil
    <3>5. /\ SilentUntil = [k \in CircuitKeys |-> SilentUntil[k]]
          /\ SilentUntil' = [k \in CircuitKeys |-> SilentUntil'[k]]
      BY DEF SilentUntil
    <3> HIDE DEF SilentUntil
    <3> QED BY <3>3, <3>4, <3>5
  <2> QED BY <2>2, <2>3
<1> QED BY <1>1 DEF Abstract!Silence

LEMMA AbstractStep ==
  TypeOK /\ [Next]_vars => [Abstract!Next]_<<now, SilentUntil>>
<1> SUFFICES ASSUME TypeOK, [Next]_vars
             PROVE  Abstract!Next \/ UNCHANGED <<now, SilentUntil>>
  OBVIOUS
<1>1. CASE TimePasses
  <2>1. SilentUntil' =
          [k \in CircuitKeys |-> IF SilentUntil[k] > now' THEN SilentUntil[k] ELSE 0]
    BY <1>1 DEF TimePasses, Tick, TypeOK, SilentUntil
  <2> QED BY <1>1, <2>1 DEF TimePasses, Tick, Abstract!Next, Abstract!Elapse, Abstract!Tick
\* Sweeping is invisible: only what is over is swept.
<1>2. ASSUME NEW ctx \in Contexts, Admit(ctx) PROVE UNCHANGED <<now, SilentUntil>>
  BY <1>2 DEF Admit, AssertClosed, TypeOK, SilentUntil
<1>3. ASSUME NEW ctx \in Contexts, Refuse(ctx) PROVE UNCHANGED <<now, SilentUntil>>
  BY <1>3 DEF Refuse, vars, SilentUntil
<1>4. ASSUME NEW ctx \in Contexts, NEW e \in Errors, NEW call \in Calls,
             Throttled(ctx, e, call)
      PROVE  Abstract!Next \/ UNCHANGED <<now, SilentUntil>>
  <2> DEFINE key == circuitKey(ctx)
             d   == CoolDownOf(ClassifyMetaError(e))
  <2>1. /\ key \in CircuitKeys
        /\ RepeatedCooldown \in 1..LongestOf /\ LongestOf \in Nat
    BY KeyOfContext, CoolDownBounds, HintAssumption, BreakerAssumption DEF LongestOf, Later
  <2> HIDE DEF key, d
  <2>2. /\ now' = now
        /\ \/ d \in 1..LongestOf /\ circuits' = OpenCircuit(key, now + d)
           \/ circuits' = OpenCircuit(key, now + RepeatedCooldown)
           \/ UNCHANGED circuits
    BY <1>4, ThrottledCases DEF key, d
  <2>3. CASE d \in 1..LongestOf /\ circuits' = OpenCircuit(key, now + d)
    <3>1. Abstract!Silence(key, d)
      BY <2>1, <2>2, <2>3, OpeningSilences
    <3> QED BY <2>1, <2>3, <3>1 DEF Abstract!Next
  <2>4. CASE circuits' = OpenCircuit(key, now + RepeatedCooldown)
    <3>1. Abstract!Silence(key, RepeatedCooldown)
      BY <2>1, <2>2, <2>4, OpeningSilences
    <3> QED BY <2>1, <3>1 DEF Abstract!Next
  <2>5. CASE UNCHANGED circuits
    BY <2>2, <2>5 DEF SilentUntil
  <2> QED BY <2>2, <2>3, <2>4, <2>5
<1>5. CASE UNCHANGED vars
  BY <1>5 DEF vars, SilentUntil
<1> QED BY <1>1, <1>2, <1>3, <1>4, <1>5 DEF Next

\* circuit-breaker.ts:54-166 against CoolDown: counting, hints, expiry and sweeping
\* are, to a caller, deadlines that only move later and end only by time.
THEOREM Implements == Spec => ImplementsCoolDown
BY AbstractInit, AbstractStep, Typed, PTL DEF Spec, ImplementsCoolDown, Abstract!Spec
=============================================================================
