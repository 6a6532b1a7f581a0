--------------------------- MODULE BreakerHistory ---------------------------
(***************************************************************************)
(* The circuit breaker on its own, under every stream of throttled errors  *)
(* and every order of admissions, with two history variables that record   *)
(* what it was told:                                                       *)
(*   hits      the throttles without a hint, per key, none ever forgotten  *)
(*   promised  the latest end of a silence Meta asked for, per key         *)
(***************************************************************************)
EXTENDS CircuitBreaker

CONSTANT Errors    \* the Graph API errors Meta may answer with

VARIABLES hits, promised

vars == <<now, circuits, throttleEvents, hits, promised>>

\* A throttle of the past, or of this very tick.
Event == [at : 1..now, by : Calls]

Later(a, b) == IF a > b THEN a ELSE b

Init ==
  /\ ClockInit
  /\ BreakerInit
  /\ hits = [k \in CircuitKeys |-> {}]
  /\ promised = [k \in CircuitKeys |-> 0]

Admit(ctx) == AssertClosed(ctx) /\ UNCHANGED <<now, hits, promised>>

\* assertClosed throws.
Refuse(ctx) == Blocked(ctx) /\ UNCHANGED vars

\* A call of ctx ends on a throttled error; how long ago it was admitted is open.
Throttled(ctx, e, call) ==
  LET class == ClassifyMetaError(e)
      key   == circuitKey(ctx)
  IN  /\ class.throttled
      /\ \A k \in CircuitKeys : \A h \in hits[k] : h.by # call
      /\ Trip(ctx, class, call)
      /\ IF CoolDownOf(class) > 0
         THEN /\ promised' = [promised EXCEPT ![key] = Later(@, now + CoolDownOf(class))]
              /\ UNCHANGED hits
         ELSE /\ hits' = [hits EXCEPT ![key] = @ \cup {[at |-> now, by |-> call]}]
              /\ UNCHANGED promised
      /\ UNCHANGED now

TimePasses == Tick /\ UNCHANGED <<circuits, throttleEvents, hits, promised>>

Next ==
  \/ TimePasses
  \/ \E ctx \in Contexts :
       \/ Admit(ctx)
       \/ Refuse(ctx)
       \/ \E e \in Errors, call \in Calls : Throttled(ctx, e, call)

Spec == Init /\ [][Next]_vars

-----------------------------------------------------------------------------

\* The types of the breaker's state (circuit-breaker.ts:47-48) and of its history.
TypeOK ==
  /\ now \in Nat \ {0}
  /\ circuits \in [CircuitKeys -> Nat]
  /\ throttleEvents \in [CircuitKeys -> SUBSET Event]
  /\ hits \in [CircuitKeys -> SUBSET Event]
  /\ promised \in [CircuitKeys -> Nat]

RecentHits(k) == {h \in hits[k] : now - h.at < ThrottleWindow}

\* README.md:482 and trip (circuit-breaker.ts:118-135): whenever as many throttles
\* as the threshold lie within one window, the key is silent for as long as they
\* do, however the counter was filtered, consumed by an earlier trip or swept.
RepeatedThrottleHalts ==
  \A k \in CircuitKeys :
    Cardinality(RecentHits(k)) >= ThrottleThreshold => circuits[k] > now

\* README.md:483 ("honored as-is"): a key stays silent until the latest end Meta
\* ever asked for, whatever shorter signals and sweeps came after it
\* (openCircuit, circuit-breaker.ts:152-156).
HintsHonoured ==
  \A k \in CircuitKeys : promised[k] > now => circuits[k] >= promised[k]

\* The deadline that callers can observe: an elapsed one blocks nobody, whether
\* assertClosed has swept it or not.
SilentUntil == [k \in CircuitKeys |-> IF circuits[k] > now THEN circuits[k] ELSE 0]

LongestOf == Later(Later(AbuseCooldown, RepeatedCooldown),
                   Later(BlockCooldown, Later(InsightsHint, Later(BlockHint, AbuseHint))))

Abstract == INSTANCE CoolDown WITH
  Keys <- CircuitKeys, LongestCoolDown <- LongestOf, silentUntil <- SilentUntil

\* Counting, hints, expiry and sweeping together amount to deadlines that only
\* move later and end only by time (circuit-breaker.ts:54-166 against CoolDown).
ImplementsCoolDown == Abstract!Spec
=============================================================================
