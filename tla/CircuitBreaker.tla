--------------------------- MODULE CircuitBreaker ---------------------------
(***************************************************************************)
(* CircuitBreaker (src/meta/circuit-breaker.ts): the state the client      *)
(* keeps so that a throttled (token, account, type) stays silent.          *)
(*                                                                         *)
(* A circuit's key is the code's colon-joined string, here the tuple of    *)
(* its parts.  circuits[k] is openUntil, 0 when the map has no entry;      *)
(* reason, lastError and tripCount only feed the snapshot.                 *)
(***************************************************************************)
EXTENDS RequestScope, MetaErrors, Integers, FiniteSets

CONSTANTS
  ThrottleWindow,     \* REPEATED_THROTTLE_WINDOW_MS
  ThrottleThreshold,  \* REPEATED_THROTTLE_THRESHOLD
  RepeatedCooldown,   \* REPEATED_THROTTLE_COOLDOWN_MS
  AbuseCooldown,      \* ABUSE_SIGNAL_COOLDOWN_MS
  BlockCooldown       \* TEMPORARY_BLOCK_COOLDOWN_MS

ASSUME BreakerAssumption ==
  /\ ThrottleWindow \in Nat \ {0}
  /\ ThrottleThreshold \in Nat \ {0}
  /\ RepeatedCooldown \in Nat /\ RepeatedCooldown >= ThrottleWindow
  /\ AbuseCooldown \in Nat \ {0}
  /\ BlockCooldown \in Nat \ {0}

VARIABLES
  circuits,        \* key -> openUntil
  throttleEvents   \* key -> the counted throttles, each the time and the call it hit

CircuitKeys ==
  {<<t>> : t \in Tokens}
    \cup {<<c.token, c.account>> : c \in Contexts}
    \cup {<<c.token, c.account, c.type>> : c \in Contexts}

circuitKey(ctx) == <<ctx.token, ctx.account, ctx.type>>

BreakerInit ==
  /\ circuits = [k \in CircuitKeys |-> 0]
  /\ throttleEvents = [k \in CircuitKeys |-> {}]

\* A circuit concerns a context when its parts begin the context's own key.
RelevantCircuits(ctx) ==
  {k \in CircuitKeys : k = SubSeq(circuitKey(ctx), 1, Len(k))}

Blocked(ctx) == \E k \in RelevantCircuits(ctx) : circuits[k] > now

\* The sweep as a bug would have it: a circuit is dropped one tick early.
MutAssertClosed(ctx) ==
  /\ ~ Blocked(ctx)
  /\ circuits' = [k \in CircuitKeys |-> IF circuits[k] <= now + 1 THEN 0 ELSE circuits[k]]
  /\ UNCHANGED throttleEvents

(***************************************************************************)
(* assertClosed returns, having swept every expired circuit.  When it      *)
(* throws instead (Blocked) it changes nothing.                            *)
(***************************************************************************)
AssertClosed(ctx) ==
  /\ ~ Blocked(ctx)
  /\ circuits' = [k \in CircuitKeys |-> IF circuits[k] <= now THEN 0 ELSE circuits[k]]
  /\ UNCHANGED throttleEvents

\* openCircuit as a bug would have it: the latest signal always wins.
MutShrinkingOpen(key, until) == [circuits EXCEPT ![key] = until]

\* openCircuit: an existing cool-down is never shortened.
OpenCircuit(key, until) ==
  IF circuits[key] > until THEN circuits ELSE [circuits EXCEPT ![key] = until]

\* The cool-down a class asks for by itself; 0 when the throttle is only counted.
CoolDownOf(class) ==
  IF class.category = "abuse_signal" THEN AbuseCooldown
  ELSE IF class.category = "temporary_block"
       THEN IF class.hint > 0 THEN class.hint ELSE BlockCooldown
       ELSE class.hint

Recent(key) == {e \in throttleEvents[key] : now - e.at < ThrottleWindow}

\* Counting as a bug would have it: the threshold is only passed, never met.
MutCountThrottle(key, call) ==
  LET recent == Recent(key) \cup {[at |-> now, by |-> call]} IN
  IF Cardinality(recent) > ThrottleThreshold
  THEN /\ circuits' = OpenCircuit(key, now + RepeatedCooldown)
       /\ throttleEvents' = [throttleEvents EXCEPT ![key] = {}]
  ELSE /\ throttleEvents' = [throttleEvents EXCEPT ![key] = recent]
       /\ UNCHANGED circuits

\* Counting as a bug would have it: an event is kept by its expiry, not by its time.
MutStampExpiry(key, call) ==
  LET recent == Recent(key) \cup {[at |-> now + ThrottleWindow, by |-> call]} IN
  IF Cardinality(recent) >= ThrottleThreshold
  THEN /\ circuits' = OpenCircuit(key, now + RepeatedCooldown)
       /\ throttleEvents' = [throttleEvents EXCEPT ![key] = {}]
  ELSE /\ throttleEvents' = [throttleEvents EXCEPT ![key] = recent]
       /\ UNCHANGED circuits

\* Without a hint, the throttle counts towards the threshold of its key.
CountThrottle(key, call) ==
  LET recent == Recent(key) \cup {[at |-> now, by |-> call]} IN
  IF Cardinality(recent) >= ThrottleThreshold
  THEN /\ circuits' = OpenCircuit(key, now + RepeatedCooldown)
       /\ throttleEvents' = [throttleEvents EXCEPT ![key] = {}]
  ELSE /\ throttleEvents' = [throttleEvents EXCEPT ![key] = recent]
       /\ UNCHANGED circuits

\* trip, for the throttled error that ended a call.
Trip(ctx, class, call) ==
  IF CoolDownOf(class) > 0
  THEN /\ circuits' = OpenCircuit(circuitKey(ctx), now + CoolDownOf(class))
       /\ UNCHANGED throttleEvents
  ELSE IF class.throttled
       THEN CountThrottle(circuitKey(ctx), call)
       ELSE UNCHANGED <<circuits, throttleEvents>>
=============================================================================
