------------------------------ MODULE CoolDown ------------------------------
(***************************************************************************)
(* What the circuit breaker promises its callers, with nothing of how: a   *)
(* key is silent until a deadline, a deadline only ever moves later, and   *)
(* it ends by the passage of time and by nothing else.                     *)
(***************************************************************************)
EXTENDS Clock

CONSTANTS Keys, LongestCoolDown

VARIABLE silentUntil    \* key -> deadline, 0 when the key is not silenced

Init == ClockInit /\ silentUntil = [k \in Keys |-> 0]

Silence(k, d) ==
  /\ silentUntil' = [silentUntil EXCEPT ![k] = IF @ > now + d THEN @ ELSE now + d]
  /\ UNCHANGED now

Elapse ==
  /\ Tick
  /\ silentUntil' = [k \in Keys |-> IF silentUntil[k] > now' THEN silentUntil[k] ELSE 0]

Next == Elapse \/ \E k \in Keys, d \in 1..LongestCoolDown : Silence(k, d)

Spec == Init /\ [][Next]_<<now, silentUntil>>
=============================================================================
