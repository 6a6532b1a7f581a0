------------------------------- MODULE Clock -------------------------------
(***************************************************************************)
(* Date.now() as the modules read it: one clock, in ticks, shared by every *)
(* component of a process (and, through the store, by every process).  A   *)
(* timer armed for a deadline may fire at any tick from that deadline on.  *)
(***************************************************************************)
EXTENDS Naturals

CONSTANT MaxTime    \* bound: the clock stops here in a model-checking run

ASSUME MaxTimeAssumption == MaxTime \in Nat

VARIABLE now

ClockInit == now = 1

\* Time passes; what else changes is the composing module's concern.
Tick == now < MaxTime /\ now' = now + 1
============================================================================
