-------------------------- MODULE MCBreakerHistory --------------------------
EXTENDS BreakerHistory, TLC

\* One error of each throttling rule of classifyMetaError, and two that throttle nothing.
MCErrors ==
  {[code |-> 613, subcode |-> 1996], [code |-> 368, subcode |-> 0],
   [code |-> 4, subcode |-> 1504022], [code |-> 4, subcode |-> 0],
   [code |-> 80004, subcode |-> 0], [code |-> 190, subcode |-> 0],
   [code |-> 100, subcode |-> 1487534]}

\* The calls are interchangeable.
CallSymmetry == Permutations(Calls)
=============================================================================
