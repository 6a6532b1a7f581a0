---------------------------- MODULE MCCloneBundle ----------------------------
EXTENDS CloneBundle, TLC

CONSTANTS r1, r2, r3

\* Two executions retry one payload under the key, a third has another.
MCSignature == (r1 :> "a") @@ (r2 :> "a") @@ (r3 :> "b")

\* Two executions of one payload.
MCTwoRuns == (r1 :> "a") @@ (r2 :> "a")
=============================================================================
