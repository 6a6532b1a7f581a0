---------------------------- MODULE MCPacedWrites ----------------------------
EXTENDS PacedWrites, TLC

CONSTANTS t1, a1

MCBucket == [token |-> t1, account |-> a1]
MCQuota == [development_access |-> 2, standard_access |-> 4]
MCCapacity == [development_access |-> 2, standard_access |-> 3]

CallSymmetry == Permutations(Calls)
=============================================================================
