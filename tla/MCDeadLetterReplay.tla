------------------------- MODULE MCDeadLetterReplay -------------------------
EXTENDS DeadLetterReplay, TLC
CONSTANTS r1, r2, r3, p1, p2
OneEndpoint == [d \in Entries |-> p1]
TwoEndpoints == [d \in Entries |-> IF d = 1 THEN p1 ELSE p2]
RequestSymmetry == Permutations(Requests)
=============================================================================
