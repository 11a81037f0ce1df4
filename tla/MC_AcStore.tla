----------------------------- MODULE MC_AcStore -----------------------------
EXTENDS AcStore

CONSTANTS u0, u1, u2, pool1, key1, val1, none

MC_Auths == {u0, u1, u2}
MC_Named == {u1, u2}
MC_Symmetry == Permutations(MC_Named)

=============================================================================
