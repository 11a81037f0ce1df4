--------------------------- MODULE MC_FabricServer ---------------------------
EXTENDS FabricServer, TLC

CONSTANTS c1, c2, c3

MC_Clients == {c1, c2, c3}
MC_Symmetry == Permutations(MC_Clients)
=============================================================================
