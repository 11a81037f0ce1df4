------------------------- MODULE MC_HeapRcTracked --------------------------
(* Three heap blocks and two power failures: enough for a ring of three,   *)
(* a free from the middle of the ring, and a crash after a restart.        *)
EXTENDS HeapRcTracked, TLC

CONSTANTS b1, b2, b3, anchor

MC_Blocks == {b1, b2, b3}
MC_Symmetry == Permutations(MC_Blocks)
=============================================================================
