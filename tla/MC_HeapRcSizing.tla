-------------------------- MODULE MC_HeapRcSizing ---------------------------
(* An 8-bit size_t: large enough for every size below, small enough that  *)
(* clp2 can be compared with its reference on every value, top bit        *)
(* included.  Three handles let a restart happen with a mix of tracked    *)
(* and untracked allocations held.                                        *)
EXTENDS HeapRcSizing, TLC

CONSTANTS h1, h2, h3

MC_Handles == {h1, h2, h3}
MC_Symmetry == Permutations(MC_Handles)
=============================================================================
