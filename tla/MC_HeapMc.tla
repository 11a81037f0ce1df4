------------------------------ MODULE MC_HeapMc ------------------------------
EXTENDS HeapMc

CONSTANTS e1, e2, g1

MC_Entries == {e1, e2}
MC_Segs == {g1}
=============================================================================
