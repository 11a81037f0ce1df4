----------------------------- MODULE MC_ArenaFs -----------------------------
EXTENDS ArenaFs

CONSTANTS r1, r2

MC_Ids == {r1, r2}
=============================================================================
