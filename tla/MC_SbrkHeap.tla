---------------------------- MODULE MC_SbrkHeap ----------------------------
\* A heap object at offset 16 of pool 1, with an area from 8 to 48 bytes
\* past it; a restore may be attempted with the oid of another pool.
EXTENDS SbrkHeap

MC_Oids == {[uuid |-> 1, off |-> 16], [uuid |-> 2, off |-> 16]}
=============================================================================
