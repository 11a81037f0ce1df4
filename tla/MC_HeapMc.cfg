\* Two entries and one table segment; a 6-word pool that grows once by 2.
\* The pool holds the two values (1 or 2 words each) and the ccpm heap's own
\* word, so a replace or an extend may find the space short until it grows.
CONSTANTS
    e1 = e1
    e2 = e2
    g1 = g1
    Entries <- MC_Entries
    Segs <- MC_Segs
    NBlocks = 4
    Sizes = {1, 2}
    SegSize = 2
    Overhead = 1
    Capacity0 = 6
    Increments = {2}
    MaxCapacity = 8
    MaxCrashes = 2
SPECIFICATION Spec
INVARIANT HeapMatchesClient
