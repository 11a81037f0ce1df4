CONSTANTS
    b1 = b1
    b2 = b2
    b3 = b3
    anchor = anchor
    Blocks <- MC_Blocks
    Anchor <- anchor
    MaxCrashes = 2
SYMMETRY MC_Symmetry
SPECIFICATION Spec
INVARIANT TypeOK
INVARIANT PersistentRingSound
INVARIANT RingDoublyLinked
PROPERTY RefinesTrackedAlloc
