\* Pointer-sized and smaller alignment requests, the ones hstore makes by default.
CONSTANTS
    h1 = h1
    h2 = h2
    h3 = h3
    Handles <- MC_Handles
    Width = 8
    PtrSize = 8
    HeaderSize = 32
    Sizes = {0, 3, 20, 40}
    Aligns = {0, 8}
SYMMETRY MC_Symmetry
SPECIFICATION Spec
INVARIANT TypeOK
INVARIANT Clp2Correct
INVARIANT AccountingExact
