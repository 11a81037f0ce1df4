CONSTANTS
    r1 = r1
    r2 = r2
    Ids <- MC_Ids
    HeapIds = {r1}
    Sizes = {2}
    ResizeSizes = {}
    Increments = {2}
    DiskSize = 6
    MaxCrashes = 1
SPECIFICATION Spec
INVARIANT CommittedOpenable
