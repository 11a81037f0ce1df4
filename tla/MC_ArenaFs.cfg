\* Region r1 holds a heap that heap_mc::grow extends; region r2 is resized
\* (grown and shrunk) by another client.  Both share a 6 MiB disk.
CONSTANTS
    r1 = r1
    r2 = r2
    Ids <- MC_Ids
    HeapIds = {r1}
    Sizes = {1, 2}
    ResizeSizes = {2, 4}
    Increments = {1, 2}
    DiskSize = 6
    MaxCrashes = 2
SPECIFICATION Spec
INVARIANT TypeOK
INVARIANT MappedWithinFile
 
