---------------------------- MODULE TrackedAlloc ----------------------------
(***************************************************************************)
(* What the tracked allocations of heap_rc promise, without headers,       *)
(* rings or caches: a set of blocks the client holds, changed one block at *)
(* a time by alloc_tracked and free_tracked while the heap is up, and left *)
(* exactly as it was by a power failure and the restart that follows.      *)
(***************************************************************************)
CONSTANTS Blocks

VARIABLES
    held,   \* blocks allocated and not freed
    up      \* the heap is constructed and running

vars == <<held, up>>

Init == held = {} /\ up = TRUE

\* alloc_tracked (heap_rc.cpp:225-252) takes effect: a block not held is.
Alloc(b) ==
    /\ up = TRUE /\ b \notin held
    /\ held' = held \cup {b}
    /\ UNCHANGED up

\* free_tracked (heap_rc.cpp:294-325) takes effect: a held block is not.
Free(b) ==
    /\ up = TRUE /\ b \in held
    /\ held' = held \ {b}
    /\ UNCHANGED up

\* A power failure, and the reconstituting constructor (heap_rc.cpp:80-117).
Fail    == up = TRUE /\ up' = FALSE /\ UNCHANGED held
Restart == up = FALSE /\ up' = TRUE /\ UNCHANGED held

Next == (\E b \in Blocks : Alloc(b) \/ Free(b)) \/ Fail \/ Restart

Spec == Init /\ [][Next]_vars

=============================================================================
