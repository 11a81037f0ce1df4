--------------------------- MODULE HeapRcTracked ---------------------------
(***************************************************************************)
(* The tracked-allocation list of the reconstituting heap (heap_rc.cpp).   *)
(*                                                                         *)
(* Every tracked allocation carries a tracked_header {prev, next} placed   *)
(* just before the pointer handed to the client; the headers form a       *)
(* doubly linked ring through _tracked_anchor, which lives in the pool     *)
(* header.  Only the ring of "next" pointers is flushed: the code says     *)
(* "_prev, need not flush".  After a restart the reconstituting            *)
(* constructor walks the ring from the anchor and re-injects every block   *)
(* into the volatile allocator (Rca_LB).                                   *)
(*                                                                         *)
(* Persistent memory is modelled per cell: `cache` is what the CPU reads,  *)
(* `pmem` what survives a power failure.  persister_nupm::persist copies   *)
(* a cell from cache to pmem; the hardware may also write back any dirty   *)
(* cell at any moment (Evict).  A crash discards the cache.  The heap is   *)
(* serialised (one operation at a time, the heap mutex of the spec), but   *)
(* a crash may fall between any two steps of an operation.                 *)
(***************************************************************************)
EXTENDS Naturals, Sequences, SequencesExt, FiniteSets

CONSTANTS
    Blocks,      \* heap blocks Rca_LB can hand out (model values)
    Anchor,      \* the _tracked_anchor in the pool header
    MaxCrashes   \* bound on power failures in one behaviour

ASSUME Anchor \notin Blocks
ASSUME MaxCrashes \in Nat

Nodes  == Blocks \cup {Anchor}
Fields == {"next", "prev"}
Header == [next : Nodes, prev : Nodes]

VARIABLES
    cache,    \* [Nodes -> Header]: headers as the running process sees them
    pmem,     \* [Nodes -> Header]: headers as they are on the media
    eph,      \* blocks Rca_LB (volatile) considers allocated
    pc,       \* step of the operation in progress
    cur,      \* the block that operation works on
    live,     \* blocks alloc_tracked returned and free_tracked not yet took
    status,   \* "running", "crashed", or "corrupt" (reconstitution aborted)
    crashes   \* power failures so far

vars == <<cache, pmem, eph, pc, cur, live, status, crashes>>

Steps == {"idle", "link_prev", "link_next", "unlink_next", "release"}

(***************************************************************************)
(* Walking the ring of next pointers from the anchor, as reconstitution   *)
(* does.  The walk stops at the anchor (a closed ring) or at a block met   *)
(* twice (a corrupt ring).                                                 *)
(***************************************************************************)
RECURSIVE WalkFrom(_, _, _)
WalkFrom(mem, n, path) ==
    IF n = Anchor THEN [path |-> path, closed |-> TRUE]
    ELSE IF n \in ToSet(path) THEN [path |-> path, closed |-> FALSE]
    ELSE WalkFrom(mem, mem[n].next, Append(path, n))

Walk(mem) == WalkFrom(mem, mem[Anchor].next, <<>>)

Ring(mem) == ToSet(Walk(mem).path)

\* The headers rebuilt from a closed ring: each prev is the ring predecessor.
Relinked(mem) ==
    LET p == Walk(mem).path
        n == Len(p)
        Pred(i) == IF i = 1 THEN Anchor ELSE p[i - 1]
    IN  [x \in Nodes |->
           IF x = Anchor
             THEN [mem[x] EXCEPT !.prev = IF n = 0 THEN Anchor ELSE p[n]]
           ELSE IF \E i \in 1..n : p[i] = x
             THEN [mem[x] EXCEPT !.prev = Pred(CHOOSE i \in 1..n : p[i] = x)]
           ELSE mem[x]]

Store(mem, n, f, v) == [mem EXCEPT ![n][f] = v]

TypeOK ==
    /\ cache \in [Nodes -> Header]
    /\ pmem \in [Nodes -> Header]
    /\ eph \subseteq Blocks
    /\ pc \in Steps
    /\ cur \in Nodes
    /\ live \subseteq Blocks
    /\ status \in {"running", "crashed", "corrupt"}
    /\ crashes \in 0..MaxCrashes

(***************************************************************************)
(* heap_rc(...) "new" constructor: the anchor points at itself and the     *)
(* whole object is persisted.  The bytes of the blocks are whatever the    *)
(* region held: any header value at all.                                   *)
(***************************************************************************)
Init ==
    /\ pmem \in {m \in [Nodes -> Header] :
                    m[Anchor] = [next |-> Anchor, prev |-> Anchor]}
    /\ cache = pmem
    /\ eph = {}
    /\ pc = "idle"
    /\ cur = Anchor
    /\ live = {}
    /\ status = "running"
    /\ crashes = 0

Running == status = "running"

(***************************************************************************)
(* alloc_tracked, lines 226-235: _eph->allocate hands out a free block;    *)
(* the header {prev = anchor, next = anchor._next} is constructed in it    *)
(* and persisted.  The size arithmetic is in HeapRcSizing.                 *)
(***************************************************************************)
alloc_tracked_header(b) ==
    /\ Running /\ pc = "idle"
    /\ b \notin eph
    /\ LET h == [next |-> cache[Anchor].next, prev |-> Anchor]
       IN  /\ cache' = [cache EXCEPT ![b] = h]
           /\ pmem' = [pmem EXCEPT ![b] = h]
    /\ eph' = eph \cup {b}
    /\ pc' = "link_prev" /\ cur' = b
    /\ UNCHANGED <<live, status, crashes>>

\* line 237: _tracked_anchor._next->_prev = h, not flushed.
alloc_tracked_link_prev ==
    /\ Running /\ pc = "link_prev"
    /\ cache' = Store(cache, cache[Anchor].next, "prev", cur)
    /\ pc' = "link_next"
    /\ UNCHANGED <<pmem, eph, cur, live, status, crashes>>

\* The same step with the flush of _tracked_anchor._next left out.
alloc_tracked_link_next_unflushed ==
    /\ Running /\ pc = "link_next"
    /\ cache' = Store(cache, Anchor, "next", cur)
    /\ pmem' = pmem
    /\ live' = live \cup {cur}
    /\ pc' = "idle" /\ cur' = Anchor
    /\ UNCHANGED <<eph, status, crashes>>

(***************************************************************************)
(* lines 238-252: _tracked_anchor._next = h, persisted; h + 1 is returned  *)
(* to the client.                                                          *)
(***************************************************************************)
alloc_tracked_link_next ==
    /\ Running /\ pc = "link_next"
    /\ cache' = Store(cache, Anchor, "next", cur)
    /\ pmem' = Store(pmem, Anchor, "next", cur)
    /\ live' = live \cup {cur}
    /\ pc' = "idle" /\ cur' = Anchor
    /\ UNCHANGED <<eph, status, crashes>>

\* free_tracked, line 316: h->_next->_prev = h->_prev, not flushed.
free_tracked_unlink_prev(b) ==
    /\ Running /\ pc = "idle"
    /\ b \in live
    /\ cache' = Store(cache, cache[b].next, "prev", cache[b].prev)
    /\ live' = live \ {b}
    /\ pc' = "unlink_next" /\ cur' = b
    /\ UNCHANGED <<pmem, eph, status, crashes>>

\* lines 317-318: h->_prev->_next = h->_next, persisted.
free_tracked_unlink_next ==
    /\ Running /\ pc = "unlink_next"
    /\ LET p == cache[cur].prev
       IN  /\ cache' = Store(cache, p, "next", cache[cur].next)
           /\ pmem' = Store(pmem, p, "next", cache[cur].next)
    /\ pc' = "release"
    /\ UNCHANGED <<eph, cur, live, status, crashes>>

\* lines 320-324: the block goes back to Rca_LB.
free_tracked_release ==
    /\ Running /\ pc = "release"
    /\ eph' = eph \ {cur}
    /\ pc' = "idle" /\ cur' = Anchor
    /\ UNCHANGED <<cache, pmem, live, status, crashes>>

\* A dirty cache line is written back by the hardware.
Evict(n, f) ==
    /\ Running
    /\ cache[n][f] # pmem[n][f]
    /\ pmem' = Store(pmem, n, f, cache[n][f])
    /\ UNCHANGED <<cache, eph, pc, cur, live, status, crashes>>

\* Power failure: caches and every volatile structure are lost.
Crash ==
    /\ Running
    /\ crashes < MaxCrashes
    /\ status' = "crashed"
    /\ crashes' = crashes + 1
    /\ cache' = pmem
    /\ eph' = {}
    /\ pc' = "idle" /\ cur' = Anchor
    /\ UNCHANGED <<pmem, live>>

\* Reconstitution that re-injects the ring but keeps the prev pointers found.
recover_keep_prev ==
    /\ status = "crashed"
    /\ IF Walk(pmem).closed
         THEN /\ status' = "running"
              /\ cache' = pmem
              /\ eph' = Ring(pmem)
              /\ live' = Ring(pmem)
         ELSE /\ status' = "corrupt"
              /\ UNCHANGED <<cache, eph, live>>
    /\ UNCHANGED <<pmem, pc, cur, crashes>>

\* Reconstitution whose walk counts the anchor as a block and injects it.
recover_inject_anchor ==
    /\ status = "crashed"
    /\ IF Walk(pmem).closed
         THEN /\ status' = "running"
              /\ cache' = Relinked(pmem)
              /\ eph' = Ring(pmem) \cup {Anchor}
              /\ live' = Ring(pmem)
         ELSE /\ status' = "corrupt"
              /\ UNCHANGED <<cache, eph, live>>
    /\ UNCHANGED <<pmem, pc, cur, crashes>>

(***************************************************************************)
(* The reconstituting constructor, heap_rc.cpp lines 80-117, and           *)
(* _tracked_anchor.recover (whose code is not in this repository): walk    *)
(* the ring, inject every block into Rca_LB, and rebuild the unflushed     *)
(* prev pointers.  A ring that does not close is Corruption: abort.        *)
(* After the restart the client holds exactly what was reconstituted.      *)
(***************************************************************************)
recover ==
    /\ status = "crashed"
    /\ IF Walk(pmem).closed
         THEN /\ status' = "running"
              /\ cache' = Relinked(pmem)
              /\ eph' = Ring(pmem)
              /\ live' = Ring(pmem)
         ELSE /\ status' = "corrupt"
              /\ UNCHANGED <<cache, eph, live>>
    /\ UNCHANGED <<pmem, pc, cur, crashes>>

Next ==
    \/ \E b \in Blocks : alloc_tracked_header(b)
    \/ alloc_tracked_link_prev
    \/ alloc_tracked_link_next
    \/ \E b \in Blocks : free_tracked_unlink_prev(b)
    \/ free_tracked_unlink_next
    \/ free_tracked_release
    \/ \E n \in Nodes, f \in Fields : Evict(n, f)
    \/ Crash
    \/ recover

Spec == Init /\ [][Next]_vars

-----------------------------------------------------------------------------
(***************************************************************************)
(* Crash consistency of the ring (spec 3.3', 4.3 RC flavor).  Whatever     *)
(* has reached the media right now, a restart would find a closed ring     *)
(* holding every block the client holds, plus at most the block of the     *)
(* operation in progress, and no block Rca_LB has taken back.  Breaking it *)
(* takes a store reaching the media in the wrong order: an unflushed link, *)
(* a header persisted after it is linked, a block released while still on  *)
(* the persistent ring.                                                    *)
(***************************************************************************)
PersistentRingSound ==
    Running =>
        /\ Walk(pmem).closed
        /\ live \subseteq Ring(pmem)
        /\ Ring(pmem) \subseteq live \cup ({cur} \cap Blocks)
        /\ Ring(pmem) \subseteq eph

(***************************************************************************)
(* Spec 3.3': between operations the running ring is doubly linked, and    *)
(* it is exactly the set of blocks the client holds: A.next.prev = A and   *)
(* A.prev.next = A.  The prev pointers are never flushed, so after a       *)
(* restart this holds only if reconstitution repairs them; free_tracked    *)
(* trusts h->_prev.                                                        *)
(***************************************************************************)
RingDoublyLinked ==
    (Running /\ pc = "idle") =>
        /\ Walk(cache).closed
        /\ Ring(cache) = live
        /\ \A n \in Ring(cache) \cup {Anchor} :
              /\ cache[cache[n].next].prev = n
              /\ cache[cache[n].prev].next = n

-----------------------------------------------------------------------------
(***************************************************************************)
(* Refinement of TrackedAlloc.  The client's set of blocks is live, plus   *)
(* the block a free_tracked has unlinked in cache but not yet on the media *)
(* (its free takes effect at the persisted unlink, line 318; an alloc      *)
(* takes effect at the persisted link, line 238).  While the heap is down  *)
(* the set is what the media's ring holds: what a restart will give back.  *)
(***************************************************************************)
HeldAbs ==
    IF Running THEN live \cup (IF pc = "unlink_next" THEN {cur} ELSE {})
    ELSE Ring(pmem)

Abstract == INSTANCE TrackedAlloc WITH held <- HeldAbs, up <- Running

\* Every behaviour of heap_rc's tracked allocation, crashes and restarts
\* included, is one TrackedAlloc allows: allocations and frees take effect
\* one block at a time, and a power failure followed by reconstitution
\* neither loses a block the client holds nor brings back a freed one.
RefinesTrackedAlloc == Abstract!Spec

=============================================================================
