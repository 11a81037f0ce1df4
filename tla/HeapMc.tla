------------------------------- MODULE HeapMc -------------------------------
(***************************************************************************)
(* The crash-consistent hstore heap of the HEAP_CONSISTENT, HEAP_MM      *)
(* build (hstore/src/heap_mc.cpp, allocator_cc.h, deallocator_cc.h) and   *)
(* the allocation intents that bracket its use.                           *)
(*                                                                         *)
(* A client slot is a persistent pointer the client owns: an entry's value *)
(* pointer, its new_value pointer, or a hash-table segment pointer.  The   *)
(* ccpm heap (not in this repository) writes the new block into the slot   *)
(* it is given and nulls the slot it frees, crash-consistently; blocks are *)
(* identified by small numbers and sized in words, so the rounding of      *)
(* heap_mc::alloc to the (word) alignment changes nothing.                 *)
(*                                                                         *)
(* heap_mc::alloc records the slot in the armed extend intent, else in the *)
(* armed emplace intent.  heap_mc::free hands the slot to                  *)
(* heap_mc_ephemeral::free, which is not in this repository: it is taken   *)
(* to free the block through ccpm (spec 3.5) and to record nothing.  The   *)
(* intent records (as_emplace.h, as_extend.h) and the client (hstore's     *)
(* Replace and the extend of its table) are not in this repository and     *)
(* follow spec 4.4-4.6.  The pin intents are left out: the client below    *)
(* never allocates under a pin.                                            *)
(*                                                                         *)
(* The process may crash at any point; restart runs intent recovery and    *)
(* reconstitutes the heap.                                                 *)
(***************************************************************************)
EXTENDS Naturals, FiniteSets, FiniteSetsExt

CONSTANTS
    Entries,      \* keys whose values the client replaces
    Segs,         \* hash-table segment pointers an extend fills
    NBlocks,      \* block identities the heap can hand out
    Sizes,        \* value sizes (words)
    SegSize,      \* size of a table segment (words)
    Overhead,     \* words the empty ccpm heap uses itself
    Capacity0,    \* size(pool0_heap) (words)
    Increments,   \* region sizes heap_mc::grow adds (words)
    MaxCapacity,  \* bound on _capacity
    MaxCrashes    \* bound on crashes

Null == 0
Blocks == 1..NBlocks

Val(e) == [kind |-> "value", id |-> e]
New(e) == [kind |-> "new", id |-> e]
Seg(g) == [kind |-> "seg", id |-> g]
Slots == {Val(e) : e \in Entries} \cup {New(e) : e \in Entries} \cup {Seg(g) : g \in Segs}

Disarmed == [armed |-> FALSE, alloc |-> {}]

VARIABLES
    slot,       \* [Slots -> Blocks \cup {Null}]: persistent client pointers
    used,       \* [Blocks -> Nat]: ccpm's allocation state (0: free)
    ase,        \* the emplace intent record (persistent)
    asx,        \* the extend intent record (persistent)
    capacity,   \* _eph->_capacity
    cl,         \* the client's operation: [op, step, e, sz]
    xcl,        \* the extend the client runs, possibly inside a replace
    committed,  \* ghost: slots whose block the client has been handed for good
    crashes

vars == <<slot, used, ase, asx, capacity, cl, xcl, committed, crashes>>

Ops == {"idle", "replace", "down"}
NoX == [g |-> "none", step |-> "none"]

TypeOK ==
    /\ slot \in [Slots -> Blocks \cup {Null}]
    /\ used \in [Blocks -> Nat]
    /\ ase.armed \in BOOLEAN /\ ase.alloc \subseteq Slots
    /\ asx.armed \in BOOLEAN /\ asx.alloc \subseteq Slots
    /\ capacity \in Nat
    /\ cl.op \in Ops
    /\ committed \subseteq Slots
    /\ crashes \in 0..MaxCrashes

UsedWords == FoldFunctionOnSet(+, 0, used, Blocks)

(***************************************************************************)
(* A pool as heap_mc's reconstituting constructor leaves it: every entry's *)
(* value in a block of its own, no intent armed.                           *)
(***************************************************************************)
Init ==
    /\ \E sz \in [Entries -> Sizes], id \in [Entries -> Blocks] :
          /\ \A e1, e2 \in Entries : e1 # e2 => id[e1] # id[e2]
          /\ slot = [s \in Slots |-> IF s.kind = "value" THEN id[s.id] ELSE Null]
          /\ used = [b \in Blocks |-> IF \E e \in Entries : id[e] = b
                                      THEN sz[CHOOSE e \in Entries : id[e] = b] ELSE 0]
    /\ ase = Disarmed /\ asx = Disarmed
    /\ capacity = Capacity0
    /\ cl = [op |-> "idle", step |-> "none", e |-> CHOOSE e \in Entries : TRUE, sz |-> 0]
    /\ xcl = NoX
    /\ committed = {Val(e) : e \in Entries}
    /\ crashes = 0

-----------------------------------------------------------------------------
(***************************************************************************)
(* The heap's operations, used by the client's steps below.                *)
(***************************************************************************)
\* heap_mc::extend_arm/extend_disarm, emplace_arm/emplace_disarm (lines
\* 421-432); arming and disarming are single persistent stores (spec 4.4).
extend_arm     == asx' = [Disarmed EXCEPT !.armed = TRUE]
extend_disarm  == asx' = Disarmed
emplace_arm    == ase' = [Disarmed EXCEPT !.armed = TRUE]
emplace_disarm == ase' = Disarmed

\* alloc's routing with emplace tested before extend.
AllocRecord_emplace_first(s) ==
    IF ase.armed
      THEN /\ ase' = [ase EXCEPT !.alloc = @ \cup {s}] /\ UNCHANGED asx
    ELSE IF asx.armed
      THEN /\ asx' = [asx EXCEPT !.alloc = @ \cup {s}] /\ UNCHANGED ase
    ELSE UNCHANGED <<ase, asx>>

\* heap_mc::alloc, lines 349-376: the slot is recorded in the first armed
\* intent, extend before emplace; with none armed the allocation is leaky.
AllocRecord(s) ==
    IF asx.armed
      THEN /\ asx' = [asx EXCEPT !.alloc = @ \cup {s}] /\ UNCHANGED ase
    ELSE IF ase.armed
      THEN /\ ase' = [ase EXCEPT !.alloc = @ \cup {s}] /\ UNCHANGED asx
    ELSE UNCHANGED <<ase, asx>>

Fits(sz) == Overhead + UsedWords + sz <= capacity /\ \E b \in Blocks : used[b] = 0

(***************************************************************************)
(* heap_mc::alloc, lines 342-397, with allocator_cc::allocate (lines       *)
(* 71-86): after recording, ccpm writes a fresh block into the slot, or    *)
(* leaves it null / throws bad_alloc when the space is short (the caller   *)
(* sees the null slot and throws bad_alloc_cc).                           *)
(***************************************************************************)
alloc(s, sz) ==
    /\ AllocRecord(s)
    /\ IF Fits(sz)
         THEN LET b == Min({x \in Blocks : used[x] = 0})
              IN  /\ used' = [used EXCEPT ![b] = sz]
                  /\ slot' = [slot EXCEPT ![s] = b]
         ELSE UNCHANGED <<used, slot>>
    /\ UNCHANGED capacity

(***************************************************************************)
(* heap_mc::free (lines 399-404), reached through                          *)
(* deallocator_cc::deallocate (deallocator_cc.h:81-91): _eph->free has     *)
(* ccpm free the block and null the slot.                                  *)
(***************************************************************************)
free(s) ==
    /\ used' = [used EXCEPT ![slot[s]] = 0]
    /\ slot' = [slot EXCEPT ![s] = Null]

\* heap_mc::grow hands each new region to _eph->add_managed_region (lines
\* 256-259); the ephemeral heap's capacity grows by the region's size.
add_managed_region(inc) == capacity' = capacity + inc

-----------------------------------------------------------------------------
(***************************************************************************)
(* The client.  Replace (spec 4.5): arm emplace on &entry.new_value,       *)
(* allocate into it, swap it with the value pointer, free the old buffer   *)
(* (now in new_value), disarm.  A failed allocation unwinds through the    *)
(* guard that disarms.  An extend (spec 4.4, 4.6) fills a table segment    *)
(* under the extend intent, from idle or inside a replace before its       *)
(* allocation (an insert that grows the table).                            *)
(***************************************************************************)
Up == cl.op # "down"
Step(st) == cl' = [cl EXCEPT !.step = st]
Idle == [op |-> "idle", step |-> "none", e |-> cl.e, sz |-> 0]

replace_arm(e, sz) ==
    /\ cl.op = "idle" /\ xcl = NoX
    /\ emplace_arm
    /\ cl' = [op |-> "replace", step |-> "alloc", e |-> e, sz |-> sz]
    /\ UNCHANGED <<slot, used, asx, capacity, xcl, committed, crashes>>

replace_alloc ==
    /\ cl.op = "replace" /\ cl.step = "alloc" /\ xcl = NoX
    /\ alloc(New(cl.e), cl.sz)
    /\ Step(IF slot'[New(cl.e)] # Null THEN "swap" ELSE "unwind")
    /\ UNCHANGED <<xcl, committed, crashes>>

replace_swap ==
    /\ cl.op = "replace" /\ cl.step = "swap"
    /\ slot' = [slot EXCEPT ![Val(cl.e)] = slot[New(cl.e)],
                            ![New(cl.e)] = slot[Val(cl.e)]]
    /\ Step("free")
    /\ UNCHANGED <<used, ase, asx, capacity, xcl, committed, crashes>>

replace_free ==
    /\ cl.op = "replace" /\ cl.step = "free"
    /\ free(New(cl.e))
    /\ Step("disarm")
    /\ UNCHANGED <<ase, asx, capacity, xcl, committed, crashes>>

replace_disarm ==
    /\ cl.op = "replace" /\ cl.step \in {"disarm", "unwind"}
    /\ emplace_disarm
    /\ cl' = Idle
    /\ UNCHANGED <<slot, used, asx, capacity, xcl, committed, crashes>>

extend_start(g) ==
    /\ \/ cl.op = "idle"
       \/ cl.op = "replace" /\ cl.step = "alloc"
    /\ xcl = NoX /\ slot[Seg(g)] = Null
    /\ extend_arm
    /\ xcl' = [g |-> g, step |-> "alloc"]
    /\ UNCHANGED <<slot, used, ase, capacity, cl, committed, crashes>>

extend_alloc ==
    /\ Up /\ xcl.step = "alloc"
    /\ alloc(Seg(xcl.g), SegSize)
    /\ xcl' = [xcl EXCEPT !.step = "disarm"]
    /\ UNCHANGED <<cl, committed, crashes>>

\* The segment is the table's once the extend is disarmed.
extend_end ==
    /\ Up /\ xcl.step = "disarm"
    /\ extend_disarm
    /\ committed' = IF slot[Seg(xcl.g)] # Null THEN committed \cup {Seg(xcl.g)}
                    ELSE committed
    /\ xcl' = NoX
    /\ UNCHANGED <<slot, used, ase, capacity, cl, crashes>>

\* heap_mc::grow's heap side when the client runs short of space.
grow(inc) ==
    /\ cl.op = "idle" /\ xcl = NoX
    /\ capacity + inc <= MaxCapacity
    /\ add_managed_region(inc)
    /\ UNCHANGED <<slot, used, ase, asx, cl, xcl, committed, crashes>>

-----------------------------------------------------------------------------
crash ==
    /\ Up /\ crashes < MaxCrashes
    /\ cl' = [cl EXCEPT !.op = "down"] /\ xcl' = NoX
    /\ crashes' = crashes + 1
    /\ UNCHANGED <<slot, used, ase, asx, capacity, committed>>

\* Recovery of one intent record (spec 4.4): an armed record frees the
\* block in each slot it recorded an allocation for.
Undo(rec) == IF rec.armed THEN rec.alloc ELSE {}

(***************************************************************************)
(* Restart: intent recovery, then heap_mc's reconstituting constructor     *)
(* (lines 140-188), which rebuilds the ephemeral heap over the same        *)
(* regions, so _capacity is unchanged.                                     *)
(***************************************************************************)
restart ==
    /\ cl.op = "down"
    /\ LET undo  == Undo(ase) \cup Undo(asx)
           freed == {slot[s] : s \in undo} \ {Null}
           u     == [b \in Blocks |-> IF b \in freed THEN 0 ELSE used[b]]
       IN  /\ used' = u
           /\ slot' = [s \in Slots |-> IF s \in undo THEN Null ELSE slot[s]]
    /\ ase' = Disarmed /\ asx' = Disarmed
    /\ cl' = Idle
    /\ UNCHANGED <<capacity, xcl, committed, crashes>>

Next ==
    \/ \E e \in Entries, sz \in Sizes : replace_arm(e, sz)
    \/ replace_alloc \/ replace_swap \/ replace_free \/ replace_disarm
    \/ \E g \in Segs : extend_start(g)
    \/ extend_alloc \/ extend_end
    \/ \E inc \in Increments : grow(inc)
    \/ crash \/ restart

Spec == Init /\ [][Next]_vars

-----------------------------------------------------------------------------
(***************************************************************************)
(* Whenever the client is between operations, after any interleaving of   *)
(* replaces, extends nested in them, failed allocations, aborts, crashes   *)
(* and restarts with intent recovery, the heap holds exactly the blocks    *)
(* the client's committed pointers name, one block per pointer: recovery   *)
(* never frees a value or a table segment the client was handed, and       *)
(* never leaves behind a block it was not.  It depends on heap_mc::alloc   *)
(* recording in the extend intent before the emplace one (line 363).       *)
(***************************************************************************)
HeapMatchesClient ==
    (cl.op = "idle" /\ xcl = NoX) =>
        /\ \A s \in committed : slot[s] # Null /\ used[slot[s]] > 0
        /\ \A s1, s2 \in committed : s1 # s2 => slot[s1] # slot[s2]
        /\ \A b \in Blocks : used[b] > 0 => \E s \in committed : slot[s] = b

=============================================================================
