------------------------------ MODULE SbrkHeap ------------------------------
(***************************************************************************)
(* sbrk_offset_heap (hstore/src/heap_co.h), the heap of the HEAP_OID       *)
(* build: a bump allocator whose persistent end is double-buffered in      *)
(* _bounds[0..1], the live one chosen by _sw.  The object lives in the     *)
(* pool, so its fields survive a restart of the process; the constructor   *)
(* either initialises it (zeroed memory, no matching oid) or restores it.   *)
(*                                                                         *)
(* Offsets are bytes from the pool base, as a PMEMoid's off is.  The       *)
(* heap object sits at oid.off; start_ and sz_ are the start and the size  *)
(* of its area, relative to the object (the constructor asserts            *)
(* start_ <= sz_).  persist() is a no-op template and free() does nothing; *)
(* power failure is outside what the heap claims (is_crash_consistent is   *)
(* false), so a crash here is a process crash, which loses no store.       *)
(***************************************************************************)
EXTENDS Integers

CONSTANTS
    Oids,        \* the oids a caller may pass, records [uuid, off]
    Start,       \* start_
    Size,        \* sz_
    Requests,    \* request sizes passed to malloc
    Width,       \* bits of std::size_t in the model
    MaxMallocs,  \* bound on the number of mallocs
    MaxCrashes   \* bound on process crashes

ZeroOid == [uuid |-> 0, off |-> 0]

VARIABLES
    oid,      \* _oid, in the pool
    sw,       \* _sw, in the pool
    start,    \* _start, in the pool
    size,     \* _size, in the pool
    bounds,   \* _bounds[0.._1]._end, in the pool
    live,     \* an sbrk_offset_heap object is constructed over the pool
    blocks,   \* ghost: the blocks malloc has returned, [off, len]
    mallocs,  \* ghost: mallocs so far (bounded)
    crashes   \* ghost: process crashes so far (bounded)

vars == <<oid, sw, start, size, bounds, live, blocks, mallocs, crashes>>

Word(n) == n % (2^Width)

\* A fresh pool: the area is zeroed (line 77).
Init ==
    /\ oid = ZeroOid /\ sw = 0 /\ start = 0 /\ size = 0
    /\ bounds = <<0, 0>>
    /\ live = FALSE
    /\ blocks = {} /\ mallocs = 0 /\ crashes = 0

\* bound::end/set, current(), other(), limit() (lines 38-50); _bounds is
\* indexed from 0 in the code and from 1 here.
current == bounds[sw + 1]
other == 1 - sw + 1
limit == size
match(o) == oid.uuid = o.uuid /\ oid.off = o.off

(***************************************************************************)
(* The constructor sbrk_offset_heap(oid_, sz_, start_) (lines 68-94): on a *)
(* pool whose stored oid differs, one-time initialisation; else restore(), *)
(* which cannot throw since the oid matches.                               *)
(***************************************************************************)
create(o) ==
    /\ ~live
    /\ \/ /\ ~match(o)
          /\ start' = Start + o.off
          /\ size' = Size
          /\ bounds' = [bounds EXCEPT ![1] = Start + o.off]
          /\ sw' = 0
          /\ oid' = o
          /\ blocks' = {}
       \/ /\ match(o)
          /\ UNCHANGED <<oid, sw, start, size, bounds, blocks>>
    /\ live' = TRUE
    /\ UNCHANGED <<mallocs, crashes>>

\* The constructor sbrk_offset_heap(oid_) (lines 96-105): restore() throws
\* unless the stored oid matches, and no heap is constructed.
restore(o) ==
    /\ ~live
    /\ live' = match(o)
    /\ UNCHANGED <<oid, sw, start, size, bounds, blocks, mallocs, crashes>>

(***************************************************************************)
(* malloc (lines 108-123): round up to 8 bytes; fail with a null oid if    *)
(* the space left, limit() - current()._end in std::size_t, is short;      *)
(* else write the new end to the other bound, flip _sw and return          *)
(* _start + p.  The assert of line 120 cannot fire at the model's sizes.   *)
(***************************************************************************)
malloc(n) ==
    LET sz == ((n + 7) \div 8) * 8
        p  == current
    IN  /\ live
        /\ mallocs < MaxMallocs
        /\ mallocs' = mallocs + 1
        /\ \/ /\ Word(limit - current) < sz
              /\ UNCHANGED <<sw, bounds, blocks>>
           \/ /\ ~(Word(limit - current) < sz)
              /\ bounds' = [bounds EXCEPT ![other] = p + sz]
              /\ sw' = 1 - sw
              /\ blocks' = blocks \cup {[off |-> start + p, len |-> sz]}
        /\ UNCHANGED <<oid, start, size, live, crashes>>

\* The process dies; the heap's fields are in the pool and survive.
crash ==
    /\ live
    /\ crashes < MaxCrashes
    /\ live' = FALSE
    /\ crashes' = crashes + 1
    /\ UNCHANGED <<oid, sw, start, size, bounds, blocks, mallocs>>

Next ==
    \/ \E o \in Oids : create(o) \/ restore(o)
    \/ \E n \in Requests : malloc(n)
    \/ crash

Spec == Init /\ [][Next]_vars

(***************************************************************************)
(* Every block malloc returns lies inside the heap's area: from start_ to  *)
(* sz_ bytes past the heap object at oid.off (the comment on _start, line  *)
(* 44, and the constructor's assert start_ <= sz_, line 78).  A block      *)
(* outside it overlaps other objects of the pool.                          *)
(***************************************************************************)
BlocksInArea ==
    \A b \in blocks :
        /\ oid.off + Start <= b.off
        /\ b.off + b.len <= oid.off + Size

=============================================================================
