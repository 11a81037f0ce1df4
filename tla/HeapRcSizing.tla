---------------------------- MODULE HeapRcSizing ----------------------------
(***************************************************************************)
(* The size and alignment arithmetic of the reconstituting heap            *)
(* (heap_rc.cpp) and the byte count Rca_LB keeps because of it.            *)
(*                                                                         *)
(* The client (hstore) allocates with (size, alignment) and later frees    *)
(* with the same pair; after a restart it re-declares every untracked      *)
(* allocation with inject_allocation(p, size), and tracked allocations are *)
(* re-injected from their headers.  Each entry point recomputes the size   *)
(* it passes to Rca_LB from the pair it is given; Rca_LB trusts it.        *)
(* size_t arithmetic is taken modulo 2^Width.                              *)
(***************************************************************************)
EXTENDS Integers, FiniteSets, FiniteSetsExt, Bitwise

CONSTANTS
    Width,       \* bits in size_t (64 in the build; small here)
    PtrSize,     \* sizeof(void *)
    HeaderSize,  \* sizeof(tracked_header): four pointer-sized fields
    Handles,     \* allocations the client can hold at once
    Sizes,       \* requested sizes
    Aligns       \* requested alignments

ASSUME Width \in Nat \ {0}
ASSUME Sizes \cup Aligns \subseteq 0..(2^Width - 1)

Word(x) == x % (2^Width)

(***************************************************************************)
(* clp2, lines 150-164: round up to a power of two by smearing the bits    *)
(* of sz - 1 rightwards (Hacker's Delight 3-2).  clp2(0) is 1.             *)
(***************************************************************************)
clp2_unshifted(sz) ==
    LET x1 == sz | shiftR(sz, 1)
        x2 == x1 | shiftR(x1, 2)
        x3 == x2 | shiftR(x2, 4)
        x4 == x3 | shiftR(x3, 8)
        x5 == x4 | shiftR(x4, 16)
        x6 == x5 | shiftR(x5, 32)
    IN  Word(x6 + 1)

clp2(sz) ==
    IF sz = 0 THEN 1
    ELSE LET s  == sz - 1
             x1 == s | shiftR(s, 1)
             x2 == x1 | shiftR(x1, 2)
             x3 == x2 | shiftR(x2, 4)
             x4 == x3 | shiftR(x3, 8)
             x5 == x4 | shiftR(x4, 16)
             x6 == x5 | shiftR(x5, 32)
         IN  Word(x6 + 1)

\* Reference: the least power of two not below sz, 0 once it leaves size_t.
Clp2Reference(sz) ==
    IF sz = 0 THEN 1
    ELSE LET p == CHOOSE k \in 0..Width : 2^k >= sz /\ (k = 0 \/ 2^(k-1) < sz)
         IN  Word(2^p)

Larger(a, b) == IF a >= b THEN a ELSE b

\* clean_align.h is not in this repository; spec 4.3 and 8: raise to the
\* minimum, then round up to a power of two.
clean_align(a, m) == clp2(Larger(a, m))

RoundUp(x, a) == Word((Word(x + a - 1) \div a) * a)

\* alloc with the raise of the alignment to sizeof(void *) at line 182 left out.
alloc_size_unraised(sz_, align_) ==
    LET align0 == clean_align(align_, PtrSize)
        small  == sz_ < align0
        sz1    == IF small THEN clp2(sz_) ELSE sz_
        align  == IF small THEN sz1 ELSE align0
    IN  RoundUp(sz1, align)

\* heap_rc::alloc, lines 167-186: the size handed to Rca_LB.
alloc_size(sz_, align_) ==
    LET align0 == clean_align(align_, PtrSize)
        small  == sz_ < align0
        sz1    == IF small THEN clp2(sz_) ELSE sz_
        align  == IF small THEN Larger(PtrSize, sz1) ELSE align0
    IN  RoundUp(sz1, align)

\* heap_rc::free, lines 284-291.
free_size(sz_, align_) ==
    LET align == clean_align(align_, PtrSize)
    IN  RoundUp(Larger(sz_, align), align)

\* inject_allocation without the raise to the minimum size of line 276.
inject_size_unclamped(sz_) == RoundUp(sz_, PtrSize)

\* heap_rc::inject_allocation, lines 273-282.
inject_size(sz_) == RoundUp(Larger(sz_, PtrSize), PtrSize)

\* heap_rc::alloc_tracked, lines 219-223: alignment recorded in the header.
tracked_align(align_) == clp2(Larger(clean_align(align_, 1), HeaderSize))

tracked_size(sz_, align_) ==
    LET a == tracked_align(align_) IN RoundUp(sz_ + a, a)

VARIABLES
    held,       \* [Handles -> allocation record or NoAlloc]
    allocated   \* bytes Rca_LB counts as allocated (_eph->allocated())

vars == <<held, allocated>>

NoAlloc == [tracked |-> FALSE, sz |-> 0, al |-> 0, granted |-> 0]
Alloc == [tracked : BOOLEAN, sz : Sizes, al : Aligns, granted : Nat]

Granted == MapThenSumSet(LAMBDA h : held[h].granted, Handles)

TypeOK ==
    /\ held \in [Handles -> Alloc \cup {NoAlloc}]
    /\ allocated \in Nat

Init ==
    /\ held = [h \in Handles |-> NoAlloc]
    /\ allocated = 0

Free(h) == held[h] = NoAlloc

alloc(h, sz, al) ==
    /\ Free(h)
    /\ LET g == alloc_size(sz, al)
       IN  /\ held' = [held EXCEPT ![h] =
                         [tracked |-> FALSE, sz |-> sz, al |-> al, granted |-> g]]
           /\ allocated' = allocated + g

free(h) ==
    /\ ~Free(h) /\ ~held[h].tracked
    /\ allocated' = allocated - free_size(held[h].sz, held[h].al)
    /\ held' = [held EXCEPT ![h] = NoAlloc]

alloc_tracked(h, sz, al) ==
    /\ Free(h)
    /\ LET g == tracked_size(sz, al)
       IN  /\ held' = [held EXCEPT ![h] =
                         [tracked |-> TRUE, sz |-> sz, al |-> al, granted |-> g]]
           /\ allocated' = allocated + g

\* heap_rc::free_tracked, lines 294-325: size from the header's _align.
free_tracked(h) ==
    /\ ~Free(h) /\ held[h].tracked
    /\ allocated' = allocated - tracked_size(held[h].sz, held[h].al)
    /\ held' = [held EXCEPT ![h] = NoAlloc]

(***************************************************************************)
(* Restart (heap_rc reconstituting constructor, lines 80-117): Rca_LB      *)
(* starts empty; tracked blocks come back with their header's _size, the   *)
(* client re-injects each untracked allocation with its size.              *)
(***************************************************************************)
reconstitute ==
    /\ \E h \in Handles : ~Free(h)
    /\ allocated' =
         MapThenSumSet(LAMBDA h : IF Free(h) THEN 0
                                  ELSE IF held[h].tracked THEN held[h].granted
                                  ELSE inject_size(held[h].sz),
                       Handles)
    /\ UNCHANGED held

Next ==
    \/ \E h \in Handles, sz \in Sizes, al \in Aligns :
          alloc(h, sz, al) \/ alloc_tracked(h, sz, al)
    \/ \E h \in Handles : free(h) \/ free_tracked(h)
    \/ reconstitute

Spec == Init /\ [][Next]_vars

-----------------------------------------------------------------------------
(***************************************************************************)
(* clp2 computes the least power of two not below its argument for every   *)
(* size_t value, including 0, exact powers and the top bit (where it       *)
(* wraps to 0), and so for every size a held allocation was made with.   *)
(* An off-by-one in the "--sz" of the bit smearing doubles every exact     *)
(* power of two.                                                           *)
(***************************************************************************)
Clp2Correct ==
    \A s \in (0..(2^Width - 1)) \cup {held[h].sz : h \in Handles} :
        clp2(s) = Clp2Reference(s)

(***************************************************************************)
(* Spec 8.4: the bytes Rca_LB counts as allocated are exactly the bytes    *)
(* granted to the allocations the client still holds, after any sequence   *)
(* of alloc, free, alloc_tracked, free_tracked and restarts.  It fails     *)
(* when free, free_tracked or inject_allocation recompute a size that      *)
(* differs from the one alloc passed to Rca_LB.                            *)
(***************************************************************************)
AccountingExact == allocated = Granted

=============================================================================
