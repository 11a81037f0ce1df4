------------------------------- MODULE ArenaFs -------------------------------
(***************************************************************************)
(* The fsdax region arena (libnupm/src/arena_fs.cpp) and its caller        *)
(* heap_mc::grow (hstore/src/heap_mc.cpp).                                 *)
(*                                                                         *)
(* A region <id> is two files: the data file, sized with posix_fallocate   *)
(* and mapped into memory, and the map file, a list of "<addr> <size>"     *)
(* lines that fixes where each segment is mapped.  The registry of mapped  *)
(* regions and the list of mapped segments (space_opened) are process      *)
(* memory.  The arena runs one operation at a time; a process crash may    *)
(* stop it between any two file-system steps, and then no scope-exit       *)
(* handler runs.  File contents written before the crash stay (the crash   *)
(* is of the process, not of the machine).                                 *)
(*                                                                         *)
(* Sizes are in MiB; round_up_t(size, 1U<<21U) rounds to Grain = 2 MiB.    *)
(* Addresses are left out: only the sizes of the segments matter to the    *)
(* properties.  A map file is the sequence of its segment sizes.           *)
(***************************************************************************)
EXTENDS Naturals, Sequences, SequencesExt, FiniteSets

CONSTANTS
    Ids,          \* region names
    Sizes,        \* sizes (MiB) clients ask region_create for
    HeapIds,      \* regions holding an hstore heap (resized only by heap_mc::grow)
    ResizeSizes,  \* sizes (MiB) other clients ask region_resize for
    Increments,   \* increments (MiB) heap_mc::grow is asked for
    DiskSize,     \* MiB the file system holds for all data files
    MaxCrashes    \* bound on process crashes in one behaviour

Grain == 2
RoundUp(s) == ((s + Grain - 1) \div Grain) * Grain

Covered(segs) == FoldSeq(LAMBDA x, acc : x + acc, 0, segs)

\* Trim with the loop's test written <= instead of <.
RECURSIVE TrimLe(_, _)
TrimLe(segs, n) ==
    IF n = 0 THEN segs
    ELSE IF n <= Last(segs) THEN [segs EXCEPT ![Len(segs)] = @ - n]
    ELSE TrimLe(Front(segs), n - Last(segs))

\* Segment list with its last n MiB removed (lines 292-305).
RECURSIVE Trim(_, _)
Trim(segs, n) ==
    IF n = 0 THEN segs
    ELSE IF n < Last(segs) THEN [segs EXCEPT ![Len(segs)] = @ - n]
    ELSE Trim(Front(segs), n - Last(segs))

NoOp == [kind |-> "none", id |-> CHOOSE i \in Ids : TRUE, step |-> "done",
         size |-> 0, delta |-> 0, segs |-> <<>>, caller |-> "client", inc |-> 0]

VARIABLES
    dataf,      \* [Ids -> size or -1]: data file (-1: no file)
    mapf,       \* [Ids -> segment sizes or <<-1>>]: map file (<<-1>>: no file)
    registry,   \* ids mapped in this process (registry_memory_mapped)
    opened,     \* [Ids -> Seq]: segments space_opened has mapped
    capacity,   \* [Ids -> Nat]: heap_mc's _eph->_capacity for the pool in id
    managed,    \* [Ids -> Nat]: length of the heap's region list, _eph's regions()
    op,         \* the operation in progress and its locals
    grown,      \* last heap_mc::grow: [old, inc, result, done]
    committed,  \* ghost: ids whose region_create returned a mapped region
    crashes

vars == <<dataf, mapf, registry, opened, capacity, managed, op, grown, committed, crashes>>

NoFile == -1
NoMap == <<-1>>
HasData(id) == dataf[id] # NoFile
HasMap(id)  == mapf[id] # NoMap

TypeOK ==
    /\ dataf \in [Ids -> {NoFile} \cup 0..DiskSize]
    /\ \A id \in Ids : mapf[id] = NoMap \/ mapf[id] \in Seq(1..DiskSize)
    /\ registry \subseteq Ids
    /\ opened \in [Ids -> Seq(1..DiskSize)]
    /\ op.kind \in {"none", "create", "resize", "erase", "open"}
    /\ crashes \in 0..MaxCrashes

Init ==
    /\ dataf = [id \in Ids |-> NoFile]
    /\ mapf = [id \in Ids |-> NoMap]
    /\ registry = {}
    /\ opened = [id \in Ids |-> <<>>]
    /\ capacity = [id \in Ids |-> 0]
    /\ managed = [id \in Ids |-> 0]
    /\ op = NoOp
    /\ grown = [old |-> 0, inc |-> 0, result |-> 0, done |-> FALSE]
    /\ committed = {}
    /\ crashes = 0

Idle == op.kind = "none"
At(k, s) == op.kind = k /\ op.step = s
Goto(s) == op' = [op EXCEPT !.step = s]
Done == op' = NoOp

\* posix_fallocate(fd, 0, n): the file grows to n, or the call fails with
\* ENOSPC and nothing changes.  It never makes a file smaller.
Used == FoldFunctionOnSet(LAMBDA x, acc : IF x = NoFile THEN acc ELSE x + acc, 0, dataf, Ids)
FallocateFits(id, n) == n <= dataf[id] \/ Used - dataf[id] + n <= DiskSize
Fallocated(id, n) == IF dataf[id] >= n THEN dataf ELSE [dataf EXCEPT ![id] = n]

-----------------------------------------------------------------------------
(***************************************************************************)
(* region_create, lines 165-241.                                           *)
(***************************************************************************)
\* line 177: open(O_CREAT|O_EXCL); an existing data file is an error.
region_create_open(id, s) ==
    /\ Idle
    /\ IF HasData(id)
         THEN UNCHANGED dataf /\ Done
         ELSE /\ dataf' = [dataf EXCEPT ![id] = 0]
              /\ op' = [NoOp EXCEPT !.kind = "create", !.id = id, !.step = "fallocate",
                                    !.size = RoundUp(s)]
    /\ UNCHANGED <<mapf, registry, opened, capacity, managed, grown, committed, crashes>>

\* lines 200-209: on failure the scope exit unlinks the data file.
region_create_fallocate ==
    /\ At("create", "fallocate")
    /\ IF FallocateFits(op.id, op.size)
         THEN dataf' = Fallocated(op.id, op.size) /\ Goto("write_map")
         ELSE dataf' = [dataf EXCEPT ![op.id] = NoFile] /\ Done
    /\ UNCHANGED <<mapf, registry, opened, capacity, managed, grown, committed, crashes>>

\* lines 212-216: the map file is opened with trunc, then its line written.
region_create_truncate_map ==
    /\ At("create", "write_map")
    /\ mapf' = [mapf EXCEPT ![op.id] = <<>>]
    /\ Goto("write_line")
    /\ UNCHANGED <<dataf, registry, opened, capacity, managed, grown, committed, crashes>>

region_create_write_map ==
    /\ At("create", "write_line")
    /\ mapf' = [mapf EXCEPT ![op.id] = <<op.size>>]
    /\ Goto("enter")
    /\ UNCHANGED <<dataf, registry, opened, capacity, managed, grown, committed, crashes>>

(***************************************************************************)
(* lines 230-240, region_create_inner: enter the mapping in the registry.  *)
(* It fails when the id is already mapped or the mmap fails; then both     *)
(* scope exits remove the map file and unlink the data file.               *)
(***************************************************************************)
region_create_enter ==
    /\ At("create", "enter")
    /\ \/ /\ op.id \notin registry
          /\ registry' = registry \cup {op.id}
          /\ opened' = [opened EXCEPT ![op.id] = <<op.size>>]
          /\ capacity' = [capacity EXCEPT ![op.id] = op.size]
          /\ managed' = [managed EXCEPT ![op.id] = 1]
          /\ committed' = committed \cup {op.id}
          /\ UNCHANGED <<dataf, mapf>>
       \/ /\ mapf' = [mapf EXCEPT ![op.id] = NoMap]
          /\ dataf' = [dataf EXCEPT ![op.id] = NoFile]
          /\ UNCHANGED <<registry, opened, capacity, managed, committed>>
    /\ Done
    /\ UNCHANGED <<grown, crashes>>

-----------------------------------------------------------------------------
(***************************************************************************)
(* region_resize, lines 243-326, on a region this process has mapped.      *)
(* The caller is heap_mc::grow (the only caller in this repository, and it *)
(* only grows) or, for a region that holds no heap, another client of     *)
(* dax_manager::resize_region.                                             *)
(***************************************************************************)
StartResize(id, s, caller, inc) ==
    LET target == RoundUp(s)
        cur    == Covered(mapf[id])
    IN  op' = [kind |-> "resize", id |-> id, size |-> target, segs |-> mapf[id],
               caller |-> caller, inc |-> inc,
               step |-> IF cur < target THEN "grow_fallocate"
                        ELSE IF target < cur THEN "shrink_opened" ELSE "done",
               delta |-> IF cur < target THEN target - cur ELSE cur - target]

region_resize(id, s) ==
    /\ Idle
    /\ id \notin HeapIds
    /\ id \in registry /\ HasMap(id)
    /\ StartResize(id, s, "client", 0)
    /\ UNCHANGED <<dataf, mapf, registry, opened, capacity, managed, grown, committed, crashes>>

\* The grow steps with the segment mapped (space_opened::grow) before the
\* data file is extended.
region_resize_map_first ==
    /\ At("resize", "grow_fallocate")
    /\ opened' = [opened EXCEPT ![op.id] = Append(@, op.delta)]
    /\ IF FallocateFits(op.id, op.size)
         THEN dataf' = Fallocated(op.id, op.size) /\ Goto("grow_append")
         ELSE UNCHANGED dataf /\ Goto("done")
    /\ UNCHANGED <<mapf, registry, capacity, managed, grown, committed, crashes>>

\* lines 264-273: a failed fallocate returns without a word to the caller.
region_resize_grow_fallocate ==
    /\ At("resize", "grow_fallocate")
    /\ IF FallocateFits(op.id, op.size)
         THEN dataf' = Fallocated(op.id, op.size) /\ Goto("grow_append")
         ELSE UNCHANGED dataf /\ Goto("done")
    /\ UNCHANGED <<mapf, registry, opened, capacity, managed, grown, committed, crashes>>

\* lines 275-279: the new segment is appended to the map file.
region_resize_grow_append ==
    /\ At("resize", "grow_append")
    /\ mapf' = [mapf EXCEPT ![op.id] = Append(@, op.delta)]
    /\ Goto("grow_opened")
    /\ UNCHANGED <<dataf, registry, opened, capacity, managed, grown, committed, crashes>>

\* line 281: space_opened::grow maps the new segment.
region_resize_grow_opened ==
    /\ At("resize", "grow_opened")
    /\ opened' = [opened EXCEPT ![op.id] = Append(@, op.delta)]
    /\ Goto("done")
    /\ UNCHANGED <<dataf, mapf, registry, capacity, managed, grown, committed, crashes>>

\* line 290: space_opened::shrink unmaps the trailing bytes first.
region_resize_shrink_opened ==
    /\ At("resize", "shrink_opened")
    /\ opened' = [opened EXCEPT ![op.id] = Trim(@, op.delta)]
    /\ Goto("shrink_truncate_map")
    /\ UNCHANGED <<dataf, mapf, registry, capacity, managed, grown, committed, crashes>>

\* lines 306-313: the map file is reopened with trunc and rewritten.
region_resize_shrink_truncate_map ==
    /\ At("resize", "shrink_truncate_map")
    /\ mapf' = [mapf EXCEPT ![op.id] = <<>>]
    /\ Goto("shrink_write_map")
    /\ UNCHANGED <<dataf, registry, opened, capacity, managed, grown, committed, crashes>>

region_resize_shrink_write_map ==
    /\ At("resize", "shrink_write_map")
    /\ mapf' = [mapf EXCEPT ![op.id] = Trim(op.segs, op.delta)]
    /\ Goto("shrink_fallocate")
    /\ UNCHANGED <<dataf, registry, opened, capacity, managed, grown, committed, crashes>>

\* lines 315-323: "shrink the file" with posix_fallocate, which cannot.
region_resize_shrink_fallocate ==
    /\ At("resize", "shrink_fallocate")
    /\ dataf' = Fallocated(op.id, op.size)
    /\ Goto("done")
    /\ UNCHANGED <<mapf, registry, opened, capacity, managed, grown, committed, crashes>>

\* A client's resize returns.
region_resize_return ==
    /\ At("resize", "done") /\ op.caller = "client"
    /\ Done
    /\ UNCHANGED <<dataf, mapf, registry, opened, capacity, managed, grown, committed, crashes>>

-----------------------------------------------------------------------------
(***************************************************************************)
(* heap_mc::grow, lines 230-271 (the uuid path after line 273 is dead:     *)
(* grown is set unconditionally at line 270, so _more_region_uuids_size    *)
(* stays 0 and the bad_alloc of line 238 cannot be thrown; the rounding of *)
(* line 243 feeds only that path).  It asks for old + increment bytes,     *)
(* has set_managed_regions take the region's new segment list, and adds    *)
(* the segments past the heap's old list (old_list_size, read from         *)
(* regions()) to the allocator, whose capacity grows by their size.        *)
(***************************************************************************)
grow(id, inc) ==
    /\ Idle
    /\ id \in HeapIds
    /\ id \in registry /\ HasMap(id)
    /\ StartResize(id, Covered(opened[id]) + inc, "grow", inc)
    /\ grown' = [old |-> capacity[id], inc |-> inc, result |-> 0, done |-> FALSE]
    /\ UNCHANGED <<dataf, mapf, registry, opened, capacity, managed, committed, crashes>>

grow_return ==
    /\ At("resize", "done") /\ op.caller = "grow"
    /\ LET old == managed[op.id]
           new == opened[op.id]
           added == Covered(SubSeq(new, old + 1, Len(new)))
       IN  /\ capacity' = [capacity EXCEPT ![op.id] = @ + added]
           /\ managed' = [managed EXCEPT ![op.id] = Len(opened[op.id])]
           /\ grown' = [grown EXCEPT !.result = capacity[op.id] + added, !.done = TRUE]
    /\ Done
    /\ UNCHANGED <<dataf, mapf, registry, opened, committed, crashes>>

-----------------------------------------------------------------------------
\* region_erase, lines 328-336: data file, map file, registry, in that order.
region_erase(id) ==
    /\ Idle
    /\ dataf' = [dataf EXCEPT ![id] = NoFile]
    /\ op' = [NoOp EXCEPT !.kind = "erase", !.id = id, !.step = "remove_map"]
    /\ committed' = committed \ {id}
    /\ UNCHANGED <<mapf, registry, opened, capacity, managed, grown, crashes>>

region_erase_remove_map ==
    /\ At("erase", "remove_map")
    /\ mapf' = [mapf EXCEPT ![op.id] = NoMap]
    /\ Goto("unregister")
    /\ UNCHANGED <<dataf, registry, opened, capacity, managed, grown, committed, crashes>>

region_erase_unregister ==
    /\ At("erase", "unregister")
    /\ registry' = registry \ {op.id}
    /\ opened' = [opened EXCEPT ![op.id] = <<>>]
    /\ capacity' = [capacity EXCEPT ![op.id] = 0]
    /\ managed' = [managed EXCEPT ![op.id] = 0]
    /\ Done
    /\ UNCHANGED <<dataf, mapf, grown, committed, crashes>>

\* get_mapping(path, expected), arena_fs.cpp:118-128: a region opens when
\* both files exist and the map file covers the data file.
Openable(id) == HasData(id) /\ HasMap(id) /\ Covered(mapf[id]) = dataf[id]

(***************************************************************************)
(* Opening a region after a restart.  dax_manager::open_region is not in  *)
(* this repository; get_mapping(path, expected) reads the map file and    *)
(* throws unless it covers the expected size, taken here as the data file *)
(* size (spec 4.1: SizeMismatch).  The first segment                       *)
(* is pool0_full and the others come as iov_addl.  heap_mc's reconstituting*)
(* constructor (heap_mc.cpp:140-188) hands heap_mc_ephemeral the list      *)
(* add_regions_full builds (53-87): pool0_full and the regions of the uuid *)
(* list, which stays empty (the uuid path of grow is dead); the iov_addl   *)
(* segments only get valgrind calls.                                       *)
(***************************************************************************)
open_region(id) ==
    /\ Idle
    /\ id \notin registry
    /\ Openable(id)
    /\ registry' = registry \cup {id}
    /\ opened' = [opened EXCEPT ![id] = mapf[id]]
    /\ capacity' = [capacity EXCEPT ![id] = Head(mapf[id])]
    /\ managed' = [managed EXCEPT ![id] = 1]
    /\ UNCHANGED <<dataf, mapf, op, grown, committed, crashes>>

\* The process dies; files stay as they are, memory is lost.
Crash ==
    /\ crashes < MaxCrashes
    /\ crashes' = crashes + 1
    /\ registry' = {}
    /\ opened' = [id \in Ids |-> <<>>]
    /\ capacity' = [id \in Ids |-> 0]
    /\ managed' = [id \in Ids |-> 0]
    /\ op' = NoOp
    /\ UNCHANGED <<dataf, mapf, grown, committed>>

Next ==
    \/ \E id \in Ids, s \in Sizes : region_create_open(id, s)
    \/ \E id \in Ids, s \in ResizeSizes : region_resize(id, s)
    \/ region_create_fallocate \/ region_create_truncate_map
    \/ region_create_write_map \/ region_create_enter
    \/ region_resize_grow_fallocate \/ region_resize_grow_append
    \/ region_resize_grow_opened \/ region_resize_shrink_opened
    \/ region_resize_shrink_truncate_map \/ region_resize_shrink_write_map
    \/ region_resize_shrink_fallocate \/ region_resize_return
    \/ \E id \in Ids, inc \in Increments : grow(id, inc)
    \/ grow_return
    \/ \E id \in Ids : region_erase(id) \/ open_region(id)
    \/ region_erase_remove_map \/ region_erase_unregister
    \/ Crash

Spec == Init /\ [][Next]_vars

-----------------------------------------------------------------------------
(***************************************************************************)
(* Properties.                                                             *)
(***************************************************************************)
\* Memory mapped for a region never reaches past the end of its data file:
\* region_resize grows the file (posix_fallocate) before space_opened maps
\* the new segment, so no access to a mapped segment can fault (SIGBUS),
\* whatever fails or crashes in between.
MappedWithinFile ==
    \A id \in registry :
        (op.kind = "erase" /\ op.id = id) \/ Covered(opened[id]) <= dataf[id]

CapacityMatchesMapping ==
    Idle => \A id \in registry \cap HeapIds : capacity[id] = Covered(opened[id])

\* A region name not mapped in this process can always be used again: its
\* region either opens or can be created (no data file for O_EXCL to trip
\* on), whatever step of region_create, region_resize or region_erase a
\* crash interrupted.
NameReusable ==
    Idle => \A id \in Ids \ registry : ~HasData(id) \/ Openable(id)

\* A region that region_create returned, and that was not erased, opens
\* after a restart (spec 4.3: a crash mid-grow leaves the region as it was
\* or fully grown; spec 4.1: resize shrinks by truncating).
CommittedOpenable ==
    Idle => \A id \in committed : Openable(id)

=============================================================================
