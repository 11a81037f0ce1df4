------------------------------- MODULE AcStore -------------------------------
(***************************************************************************)
(* The access-control facade mcas::ac_store (server/mcas/src/ac_store.cpp) *)
(* over a key-value store.                                                 *)
(*                                                                         *)
(* One ac_store instance serves one authority (_auth_id).  The ACL of a    *)
(* pool lives in the pool itself, as reserved keys "acs.auth_check",       *)
(* "acs.control.<id>" and "acs.data.<id>".  Each instance caches, in       *)
(* _access_allowed, the permissions it read when it created or opened a    *)
(* pool, and every later operation is checked against that cache only.     *)
(* Key strings are abstracted to their role: a data key, the auth_check    *)
(* key, or the control/data ACL key of an authority; a permission value    *)
(* "0000000<d>" is abstracted to the digit d it is parsed back into.       *)
(***************************************************************************)
EXTENDS Naturals, Sequences, FiniteSets, Bitwise, TLC

CONSTANTS
    Auths,       \* authority ids the facade instances run with
    Anon,        \* the authority id 0 (no authentication)
    Pools,       \* pool names
    DataKeys,    \* ordinary keys
    DataVals,    \* ordinary values
    Missing,     \* "no such key"
    Granted      \* access digits clients write under ACL keys

\* access.h
Read  == 4
Write == 2
List  == 0
All   == Read + Write + List
Perms == {0, Write, Read, All}

Sentinel == "xxxxxxxx"     \* _value_auth_check
NotSentinel == "other"
Resized == "resized"       \* a value whose length resize_value changed
AuthCheck == <<"acs", "auth_check">>
AclKey(ns, a) == <<"acs", ns, a>>
AclKeys == {AuthCheck} \cup {AclKey(ns, a) : ns \in {"control", "data"}, a \in Auths}
Keys == DataKeys \cup AclKeys

\* The text "0000000" + std::to_string(d) put under an ACL key, and the digit
\* buffer[7] - '0' that open_pool reads back from it (line 138).
AccessText == [d \in Perms |-> "0000000" \o ToString(d)]
AccessTexts == {AccessText[d] : d \in Perms}
Vals == DataVals \cup AccessTexts \cup {Sentinel, NotSentinel, Resized}

\* Values a client may put under each key (ACL digits are written as text).
ValsFor(k) ==
    IF k = AuthCheck THEN {Sentinel, NotSentinel}
    ELSE IF k \in AclKeys THEN {AccessText[d] : d \in Granted}
    ELSE DataVals

NoEntry == [control |-> 0, data |-> 0, present |-> FALSE]
Entry(c, d) == [control |-> c, data |-> d, present |-> TRUE]
Entries == [control : Perms, data : Perms, present : BOOLEAN]

\* The keys the direct, resize, swap, update, lock and attribute operations
\* are applied to: the data keys and each authority's data ACL key.
ExtraKeys == DataKeys \cup {AclKey("data", a) : a \in Auths}

VARIABLES
    exists,     \* pools the store holds
    kv,         \* [Pools -> [Keys -> Vals \cup {Missing}]]: pool contents
    opened,     \* [Auths -> SUBSET Pools]: pools each instance has open
    allowed,    \* [Auths -> [Pools -> entry]]: each instance's _access_allowed
    result,     \* what the last operation returned, for the properties
    seen,       \* [Auths -> [Pools -> entry]]: ACL as read at the last open
    created,    \* [Auths -> SUBSET Pools]: pools this instance created, still open
    iters       \* [Auths -> SUBSET Pools]: pools with an open pool iterator

vars == <<exists, kv, opened, allowed, result, seen, created, iters>>

NoResult == [auth |-> Anon, op |-> "none", pool |-> CHOOSE p \in Pools : TRUE,
             key |-> Missing, ok |-> FALSE, keys |-> {}]

Result(a, op, p, k, ok, ks) ==
    [auth |-> a, op |-> op, pool |-> p, key |-> k, ok |-> ok, keys |-> ks]

TypeOK ==
    /\ exists \subseteq Pools
    /\ kv \in [Pools -> [Keys -> Vals \cup {Missing}]]
    /\ opened \in [Auths -> SUBSET Pools]
    /\ allowed \in [Auths -> [Pools -> Entries]]
    /\ seen \in [Auths -> [Pools -> Entries]]
    /\ created \in [Auths -> SUBSET Pools]
    /\ iters \in [Auths -> SUBSET Pools]
    /\ result.op \in {"none", "create_pool", "open_pool", "close_pool", "delete_pool",
                      "put", "put_direct", "get", "get_direct", "erase",
                      "resize_value", "swap_keys", "atomic_update", "lock",
                      "unlock", "get_attribute", "count", "map", "map_ts",
                      "map_keys", "open_pool_iterator", "deref_pool_iterator",
                      "close_pool_iterator"}

Empty == [k \in Keys |-> Missing]

Init ==
    /\ exists = {}
    /\ kv = [p \in Pools |-> Empty]
    /\ opened = [a \in Auths |-> {}]
    /\ allowed = [a \in Auths |-> [p \in Pools |-> NoEntry]]
    /\ result = NoResult
    /\ seen = [a \in Auths |-> [p \in Pools |-> NoEntry]]
    /\ created = [a \in Auths |-> {}]
    /\ iters = [a \in Auths |-> {}]

\* is_data, line 34-38: a key is data unless it starts with "acs.".
is_data(k) == k \in DataKeys

\* std::map::insert: leaves an existing entry alone.
Insert(a, p, e) ==
    IF allowed[a][p].present THEN allowed
    ELSE [allowed EXCEPT ![a][p] = e]

\* An ACL entry grants need on key k: the control digit for "acs." keys
\* (line 64-68), the data digit otherwise.
Permits(e, k, need) ==
    LET have == IF is_data(k) THEN e.data ELSE e.control
    IN  e.present /\ (have & need) = need

\* access_ok(func, pool, key, need), lines 60-91.
access_ok_key(a, p, k, need) == Permits(allowed[a][p], k, need)

\* access_ok(func, pool, need), lines 40-58.
access_ok_pool(a, p, need) ==
    LET e == allowed[a][p]
    IN  e.present /\ ((e.control & e.data) & need) = need

(***************************************************************************)
(* create_pool, lines 97-119.  The store creates an empty pool; a          *)
(* non-zero authority then writes the sentinel and "all" for itself in     *)
(* both namespaces and caches "all".  Authority 0 writes nothing and       *)
(* caches nothing.  Creating an existing pool fails in the store           *)
(* (AlreadyExists) and hands back no usable pool.                          *)
(***************************************************************************)
create_pool(a, p) ==
    /\ p \notin exists
    /\ exists' = exists \cup {p}
    /\ opened' = [opened EXCEPT ![a] = @ \cup {p}]
    /\ created' = [created EXCEPT ![a] = @ \cup {p}]
    /\ IF a # Anon
         THEN /\ kv' = [kv EXCEPT ![p] = [Empty EXCEPT ![AuthCheck] = Sentinel,
                                                  ![AclKey("control", a)] = AccessText[All],
                                                  ![AclKey("data", a)] = AccessText[All]]]
              /\ allowed' = Insert(a, p, Entry(All, All))
              /\ seen' = [seen EXCEPT ![a][p] = Entry(All, All)]
         ELSE /\ kv' = [kv EXCEPT ![p] = Empty]
              /\ UNCHANGED <<allowed, seen>>
    /\ result' = Result(a, "create_pool", p, Missing, TRUE, {})
    /\ UNCHANGED iters

\* Permission digit stored under an ACL key; a missing key reads as 0.
Digit(p, k) ==
    IF kv[p][k] \in AccessTexts THEN CHOOSE d \in Perms : AccessText[d] = kv[p][k]
    ELSE 0

\* What open_pool reads, lines 128-147: the authority's two digits when the
\* sentinel is there, "all" for a legacy pool.
AclOf(p, a) ==
    IF kv[p][AuthCheck] = Sentinel
      THEN Entry(Digit(p, AclKey("control", a)), Digit(p, AclKey("data", a)))
      ELSE Entry(All, All)

(***************************************************************************)
(* open_pool, lines 121-149: read the ACL and insert it into the cache     *)
(* (std::map::insert keeps an entry that is already there).  The store is  *)
(* taken to refuse opening a pool this instance already has open.          *)
(***************************************************************************)
open_pool(a, p) ==
    /\ p \in exists
    /\ p \notin opened[a]
    /\ opened' = [opened EXCEPT ![a] = @ \cup {p}]
    /\ allowed' = Insert(a, p, AclOf(p, a))
    /\ seen' = [seen EXCEPT ![a][p] = AclOf(p, a)]
    /\ result' = Result(a, "open_pool", p, Missing, TRUE, {})
    /\ UNCHANGED <<exists, kv, created, iters>>

\* close_pool, lines 151-159, with the cache entry left behind.
close_pool_keep_entry(a, p) ==
    /\ p \in opened[a]
    /\ opened' = [opened EXCEPT ![a] = @ \ {p}]
    /\ created' = [created EXCEPT ![a] = @ \ {p}]
    /\ result' = Result(a, "close_pool", p, Missing, TRUE, {})
    /\ iters' = [iters EXCEPT ![a] = @ \ {p}]
    /\ UNCHANGED <<exists, kv, allowed, seen>>

\* close_pool, lines 151-159: the cache entry goes, then the store closes
\* (the store's close_pool is taken to end the pool's iterators).
close_pool(a, p) ==
    /\ p \in opened[a]
    /\ allowed' = [allowed EXCEPT ![a][p] = NoEntry]
    /\ opened' = [opened EXCEPT ![a] = @ \ {p}]
    /\ created' = [created EXCEPT ![a] = @ \ {p}]
    /\ result' = Result(a, "close_pool", p, Missing, TRUE, {})
    /\ iters' = [iters EXCEPT ![a] = @ \ {p}]
    /\ UNCHANGED <<exists, kv, seen>>

\* put, lines 178-186: the store's put overwrites.
put(a, p, k, v) ==
    /\ p \in opened[a]
    /\ LET ok == access_ok_key(a, p, k, Write)
       IN  /\ kv' = IF ok THEN [kv EXCEPT ![p][k] = v] ELSE kv
           /\ result' = Result(a, "put", p, k, ok, {})
    /\ UNCHANGED <<exists, opened, allowed, seen, created>>
    /\ UNCHANGED iters

\* get, lines 208-215: succeeds when allowed and the key exists.
get(a, p, k) ==
    /\ p \in opened[a]
    /\ result' = Result(a, "get", p, k,
                        access_ok_key(a, p, k, Read) /\ kv[p][k] # Missing, {})
    /\ UNCHANGED <<exists, kv, opened, allowed, seen, created>>
    /\ UNCHANGED iters

\* erase, lines 303-307: succeeds when allowed and the key exists.
erase(a, p, k) ==
    /\ p \in opened[a]
    /\ LET ok == access_ok_key(a, p, k, Write) /\ kv[p][k] # Missing
       IN  /\ kv' = IF ok THEN [kv EXCEPT ![p][k] = Missing] ELSE kv
           /\ result' = Result(a, "erase", p, k, ok, {})
    /\ UNCHANGED <<exists, opened, allowed, seen, created>>
    /\ UNCHANGED iters

Present(p) == {k \in Keys : kv[p][k] # Missing}

\* map, lines 317-338: the check, then the store's walk at line 325; the
\* filtering walk after that return is never reached.
map(a, p) ==
    /\ p \in opened[a]
    /\ LET ok == access_ok_pool(a, p, Read + List)
       IN  result' = Result(a, "map", p, Missing, ok, IF ok THEN Present(p) ELSE {})
    /\ UNCHANGED <<exists, kv, opened, allowed, seen, created>>
    /\ UNCHANGED iters

\* map_keys, lines 367-381: the walk skips keys that are not is_data.
map_keys(a, p) ==
    /\ p \in opened[a]
    /\ LET ok == access_ok_pool(a, p, Read + List)
       IN  result' = Result(a, "map_keys", p, Missing, ok,
                            IF ok THEN {k \in Present(p) : is_data(k)} ELSE {})
    /\ UNCHANGED <<exists, kv, opened, allowed, seen, created>>
    /\ UNCHANGED iters

(***************************************************************************)
(* delete_pool, lines 161-164: handed to the store with no access check.   *)
(* The store is taken to refuse deleting a pool some instance has open.    *)
(***************************************************************************)
delete_pool(a, p) ==
    /\ p \in exists
    /\ \A b \in Auths : p \notin opened[b]
    /\ exists' = exists \ {p}
    /\ kv' = [kv EXCEPT ![p] = Empty]
    /\ result' = Result(a, "delete_pool", p, Missing, TRUE, {})
    /\ UNCHANGED <<opened, allowed, seen, created, iters>>

\* put_direct, lines 188-197: the same check as put.
put_direct(a, p, k, v) ==
    /\ p \in opened[a]
    /\ LET ok == access_ok_key(a, p, k, Write)
       IN  /\ kv' = IF ok THEN [kv EXCEPT ![p][k] = v] ELSE kv
           /\ result' = Result(a, "put_direct", p, k, ok, {})
    /\ UNCHANGED <<exists, opened, allowed, seen, created, iters>>

\* resize_value, lines 199-206: needs write; the store changes the length
\* of an existing value, which is then no longer an access text or the
\* sentinel.
resize_value(a, p, k) ==
    /\ p \in opened[a]
    /\ LET ok == access_ok_key(a, p, k, Write) /\ kv[p][k] # Missing
       IN  /\ kv' = IF ok THEN [kv EXCEPT ![p][k] = Resized] ELSE kv
           /\ result' = Result(a, "resize_value", p, k, ok, {})
    /\ UNCHANGED <<exists, opened, allowed, seen, created, iters>>

\* get_direct, lines 217-225: the same check as get.
get_direct(a, p, k) ==
    /\ p \in opened[a]
    /\ result' = Result(a, "get_direct", p, k,
                        access_ok_key(a, p, k, Read) /\ kv[p][k] # Missing, {})
    /\ UNCHANGED <<exists, kv, opened, allowed, seen, created, iters>>

\* get_attribute, lines 227-233: no access check; the store answers for
\* any existing key (VALUE_LEN).
get_attribute(a, p, k) ==
    /\ p \in opened[a]
    /\ result' = Result(a, "get_attribute", p, k, kv[p][k] # Missing, {})
    /\ UNCHANGED <<exists, kv, opened, allowed, seen, created, iters>>

\* swap_keys, lines 235-242: write on both keys, then the store exchanges
\* the two values (taken to need two distinct existing keys).
swap_keys(a, p, k0, k1) ==
    /\ p \in opened[a]
    /\ LET ok == /\ access_ok_key(a, p, k0, Write)
                 /\ access_ok_key(a, p, k1, Write)
                 /\ k0 # k1 /\ kv[p][k0] # Missing /\ kv[p][k1] # Missing
       IN  /\ kv' = IF ok THEN [kv EXCEPT ![p][k0] = kv[p][k1], ![p][k1] = kv[p][k0]]
                    ELSE kv
           /\ result' = Result(a, "swap_keys", p, k0, ok, {k0, k1})
    /\ UNCHANGED <<exists, opened, allowed, seen, created, iters>>

(***************************************************************************)
(* lock, lines 275-285: read and write needed, then the store's lock of an *)
(* existing key.  The store's lock table is not part of the facade: the    *)
(* store grants or refuses (E_LOCKED) according to locks the model does    *)
(* not track.                                                              *)
(***************************************************************************)
lock(a, p, k) ==
    /\ p \in opened[a]
    /\ \E granted \in BOOLEAN :
          result' = Result(a, "lock", p, k,
                           access_ok_key(a, p, k, Read + Write) /\ kv[p][k] # Missing
                           /\ granted, {})
    /\ UNCHANGED <<exists, kv, opened, allowed, seen, created, iters>>

\* unlock, lines 287-292: no access check; the store releases a handle this
\* instance holds.
unlock(a, p) ==
    /\ p \in opened[a]
    /\ result' = Result(a, "unlock", p, Missing, TRUE, {})
    /\ UNCHANGED <<exists, kv, opened, allowed, seen, created, iters>>

\* atomic_update, lines 294-301: read and write needed; the store rewrites
\* bytes of an existing value.
atomic_update(a, p, k, v) ==
    /\ p \in opened[a]
    /\ LET ok == access_ok_key(a, p, k, Read + Write) /\ kv[p][k] # Missing
       IN  /\ kv' = IF ok THEN [kv EXCEPT ![p][k] = v] ELSE kv
           /\ result' = Result(a, "atomic_update", p, k, ok, {})
    /\ UNCHANGED <<exists, opened, allowed, seen, created, iters>>

DataPresent(p) == {k \in DataKeys : kv[p][k] # Missing}

\* count, lines 309-315: the pool check for list (access::list is 0, so
\* any cache entry passes), then map_keys, whose own check may refuse.
count(a, p) ==
    /\ p \in opened[a]
    /\ LET ok == access_ok_pool(a, p, List) /\ access_ok_pool(a, p, Read + List)
       IN  result' = Result(a, "count", p, Missing, ok, IF ok THEN DataPresent(p) ELSE {})
    /\ UNCHANGED <<exists, kv, opened, allowed, seen, created, iters>>

\* map with a time range, lines 340-365: the walk skips keys that are not
\* is_data.
map_ts(a, p) ==
    /\ p \in opened[a]
    /\ LET ok == access_ok_pool(a, p, Read + List)
       IN  result' = Result(a, "map_ts", p, Missing, ok, IF ok THEN DataPresent(p) ELSE {})
    /\ UNCHANGED <<exists, kv, opened, allowed, seen, created, iters>>

\* open_pool_iterator, lines 383-388: read, write and list needed.
open_pool_iterator(a, p) ==
    /\ p \in opened[a]
    /\ p \notin iters[a]
    /\ LET ok == access_ok_pool(a, p, Read + Write + List)
       IN  /\ iters' = IF ok THEN [iters EXCEPT ![a] = @ \cup {p}] ELSE iters
           /\ result' = Result(a, "open_pool_iterator", p, Missing, ok, {})
    /\ UNCHANGED <<exists, kv, opened, allowed, seen, created>>

\* deref_pool_iterator, lines 390-406: no access check; the loop steps
\* over keys that are not is_data.  The position is abstracted: the step
\* hands back some present data key, or the end.
deref_pool_iterator(a, p) ==
    /\ p \in iters[a]
    /\ \E ks \in {{k} : k \in DataPresent(p)} \cup {{}} :
          result' = Result(a, "deref_pool_iterator", p, Missing, ks # {}, ks)
    /\ UNCHANGED <<exists, kv, opened, allowed, seen, created, iters>>

\* close_pool_iterator, lines 408-412.
close_pool_iterator(a, p) ==
    /\ p \in iters[a]
    /\ iters' = [iters EXCEPT ![a] = @ \ {p}]
    /\ result' = Result(a, "close_pool_iterator", p, Missing, TRUE, {})
    /\ UNCHANGED <<exists, kv, opened, allowed, seen, created>>

Next ==
    \E a \in Auths, p \in Pools :
        \/ create_pool(a, p)
        \/ open_pool(a, p)
        \/ close_pool(a, p)
        \/ delete_pool(a, p)
        \/ \E k \in Keys :
              \/ \E v \in ValsFor(k) : put(a, p, k, v)
              \/ get(a, p, k)
              \/ erase(a, p, k)
        \/ \E k \in ExtraKeys :
              \/ \E v \in ValsFor(k) : put_direct(a, p, k, v) \/ atomic_update(a, p, k, v)
              \/ get_direct(a, p, k) \/ get_attribute(a, p, k)
              \/ resize_value(a, p, k) \/ lock(a, p, k)
              \/ \E k1 \in ExtraKeys : swap_keys(a, p, k, k1)
        \/ unlock(a, p)
        \/ count(a, p) \/ map(a, p) \/ map_ts(a, p) \/ map_keys(a, p)
        \/ open_pool_iterator(a, p) \/ deref_pool_iterator(a, p)
        \/ close_pool_iterator(a, p)

Spec == Init /\ [][Next]_vars

StateView == <<exists, kv, opened, allowed, seen, created, iters>>

-----------------------------------------------------------------------------
KeyOps == {"put", "put_direct", "get", "get_direct", "erase", "resize_value",
           "swap_keys", "atomic_update", "lock"}
Need(op) ==
    CASE op \in {"get", "get_direct"}      -> Read
      [] op \in {"lock", "atomic_update"}  -> Read + Write
      [] OTHER                             -> Write
\* The keys a key operation acts on: both of a swap, else the one key.
Touched(r) == IF r.op = "swap_keys" THEN r.keys ELSE {r.key}

\* Pool-wide operations and the digits they need in both namespaces.
PoolOps == {"count", "map", "map_ts", "map_keys", "open_pool_iterator"}
PoolNeed(op) == IF op = "open_pool_iterator" THEN Read + Write + List ELSE Read + List
PermitsPool(e, need) == e.present /\ ((e.control & e.data) & need) = need

(***************************************************************************)
(* Every key operation that succeeds (put, get, erase, their direct forms, *)
(* resize_value, swap_keys on both keys, atomic_update, lock) and every    *)
(* pool-wide walk or iterator it opens is permitted by the ACL as this     *)
(* authority read it when it last opened or created the pool: the cache    *)
(* entry of open_pool and create_pool must be the ACL of that open, never  *)
(* one left over from an earlier one (close_pool must drop it, since       *)
(* std::map::insert will not replace it).                                   *)
(***************************************************************************)
OpenTimeAuthorization ==
    [][ LET r == result'
            e == seen'[r.auth][r.pool]
        IN  r.ok =>
              /\ r.op \in KeyOps => \A k \in Touched(r) : Permits(e, k, Need(r.op))
              /\ r.op \in PoolOps => PermitsPool(e, PoolNeed(r.op))
      ]_vars

(***************************************************************************)
(* Spec 4.7 / 8.5: every key operation consults the ACL; no put, get or    *)
(* erase by an authority succeeds unless the pool's ACL, as stored when    *)
(* the operation runs, grants it (a pool without the sentinel grants       *)
(* all).  The facade checks a copy taken at open_pool.                     *)
(***************************************************************************)
AclAuthorization ==
    [][ (result'.ok /\ result'.op \in KeyOps) =>
          \A k \in Touched(result') :
             Permits(AclOf(result'.pool, result'.auth), k, Need(result'.op))
      ]_vars

(***************************************************************************)
(* Spec 4.7: ACL entries are never surfaced to clients through iteration:  *)
(* map, its time-range form, map_keys, count and the pool iterator hand    *)
(* back data keys only.                                                    *)
(***************************************************************************)
IterationHidesAcl ==
    result.op \in {"map", "map_ts", "map_keys", "count", "deref_pool_iterator"} =>
        result.keys \subseteq DataKeys

(***************************************************************************)
(* Spec 4.7: a pool's creator holds all access to it.  An instance that    *)
(* created a pool and still has it open can read and write its data.       *)
(***************************************************************************)
CreatorHasAccess ==
    \A a \in Auths : \A p \in created[a] :
        allowed[a][p].present /\ (allowed[a][p].data & (Read + Write)) = Read + Write

=============================================================================
