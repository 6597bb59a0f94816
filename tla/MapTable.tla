------------------------------ MODULE MapTable ------------------------------
(***************************************************************************)
(* The table under Map, Set, WeakMap and WeakSet (runtime/map.cpp): an     *)
(* insertion-ordered entry list with tombstones, a hash index of open      *)
(* addressed buckets over it, and the iterators that hold a slot number    *)
(* into the list.  Object keys hash by address and the collector moves     *)
(* young objects, at any allocation of an operation; in a weak table it    *)
(* also turns the entries of dead keys into tombstones.                    *)
(*                                                                         *)
(* Slots count from 1 here, so a bucket holds 0 (empty) or a slot.         *)
(***************************************************************************)
EXTENDS Integers, Sequences, FiniteSets, FiniteSetsExt, Filter

CONSTANTS
  Objects,          \* keys that hash by address
  Strings,          \* keys that hash by contents
  Vals,             \* values
  Addrs,            \* addresses an object may have
  MapAddrs,         \* addresses the map itself may have
  StringHash,       \* the hash of every string of Strings
  Iters,            \* iterators
  InitialCapacity,  \* kInitialCapacity
  MinBuckets,       \* the smallest index
  MaxEpoch,         \* bound on the collections that move something
  Hole,             \* the key of a tombstone
  Absent            \* "no such key" and the value of a tombstone

BucketsPerSlot == 2
Keys == Objects \union Strings
Stable == -2          \* kStableIndex
Unbuilt == -1         \* indexEpoch and indexAnchor of a table without an index

ASSUME SizesAssumption ==
  /\ InitialCapacity \in Nat \ {0}
  /\ MinBuckets \in Nat \ {0}
  /\ Addrs \subseteq Nat /\ MapAddrs \subseteq Nat /\ StringHash \in Nat
  /\ MaxEpoch \in Nat
ASSUME KeysAssumption ==
  /\ Objects \intersect Strings = {}
  /\ Hole \notin Keys /\ Absent \notin Vals
  /\ "none" \notin Vals \union {Absent}

VARIABLES
  entries,      \* the used slots: key and value
  cap,          \* capacity()
  buckets,      \* the index block: <<>> before there is one
  liveCount, indexEpoch, indexAnchor,
  weak,         \* a WeakMap or WeakSet
  addr, young,  \* the heap: where each object is, which may still move
  mapAddr,
  epoch,        \* relocation_epoch()
  held,         \* the keys the program can name
  op,           \* the operation that is running
  iter,         \* the iterators
  owed,         \* iterator -> keys there when it was made, neither removed nor given since
  given         \* iterator -> keys it gave that were not removed since

table == <<entries, cap, buckets, liveCount, indexEpoch, indexAnchor>>
heap == <<addr, young, mapAddr, epoch>>
walks == <<iter, owed, given>>
vars == <<table, weak, heap, held, op, walks>>

Tombstone == [key |-> Hole, val |-> Absent]
Live == [key : Keys, val : Vals]
Entry == Live \union {Tombstone}
Pcs == {"idle", "index", "probe", "miss", "grow", "insert", "done"}
Idle == [pc |-> "idle", name |-> "none", key |-> Hole, val |-> Absent,
         cap |-> 0, then |-> "none", res |-> "none"]

TypeOK ==
  /\ entries \in Seq(Entry) /\ Len(entries) <= cap
  /\ cap \in Nat /\ liveCount \in Nat
  /\ buckets \in [0 .. Cardinality(DOMAIN buckets) - 1 -> Nat]
  /\ indexEpoch \in Nat \union {Stable, Unbuilt}
  /\ indexAnchor \in Nat \union {Unbuilt}
  /\ weak \in BOOLEAN
  /\ addr \in [Objects -> Addrs] /\ young \subseteq Objects
  /\ mapAddr \in MapAddrs /\ epoch \in Nat
  /\ held \subseteq Keys
  /\ op.pc \in Pcs
  /\ iter \in [Iters -> [st : {"unmade", "open", "done"}, at : Nat]]
  /\ owed \in [Iters -> SUBSET Keys] /\ given \in [Iters -> SUBSET Keys]

-----------------------------------------------------------------------------
(* The entry list *)

LiveAt(s) == s \in 1 .. Len(entries) /\ entries[s].key # Hole
LiveSlots == {s \in 1 .. Len(entries) : LiveAt(s)}
LiveKeys == {entries[s].key : s \in LiveSlots}

\* `from` is doubled until it is not below `need`.
Doubled(from, need) ==
  LET size[i \in 0 .. need] == IF i = 0 THEN from ELSE 2 * size[i - 1]
  IN  size[Min({i \in 0 .. need : size[i] >= need})]

\* growEntries: sized from the live entries, so tombstones do not count.
NewCapacity(live) == Doubled(InitialCapacity, (live + 1) * 2)

\* The live entries first, in their order.
Compacted == Filtered(entries, Live)

-----------------------------------------------------------------------------
(* The index *)

BucketCountFor_Full(capacity) == Doubled(MinBuckets, capacity)
BucketCountFor(capacity) == Doubled(MinBuckets, capacity * BucketsPerSlot)
BucketCount == Cardinality(DOMAIN buckets)

HashKey(k) == IF k \in Objects THEN addr[k] ELSE StringHash
KeyMayMove(k) == k \in young

\* The d-th bucket of the probe sequence of hash h.
ProbeAt(b, h, d) == LET n == Cardinality(DOMAIN b) IN (h + d) % n

\* Put slot s into the first empty bucket from its hash on.
Place(b, h, s) ==
  LET n == Cardinality(DOMAIN b)
      d == Min({i \in 0 .. n - 1 : b[ProbeAt(b, h, i)] = 0})
  IN  [b EXCEPT ![ProbeAt(b, h, d)] = s]

\* reindex: all buckets empty, then the live slots in order.
Reindexed ==
  LET empty == [b \in 0 .. BucketCountFor(cap) - 1 |-> 0]
      upTo[s \in 0 .. Len(entries)] ==
        IF s = 0 THEN empty
        ELSE IF LiveAt(s) THEN Place(upTo[s - 1], HashKey(entries[s].key), s)
        ELSE upTo[s - 1]
  IN  upTo[Len(entries)]

\* epochCurrent: an index over keys that may move dies with the epoch it was
\* built in, and any index when the map itself moves.
IndexValid_AnyEpoch == buckets # <<>> /\ indexAnchor = mapAddr
IndexValid ==
  /\ buckets # <<>>
  /\ indexEpoch = Stable \/ indexEpoch = epoch
  /\ indexAnchor = mapAddr

\* find's probe: past tombstones and other keys, up to the key or an empty
\* bucket; 0 is a miss.
Probe(k) ==
  LET n == BucketCount
      here(d) == buckets[ProbeAt(buckets, HashKey(k), d)]
      stops == {d \in 0 .. n - 1 :
                  here(d) = 0 \/ (LiveAt(here(d)) /\ entries[here(d)].key = k)}
  IN  here(Min(stops))

-----------------------------------------------------------------------------
(* Operations: get, has, set, delete.  Each begins with find. *)

Init ==
  /\ entries = <<>> /\ cap = 0 /\ buckets = <<>> /\ liveCount = 0
  /\ indexEpoch = Unbuilt /\ indexAnchor = Unbuilt
  /\ weak \in BOOLEAN
  /\ addr \in [Objects -> Addrs]
  /\ \A o, p \in Objects : o # p => addr[o] # addr[p]
  /\ young \in SUBSET Objects
  /\ mapAddr \in MapAddrs /\ epoch = 0
  /\ held = Keys
  /\ op = Idle
  /\ iter = [i \in Iters |-> [st |-> "unmade", at |-> 0]]
  /\ owed = [i \in Iters |-> {}] /\ given = [i \in Iters |-> {}]

Done(o, res) == [o EXCEPT !.pc = "done", !.cap = 0, !.then = "none", !.res = res]

\* ensureIndex: the index is used as it stands or rebuilt first.
EnsureIndex(o, then) == [o EXCEPT !.pc = IF IndexValid THEN then ELSE "index", !.then = then]

AfterMiss_OffByOne(o) ==
  CASE o.name = "get" -> Done(o, Absent)
    [] o.name = "delete" -> Done(o, "false")
    [] o.name = "set" ->
         IF Len(entries) > cap
         THEN [o EXCEPT !.pc = "grow", !.cap = NewCapacity(Cardinality(LiveSlots))]
         ELSE EnsureIndex(o, "insert")
\* What the caller of find does with a miss: set grows the list first when
\* every slot is handed out, and makes sure of the index.
AfterMiss(o) ==
  CASE o.name = "get" -> Done(o, Absent)
    [] o.name = "delete" -> Done(o, "false")
    [] o.name = "set" ->
         IF Len(entries) >= cap
         THEN [o EXCEPT !.pc = "grow", !.cap = NewCapacity(Cardinality(LiveSlots))]
         ELSE EnsureIndex(o, "insert")

\* find and findFast: an empty table misses without looking at the index.
\* WeakMap keys are objects; a key the program dropped cannot be passed.
Call(name, k, v) ==
  /\ op.pc = "idle"
  /\ k \in held /\ (weak => k \in Objects)
  /\ LET o == [Idle EXCEPT !.name = name, !.key = k, !.val = v]
     IN  op' = IF liveCount = 0 THEN [o EXCEPT !.pc = "miss"] ELSE EnsureIndex(o, "probe")
  /\ UNCHANGED <<table, weak, heap, held, walks>>

\* reindex, once its block is allocated.
Reindex ==
  /\ op.pc = "index"
  /\ buckets' = Reindexed
  /\ liveCount' = Cardinality(LiveSlots)
  /\ indexEpoch' = IF \E k \in LiveKeys : KeyMayMove(k) THEN epoch ELSE Stable
  /\ indexAnchor' = mapAddr
  /\ op' = [op EXCEPT !.pc = op.then]
  /\ UNCHANGED <<entries, cap, weak, heap, held, walks>>

Forgotten(f, k) == [i \in Iters |-> f[i] \ {k}]

\* The end of find: a read, an update in place, a removal, or a miss.
Miss ==
  /\ op.pc = "miss" \/ (op.pc = "probe" /\ Probe(op.key) = 0)
  /\ op' = AfterMiss(op)
  /\ UNCHANGED <<table, weak, heap, held, walks>>

ProbeGet ==
  /\ op.pc = "probe" /\ op.name = "get" /\ Probe(op.key) # 0
  /\ op' = Done(op, entries[Probe(op.key)].val)
  /\ UNCHANGED <<table, weak, heap, held, walks>>

ProbeSet ==
  /\ op.pc = "probe" /\ op.name = "set" /\ Probe(op.key) # 0
  /\ entries' = [entries EXCEPT ![Probe(op.key)].val = op.val]
  /\ op' = Done(op, "ok")
  /\ UNCHANGED <<cap, buckets, liveCount, indexEpoch, indexAnchor, weak, heap, held, walks>>

\* remove: the bucket is left pointing at the tombstone.
ProbeDelete ==
  /\ op.pc = "probe" /\ op.name = "delete" /\ Probe(op.key) # 0
  /\ entries' = [entries EXCEPT ![Probe(op.key)] = Tombstone]
  /\ liveCount' = liveCount - 1
  /\ owed' = Forgotten(owed, op.key) /\ given' = Forgotten(given, op.key)
  /\ op' = Done(op, "true")
  /\ UNCHANGED <<cap, buckets, indexEpoch, indexAnchor, weak, heap, held, iter>>

\* growEntries, once its block is allocated: the live entries move up.
Grow ==
  /\ op.pc = "grow"
  /\ entries' = Compacted /\ cap' = op.cap
  /\ liveCount' = Len(Compacted)
  /\ op' = [op EXCEPT !.pc = "index", !.then = "insert"]
  /\ UNCHANGED <<buckets, indexEpoch, indexAnchor, weak, heap, held, walks>>

Insert ==
  /\ op.pc = "insert"
  /\ entries' = Append(entries, [key |-> op.key, val |-> op.val])
  /\ buckets' = Place(buckets, HashKey(op.key), Len(entries) + 1)
  /\ liveCount' = liveCount + 1
  /\ indexEpoch' = IF indexEpoch = Stable /\ KeyMayMove(op.key) THEN epoch ELSE indexEpoch
  /\ op' = Done(op, "ok")
  /\ UNCHANGED <<cap, indexAnchor, weak, heap, held, walks>>

Return ==
  /\ op.pc = "done"
  /\ op' = Idle
  /\ UNCHANGED <<table, weak, heap, held, walks>>

\* clear: the slots are handed out again from the first, and the index is
\* disowned.  Weak tables have no clear.
Clear ==
  /\ op.pc = "idle" /\ ~weak
  /\ entries' = <<>> /\ liveCount' = 0
  /\ indexEpoch' = Unbuilt /\ indexAnchor' = Unbuilt
  /\ owed' = [i \in Iters |-> {}] /\ given' = [i \in Iters |-> {}]
  /\ UNCHANGED <<cap, buckets, weak, heap, held, op, iter>>

-----------------------------------------------------------------------------
(* Iterators (rtMakeMapIterator, rtMapIteratorStep); forEach and the records *)
(* of for-of walk with a cursor of the same kind.                            *)

MakeIterator(i) ==
  /\ op.pc = "idle" /\ ~weak /\ iter[i].st = "unmade"
  /\ iter' = [iter EXCEPT ![i].st = "open"]
  /\ owed' = [owed EXCEPT ![i] = LiveKeys]
  /\ UNCHANGED <<table, weak, heap, held, op, given>>

\* The live slots the cursor has not passed.
Ahead(i) == {s \in LiveSlots : s > iter[i].at}

\* The cursor after slot s is given.
Past_Stays(s) == s - 1
Past(s) == s

IteratorStep(i) ==
  /\ op.pc = "idle" /\ iter[i].st = "open" /\ Ahead(i) # {}
  /\ LET s == Min(Ahead(i)) k == entries[s].key
     IN  /\ iter' = [iter EXCEPT ![i].at = Past(s)]
         /\ owed' = [owed EXCEPT ![i] = @ \ {k}]
         /\ given' = [given EXCEPT ![i] = @ \union {k}]
  /\ UNCHANGED <<table, weak, heap, held, op>>

\* Past the last slot the iterator lets go of its map.
IteratorEnd(i) ==
  /\ op.pc = "idle" /\ iter[i].st = "open" /\ Ahead(i) = {}
  /\ iter' = [iter EXCEPT ![i].st = "done"]
  /\ UNCHANGED <<table, weak, heap, held, op, owed, given>>

-----------------------------------------------------------------------------
(* The collector, as the table sees it (external) *)

\* The program drops its last reference to a key; only then may a weak table
\* lose it.  Dropping keys of a strong table changes nothing here.
Forget(k) ==
  /\ op.pc = "idle" /\ weak /\ k \in held \intersect Objects
  /\ held' = held \ {k}
  /\ UNCHANGED <<table, weak, heap, op, walks>>

\* An operation collects only where it allocates.
Allocates ==
  \/ op.pc \in {"idle", "grow"}
  \/ op.pc = "index" /\ BucketCount # BucketCountFor(cap)

\* Young objects may move or grow old, old ones never move; the epoch counts
\* the collections that moved something.  traceEphemerons: the entry of a dead
\* key of a weak table becomes a tombstone, and nothing else is touched.
Collect ==
  /\ Allocates
  /\ \E to \in [Objects -> Addrs], mapTo \in MapAddrs, old \in SUBSET young,
        dead \in SUBSET (Objects \ held), e \in {epoch, epoch + 1} :
       /\ \A o, p \in Objects : o # p => to[o] # to[p]
       /\ \A o \in Objects \ young : to[o] = addr[o]
       /\ e = epoch => to = addr /\ mapTo = mapAddr
       /\ e <= MaxEpoch
       /\ entries' = [s \in DOMAIN entries |->
                        IF entries[s].key \in dead THEN Tombstone ELSE entries[s]]
       /\ addr' = to /\ young' = young \ old
       /\ mapAddr' = mapTo /\ epoch' = e
  /\ UNCHANGED <<cap, buckets, liveCount, indexEpoch, indexAnchor, weak, held, op, walks>>

Next ==
  \/ \E k \in Keys : Call("get", k, Absent) \/ Call("delete", k, Absent) \/ Forget(k)
  \/ \E k \in Keys, v \in Vals : Call("set", k, v)
  \/ Reindex \/ Miss \/ ProbeGet \/ ProbeSet \/ ProbeDelete
  \/ Grow \/ Insert \/ Return \/ Clear
  \/ \E i \in Iters : MakeIterator(i) \/ IteratorStep(i) \/ IteratorEnd(i)
  \/ Collect

Spec == Init /\ [][Next]_vars

-----------------------------------------------------------------------------
(* Properties *)

\* A lookup goes wrong when the index is trusted after the collector moved a
\* key, when a chain is cut at a tombstone, or when a compaction renumbers
\* slots under it: whatever happened before, the table behaves like an ordered
\* map, each call answers what that map answers, values stay with their keys
\* and only keys the program cannot name disappear (map.cpp, all of it).
Order == [n \in 1 .. Len(Compacted) |-> Compacted[n].key]
ValueOf ==
  [k \in Keys |-> IF k \in LiveKeys
                   THEN (CHOOSE e \in {entries[s] : s \in LiveSlots} : e.key = k).val
                   ELSE Absent]
Abstract == INSTANCE OrderedMap
              WITH order <- Order, val <- ValueOf, NoKey <- Hole, ret <- op.res,
                   call <- [name |-> op.name, key |-> op.key, val |-> op.val]
ImplementsOrderedMap == Abstract!Spec

\* find: "the table is never more than half full - tombstoned buckets
\* included": so every probe meets an empty bucket and ends.
ProbesEnd ==
  op.pc \in {"probe", "insert"} =>
    2 * Cardinality({b \in DOMAIN buckets : buckets[b] # 0}) <= BucketCount

\* An iterator never gives a key again unless it was removed and added anew,
\* however often the list was compacted or cleared under its cursor.
NeverGivenTwice ==
  \A i \in Iters, s \in LiveSlots :
    iter[i].st = "open" /\ entries[s].key \in given[i] => s <= iter[i].at

\* map.h: a delete tombstones because moving the later entries would "break
\* the iteration order a live iterator is holding a cursor into": a finished
\* iterator has given every key that was there all the time it walked.
FinishedGaveAll == \A i \in Iters : iter[i].st = "done" => owed[i] = {}
=============================================================================
