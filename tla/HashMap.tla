------------------------------ MODULE HashMap ------------------------------
(***************************************************************************)
(* src/hash_map.c: a hash map with chained buckets, each bucket an         *)
(* rcutils_array_list_t (src/array_list.c) of pointers to entries.         *)
(*                                                                         *)
(* A map belongs to one caller at a time, so a call is one action, except  *)
(* rcutils_hash_map_set: its trailing hash_map_check_and_grow_map is a     *)
(* loop over all entries, and the actions of stage "grow" and "rehash" are *)
(* the steps of that loop.  No other call starts before it has ended.      *)
(*                                                                         *)
(* Every allocation may fail.  live counts the blocks of memory that the   *)
(* map has allocated and not freed.                                        *)
(***************************************************************************)
EXTENDS Integers, Sequences, FiniteSets

CONSTANTS
  Key, Value,
  NULL,             \* no key, no value
  Hash,             \* key_hashing_func
  BitAnd(_, _),        \* the & of C on size_t
  InitialCapacity,  \* the capacities callers ask for
  MaxCapacity       \* bound: a larger array of buckets cannot be allocated

\* As the code writes it at line 273: no bit of c survives c & (c - 1).
IsPowerOfTwo(c) == BitAnd(c, c - 1) = 0

ASSUME KeyAssumption == IsFiniteSet(Key) /\ NULL \notin Key /\ NULL \notin Value
ASSUME HashAssumption == Hash \in [Key -> Nat]
ASSUME CapacityAssumption ==
  /\ MaxCapacity \in Nat
  /\ InitialCapacity \subseteq 1..MaxCapacity
  /\ \A n \in InitialCapacity : \E c \in n..MaxCapacity : IsPowerOfTwo(c)
\* What the comment in hash_map_find says of &: for a power of two it masks.
ASSUME MaskAssumption ==
  \A c \in 1..MaxCapacity : IsPowerOfTwo(c) =>
    /\ IsPowerOfTwo(2 * c)
    /\ \A k \in Key : BitAnd(Hash[k], c - 1) = Hash[k] % c

BUCKET_INITIAL_CAP == 2

VARIABLES
  initialized,  \* impl is not NULL
  capacity,     \* impl->capacity
  size,         \* impl->size
  list,         \* list[b]: the entries of bucket b of impl->map, in order
  room,         \* room[b]: the capacity of bucket b's array list, 0 if not made
  stage,        \* "idle", or "grow" / "rehash" inside rcutils_hash_map_set
  new_list, new_room,     \* new_map of hash_map_check_and_grow_map
  map_index, bucket_index,  \* its loop counters, the latter from 1
  live,         \* blocks allocated and not freed
  ret,          \* what the last call returned; "pending" inside a call
  cursor, seen  \* the caller's traversal: previous_key, and the keys so far

mapVars == <<initialized, capacity, size, list, room>>
growVars == <<new_list, new_room, map_index, bucket_index>>
callerVars == <<ret, cursor, seen>>
vars == <<mapVars, growVars, callerVars, stage, live>>

Entry == [hashed_key : Nat, key : Key, value : Value]

-----------------------------------------------------------------------------
Reply(code, k, v) == [code |-> code, key |-> k, data |-> v]
Replies(code) == ret' = Reply(code, NULL, NULL)

\* Any change to the map ends the caller's traversal.
TraversalEnds == cursor' = NULL /\ seen' = {}

(* hash_map_allocate_new_map: every bucket zero initialized *)
NoEntries(cap) == [b \in 0 .. cap - 1 |-> <<>>]
NoRoom(cap) == [b \in 0 .. cap - 1 |-> 0]

Init ==
  /\ initialized = FALSE /\ capacity = 0 /\ size = 0
  /\ list = NoEntries(0) /\ room = NoRoom(0)
  /\ stage = "idle"
  /\ new_list = NoEntries(0) /\ new_room = NoRoom(0)
  /\ map_index = 0 /\ bucket_index = 1
  /\ live = 0
  /\ ret = Reply("OK", NULL, NULL) /\ cursor = NULL /\ seen = {}

\* The keys stored in the buckets l, wherever they are.
Stored(l) == {k \in Key : \E b \in DOMAIN l : \E j \in DOMAIN l[b] : l[b][j].key = k}

(* hash_map_find: the bucket, and the position in it of the first match *)
MapIndex(k) == BitAnd(Hash[k], capacity - 1)
Matches(k) ==
  {j \in DOMAIN list[MapIndex(k)] :
     /\ list[MapIndex(k)][j].hashed_key = Hash[k]
     /\ list[MapIndex(k)][j].key = k}
Found(k) == Matches(k) # {}
FoundAt(k) == CHOOSE j \in Matches(k) : \A i \in Matches(k) : j <= i

(* rcutils_array_list_add needs memory for the list or for a longer one; *)
(* hash_map_insert_entry makes the list of a bucket that has none.        *)
NeedsMemory(l, r, b) == r[b] = 0 \/ Len(l[b]) + 1 > r[b]
\* Mutant: an array list grows one element too late.
RoomTooLate(l, r, b) ==
  IF r[b] = 0 THEN BUCKET_INITIAL_CAP
  ELSE IF Len(l[b]) > r[b] THEN 2 * r[b] ELSE r[b]
RoomFor(l, r, b) ==
  IF r[b] = 0 THEN BUCKET_INITIAL_CAP
  ELSE IF Len(l[b]) + 1 > r[b] THEN 2 * r[b] ELSE r[b]
\* An array list is two blocks, its impl and its data; growing it is a realloc.
BlocksFor(r, b) == IF r[b] = 0 THEN 2 ELSE 0

(* hash_map_deallocate_entry: what it frees of a partly allocated entry *)
EntryParts == {"entry", "key", "value"}
\* Mutant: the value of the entry is not freed.
DeallocateWithoutValue(parts) == IF "entry" \in parts THEN parts \ {"value"} ELSE {}
DeallocateEntry(parts) == IF "entry" \in parts THEN parts ELSE {}

(* hash_map_deallocate_map: the blocks it frees, with or without the entries *)
BucketBlocks(r) == 1 + 2 * Cardinality({b \in DOMAIN r : r[b] # 0})
Positions(l) == UNION {{b} \X DOMAIN l[b] : b \in DOMAIN l}
EntryBlocks(l) == Cardinality(EntryParts) * Cardinality(Positions(l))

(* rcutils_array_list_remove: the later elements move down by one *)
RemoveAt(s, j) == [i \in 1 .. Len(s) - 1 |-> IF i < j THEN s[i] ELSE s[i + 1]]

-----------------------------------------------------------------------------
(* rcutils_hash_map_init.  next_power_of_two is its result, the smallest   *)
(* power of two not below the request; module NextPowerOfTwo computes it.  *)
RoundUp(n) ==
  CHOOSE c \in n..MaxCapacity :
    IsPowerOfTwo(c) /\ \A d \in n..MaxCapacity : IsPowerOfTwo(d) => c <= d

InitMap(n) ==
  LET cap == IF IsPowerOfTwo(n) THEN n ELSE RoundUp(n)
  IN  /\ stage = "idle" /\ ~initialized
      /\ initialized' = TRUE /\ capacity' = cap /\ size' = 0
      /\ list' = NoEntries(cap) /\ room' = NoRoom(cap)
      /\ live' = live + 2
      /\ Replies("OK")
      /\ UNCHANGED <<growVars, cursor, seen, stage>>

\* impl cannot be allocated; or it can, the array of buckets cannot, and impl is freed.
ImplFreed(blocks) == blocks - 1
InitFails ==
  /\ stage = "idle" /\ ~initialized
  /\ UNCHANGED live \/ live' = ImplFreed(live + 1)
  /\ Replies("BAD_ALLOC")
  /\ UNCHANGED <<mapVars, growVars, cursor, seen, stage>>

(* rcutils_hash_map_fini *)
FiniMap ==
  /\ stage = "idle" /\ initialized
  /\ live' = live - EntryBlocks(list) - BucketBlocks(room) - 1
  /\ initialized' = FALSE /\ capacity' = 0 /\ size' = 0
  /\ list' = NoEntries(0) /\ room' = NoRoom(0)
  /\ TraversalEnds
  /\ Replies("OK")
  /\ UNCHANGED <<growVars, stage>>

(* rcutils_hash_map_set of a key that is there: the value is overwritten *)
SetExisting(k, v) ==
  /\ stage = "idle" /\ initialized
  /\ Found(k)
  /\ list' = [list EXCEPT ![MapIndex(k)] =
       [@ EXCEPT ![FoundAt(k)] = [hashed_key |-> Hash[k], key |-> k, value |-> v]]]
  /\ stage' = "grow"
  /\ TraversalEnds
  /\ Replies("pending")
  /\ UNCHANGED <<initialized, capacity, size, room, growVars, live>>

(* rcutils_hash_map_set of a new key, every allocation succeeding *)
SetNew(k, v) ==
  LET b == MapIndex(k)
  IN  /\ stage = "idle" /\ initialized
      /\ ~Found(k)
      /\ list' = [list EXCEPT ![b] =
           Append(@, [hashed_key |-> Hash[k], key |-> k, value |-> v])]
      /\ room' = [room EXCEPT ![b] = RoomFor(list, room, b)]
      /\ live' = live + Cardinality(EntryParts) + BlocksFor(room, b)
      /\ size' = size + 1
      /\ stage' = "grow"
      /\ TraversalEnds
      /\ Replies("pending")
      /\ UNCHANGED <<initialized, capacity, growVars>>

(* rcutils_hash_map_set of a new key, some allocation failing: of a part of *)
(* the entry, or with the entry complete of the memory its bucket needs      *)
SetFails(k) ==
  /\ stage = "idle" /\ initialized
  /\ ~Found(k)
  /\ \E parts \in SUBSET EntryParts :
       /\ parts # {} => "entry" \in parts
       /\ parts = EntryParts => NeedsMemory(list, room, MapIndex(k))
       /\ live' = live + Cardinality(parts) - Cardinality(DeallocateEntry(parts))
  /\ Replies("BAD_ALLOC")
  /\ UNCHANGED <<mapVars, growVars, cursor, seen, stage>>

-----------------------------------------------------------------------------
(* hash_map_check_and_grow_map, the tail of rcutils_hash_map_set, whatever  *)
(* came of it: rcutils_hash_map_set returns RCUTILS_RET_OK                  *)
SetReturns ==
  /\ stage' = "idle"
  /\ Replies("OK")
  /\ UNCHANGED <<cursor, seen>>

\* size >= (size_t)(LOAD_FACTOR * (double)capacity), LOAD_FACTOR being 0.75
Overloaded == size >= (3 * capacity) \div 4

NoGrowth ==
  /\ stage = "grow"
  /\ ~Overloaded
  /\ SetReturns
  /\ UNCHANGED <<mapVars, growVars, live>>

GrowAllocFails ==
  /\ stage = "grow"
  /\ Overloaded
  /\ SetReturns
  /\ UNCHANGED <<mapVars, growVars, live>>

GrowStarts ==
  /\ stage = "grow"
  /\ Overloaded
  /\ 2 * capacity <= MaxCapacity
  /\ new_list' = NoEntries(2 * capacity) /\ new_room' = NoRoom(2 * capacity)
  /\ map_index' = 0 /\ bucket_index' = 1
  /\ live' = live + 1
  /\ stage' = "rehash"
  /\ UNCHANGED <<mapVars, callerVars>>

AtEntry ==
  /\ stage = "rehash"
  /\ map_index < capacity
  /\ bucket_index <= Len(list[map_index])
\* Mutant: the new place is computed with the old capacity.
IndexInOldMap == list[map_index][bucket_index].hashed_key % capacity
RehashIndex == list[map_index][bucket_index].hashed_key % (2 * capacity)

\* The loop body: the entry itself moves, not a copy of it.
RehashEntry ==
  /\ AtEntry
  /\ new_list' = [new_list EXCEPT ![RehashIndex] =
       Append(@, list[map_index][bucket_index])]
  /\ new_room' = [new_room EXCEPT ![RehashIndex] = RoomFor(new_list, new_room, RehashIndex)]
  /\ live' = live + BlocksFor(new_room, RehashIndex)
  /\ bucket_index' = bucket_index + 1
  /\ UNCHANGED <<mapVars, callerVars, stage, map_index>>

\* The new bucket cannot have its memory: the new map is given up.
RehashFails ==
  /\ AtEntry
  /\ NeedsMemory(new_list, new_room, RehashIndex)
  /\ live' = live - BucketBlocks(new_room)
  /\ SetReturns
  /\ new_list' = NoEntries(0) /\ new_room' = NoRoom(0)
  /\ map_index' = 0 /\ bucket_index' = 1
  /\ UNCHANGED mapVars

\* Mutant: the outer loop stands still.
RehashSameBucket ==
  /\ stage = "rehash"
  /\ map_index < capacity
  /\ bucket_index > Len(list[map_index])
  /\ UNCHANGED vars

RehashNextBucket ==
  /\ stage = "rehash"
  /\ map_index < capacity
  /\ bucket_index > Len(list[map_index])
  /\ map_index' = map_index + 1 /\ bucket_index' = 1
  /\ UNCHANGED <<mapVars, callerVars, stage, new_list, new_room, live>>

\* The old map is freed without its entries and the new one takes its place.
GrowEnds ==
  /\ stage = "rehash"
  /\ map_index = capacity
  /\ live' = live - BucketBlocks(room)
  /\ list' = new_list /\ room' = new_room /\ capacity' = 2 * capacity
  /\ new_list' = NoEntries(0) /\ new_room' = NoRoom(0)
  /\ map_index' = 0 /\ bucket_index' = 1
  /\ SetReturns
  /\ UNCHANGED <<initialized, size>>

-----------------------------------------------------------------------------
(* rcutils_hash_map_unset *)
Unset(k) ==
  /\ stage = "idle" /\ initialized
  /\ IF size # 0 /\ Found(k)
     THEN /\ list' = [list EXCEPT ![MapIndex(k)] = RemoveAt(@, FoundAt(k))]
          /\ size' = size - 1
          /\ live' = live - Cardinality(DeallocateEntry(EntryParts))
     ELSE UNCHANGED <<list, size, live>>
  /\ TraversalEnds
  /\ Replies("OK")
  /\ UNCHANGED <<initialized, capacity, room, growVars, stage>>

(* rcutils_hash_map_get; rcutils_hash_map_key_exists is its first result *)
Get(k) ==
  /\ stage = "idle" /\ initialized
  /\ IF size # 0 /\ Found(k)
     THEN ret' = Reply("OK", NULL, list[MapIndex(k)][FoundAt(k)].value)
     ELSE Replies("NOT_FOUND")
  /\ UNCHANGED <<mapVars, growVars, cursor, seen, stage, live>>

(* rcutils_hash_map_get_next_key_and_data: the entries after position j of  *)
(* bucket b, in the order of the search                                     *)
\* Mutant: bucket_index is not reset when the search enters the next bucket.
AfterInEveryBucket(b, j) == {p \in Positions(list) : p[1] >= b /\ p[2] > j}
After(b, j) ==
  {p \in Positions(list) : p[1] > b \/ (p[1] = b /\ p[2] > j)}
FirstOf(ps) ==
  CHOOSE p \in ps : \A q \in ps : p[1] < q[1] \/ (p[1] = q[1] /\ p[2] <= q[2])

NextFrom(rest, sofar) ==
  IF rest = {}
  THEN Replies("NO_MORE_ENTRIES") /\ TraversalEnds
  ELSE LET p == FirstOf(rest)
           e == list[p[1]][p[2]]
       IN  /\ ret' = Reply("OK", e.key, e.value)
           /\ cursor' = e.key /\ seen' = sofar \union {e.key}

\* previous_key is NULL: a traversal begins.
GetFirst ==
  /\ stage = "idle" /\ initialized
  /\ NextFrom(IF size = 0 THEN {} ELSE After(0, 0), {})
  /\ UNCHANGED <<mapVars, growVars, stage, live>>

\* previous_key is the key the traversal was given last.
GetNext ==
  /\ stage = "idle" /\ initialized
  /\ cursor # NULL
  /\ Found(cursor)
  /\ NextFrom(After(MapIndex(cursor), FoundAt(cursor)), seen)
  /\ UNCHANGED <<mapVars, growVars, stage, live>>

\* previous_key is not in the map.
GetNextOfAbsent(k) ==
  /\ stage = "idle" /\ initialized
  /\ size = 0 \/ ~Found(k)
  /\ Replies("NOT_FOUND")
  /\ UNCHANGED <<mapVars, growVars, cursor, seen, stage, live>>

-----------------------------------------------------------------------------
Grow == NoGrowth \/ GrowAllocFails \/ GrowStarts \/ RehashEntry \/ RehashFails
        \/ RehashNextBucket \/ GrowEnds

Next ==
  \/ \E n \in InitialCapacity : InitMap(n)
  \/ InitFails
  \/ FiniMap
  \/ \E k \in Key :
       \/ \E v \in Value : SetExisting(k, v) \/ SetNew(k, v)
       \/ SetFails(k) \/ Unset(k) \/ Get(k) \/ GetNextOfAbsent(k)
  \/ Grow
  \/ GetFirst \/ GetNext

Spec == Init /\ [][Next]_vars

\* A call that has begun runs to its end.
FairSpec == Spec /\ WF_vars(Grow)

-----------------------------------------------------------------------------
Buckets(l, r, cap) ==
  /\ l \in [0 .. cap - 1 -> Seq(Entry)]
  /\ r \in [0 .. cap - 1 -> Nat]

\* Types; the capacity is a power of two whenever the map is initialized.
TypeOK ==
  /\ initialized \in BOOLEAN
  /\ capacity \in 0..MaxCapacity
  /\ initialized <=> capacity # 0
  /\ initialized => IsPowerOfTwo(capacity)
  /\ size \in Nat
  /\ Buckets(list, room, capacity)
  /\ stage \in {"idle", "grow", "rehash"}
  /\ stage # "idle" => initialized
  /\ Buckets(new_list, new_room, IF stage = "rehash" THEN 2 * capacity ELSE 0)
  /\ map_index \in 0..capacity
  /\ bucket_index \in Nat \ {0}
  /\ live \in Int
  /\ ret.code \in {"OK", "BAD_ALLOC", "NOT_FOUND", "NO_MORE_ENTRIES", "pending"}
  /\ cursor \in Key \union {NULL}
  /\ seen \subseteq Key

\* An entry sits in bucket hash % cap of an array of cap buckets, with its hash.
PlacedIn(l, cap) ==
  \A b \in DOMAIN l : \A j \in DOMAIN l[b] :
    l[b][j].hashed_key = Hash[l[b][j].key] /\ l[b][j].hashed_key % cap = b

\* No key has two entries, in one bucket or in two.
DistinctKeys(l) ==
  \A b, c \in DOMAIN l : \A i \in DOMAIN l[b], j \in DOMAIN l[c] :
    l[b][i].key = l[c][j].key => b = c /\ i = j

\* Every stored key is where hash_map_find looks for it, in one place only, at
\* every capacity the map grows through: the lookup masks with &, growing
\* places with %.
EveryEntryIsFound ==
  /\ \A k \in Stored(list) : capacity # 0 /\ Found(k)
  /\ DistinctKeys(list)

\* size is the number of stored keys, also while the map grows and after
\* insertions that failed half-way.
SizeIsExact == size = Cardinality(Stored(list))

\* No element is written past the end of a bucket's array list, in the map and in
\* the map that replaces it.
NoBucketOverrun ==
  /\ \A b \in DOMAIN list : Len(list[b]) <= room[b]
  /\ \A b \in DOMAIN new_list : Len(new_list[b]) <= new_room[b]

\* Every block is owned by exactly one structure: nothing leaks and nothing is
\* freed twice on any success or failure path of init, set, grow, unset and fini.
MemoryIsAccounted ==
  live = (IF initialized THEN 1 + BucketBlocks(room) + EntryBlocks(list) ELSE 0)
       + (IF stage = "rehash" THEN BucketBlocks(new_room) ELSE 0)

\* A rehash in progress has moved exactly the entries before the loop counters,
\* so that giving it up or completing it loses and doubles no entry.
Moved ==
  {k \in Key : \E b \in DOMAIN list : \E j \in DOMAIN list[b] :
     /\ list[b][j].key = k
     /\ b < map_index \/ (b = map_index /\ j < bucket_index)}
RehashKeepsEntries ==
  stage = "rehash" =>
    /\ Stored(new_list) = Moved
    /\ \A b \in DOMAIN new_list : \A j \in DOMAIN new_list[b] :
         \E c \in DOMAIN list : \E i \in DOMAIN list[c] : new_list[b][j] = list[c][i]
    /\ PlacedIn(new_list, 2 * capacity)
    /\ DistinctKeys(new_list)

\* The structure of the map, whenever a call has returned and between any two steps
\* of its growth: all of the above.
MapIsSound == TypeOK /\ SizeIsExact /\ NoBucketOverrun /\ RehashKeepsEntries

-----------------------------------------------------------------------------
(* The map implements the dictionary of module KeyValueStore. *)
ValueOf(k) ==
  LET bs == {b \in DOMAIN list : \E j \in DOMAIN list[b] : list[b][j].key = k}
      bucket == list[CHOOSE b \in bs : TRUE]
  IN  IF bs = {} THEN NULL
      ELSE bucket[CHOOSE j \in DOMAIN bucket : bucket[j].key = k].value

Dict == [k \in Key |-> ValueOf(k)]

Store == INSTANCE KeyValueStore WITH alive <- initialized, dict <- Dict

\* Every call does to the dictionary what hash_map.h says it does and returns what
\* it says it returns: a failed allocation leaves no trace, growing and failing
\* to grow are invisible, a traversal is given each key exactly once.
ImplementsStore == Store!Spec

\* rcutils_hash_map_set returns: the loop that moves the entries ends.
SetTerminates == stage # "idle" ~> stage = "idle"
=============================================================================
