----------------------------- MODULE StringMap -----------------------------
(***************************************************************************)
(* src/string_map.c: maps from strings to strings kept in an array of      *)
(* key/value slots that is searched from its start.  Removing a pair       *)
(* leaves a hole; pairs never move.                                        *)
(*                                                                         *)
(* Keys are sequences of characters, because the search compares           *)
(* characters; values are opaque.  Every allocation may fail.  live[m]     *)
(* counts the blocks map m has allocated and not freed.  A call is one     *)
(* action, except rcutils_string_map_copy, a loop of calls on two maps.    *)
(***************************************************************************)
EXTENDS Integers, Sequences, FiniteSets

CONSTANTS
  Map,           \* the maps
  Key,           \* the keys, sequences of characters
  Value,
  NULL,          \* no key, no value
  Lookups,       \* the <<key, key_length>> callers pass to getn
  Reservations,  \* the capacities callers reserve
  MaxCapacity,   \* bound: a larger array of slots cannot be allocated
  MaxLeak        \* bound: no map is initialized after losing more blocks

ASSUME StringMapAssumption ==
  /\ NULL \notin Map /\ NULL \notin Key /\ NULL \notin Value
  /\ \A key \in Key : key \in Seq({key[i] : i \in DOMAIN key})
  /\ Reservations \subseteq 0..MaxCapacity /\ MaxCapacity \in Nat
  /\ MaxLeak \in Nat

VARIABLES
  sm,       \* sm[m]: the state of map m
  live,     \* live[m]: blocks map m has allocated and not freed
  cut,      \* history: cut[m] once an array of m with pairs beyond its new end shrank
  ret,      \* the last call, its map and what it returned
  copying   \* the call of rcutils_string_map_copy in progress, if any

vars == <<sm, live, cut, ret, copying>>

Empty == [key |-> NULL, value |-> NULL]
NotInitialized == [impl |-> FALSE, capacity |-> 0, size |-> 0,
                   pairs |-> [i \in {} |-> Empty]]
NoCopy == [src |-> NULL, dst |-> NULL, slot |-> -1, before |-> NULL]

Init ==
  /\ sm = [m \in Map |-> NotInitialized]
  /\ live = [m \in Map |-> 0]
  /\ cut = [m \in Map |-> FALSE]
  /\ ret = [call |-> "none", map |-> NULL, code |-> "OK", data |-> NULL]
  /\ copying = NoCopy

Replies(call, m, code) ==
  ret' = [call |-> call, map |-> m, code |-> code, data |-> NULL]

Slots(s) == 0 .. s.capacity - 1
Occupied(s) == {i \in Slots(s) : s.pairs[i].key # NULL}
Smallest(is) == CHOOSE i \in is : \A j \in is : i <= j

-----------------------------------------------------------------------------
(* strncmp(a, b, n) == 0 on C strings *)
Upto(a, n) == SubSeq(a, 1, IF n < Len(a) THEN n ELSE Len(a))
StrnEqual(a, b, n) == Upto(a, n) = Upto(b, n)

(* __get_index_of_key_if_exists: as many characters are compared as the *)
(* longer of the two keys has                                            *)
CmpCount(stored, key_length) ==
  IF key_length > Len(stored) THEN key_length ELSE Len(stored)
\* Mutant: the search stops after as many slots as there are pairs.
IndexesUptoSize(s, key, key_length) ==
  {i \in Occupied(s) :
     i < s.size /\ StrnEqual(key, s.pairs[i].key, CmpCount(s.pairs[i].key, key_length))}
IndexesOfKey(s, key, key_length) ==
  {i \in Occupied(s) : StrnEqual(key, s.pairs[i].key, CmpCount(s.pairs[i].key, key_length))}
KeyExists(s, key) == IndexesOfKey(s, key, Len(key)) # {}
IndexOfKey(s, key) == Smallest(IndexesOfKey(s, key, Len(key)))

(* rcutils_string_map_reserve, given that the memory is there: the capacity *)
(* it settles on, and the map with that capacity                            *)
CapacityFor(s, n) == IF n < s.size THEN s.size ELSE n
Reserved(s, n) ==
  LET cap == CapacityFor(s, n)
  IN  [impl |-> TRUE, capacity |-> cap, size |-> s.size,
       pairs |-> [i \in 0 .. cap - 1 |-> IF i < s.capacity THEN s.pairs[i] ELSE Empty]]
\* The array of slots is one block; it exists unless the capacity is zero.
ArrayBlocks(s) == IF s.capacity = 0 THEN 0 ELSE 1
\* Pairs in slots that the smaller array does not have are cut off.
CutsOff(s, n) == \E i \in Occupied(s) : i >= CapacityFor(s, n)
ReserveNeedsMemory(s, n) == CapacityFor(s, n) \notin {0, s.capacity}

(* __remove_key_and_value_at_index *)
Removed(s, i) ==
  [impl |-> TRUE, capacity |-> s.capacity, size |-> s.size - 1,
   pairs |-> [s.pairs EXCEPT ![i] = Empty]]

(* rcutils_string_map_clear *)
Cleared(s) ==
  [impl |-> TRUE, capacity |-> s.capacity, size |-> s.size - Cardinality(Occupied(s)),
   pairs |-> [i \in Slots(s) |-> Empty]]

(* rcutils_string_map_set_no_resize, given that the memory is there *)
FreeSlot(s) == Smallest(Slots(s) \ Occupied(s))
Full(s) == s.size = s.capacity
WithPair(s, key, value) ==
  LET i == IF KeyExists(s, key) THEN IndexOfKey(s, key) ELSE FreeSlot(s)
  IN  [impl |-> TRUE, capacity |-> s.capacity,
       size |-> IF KeyExists(s, key) THEN s.size ELSE s.size + 1,
       pairs |-> [s.pairs EXCEPT ![i] = [key |-> key, value |-> value]]]

-----------------------------------------------------------------------------
Idle == copying = NoCopy
Update(m, s) == sm' = [sm EXCEPT ![m] = s]
Owns(m, blocks) == live' = [live EXCEPT ![m] = @ + blocks]

(* rcutils_string_map_init: impl cannot be allocated; or it can, the reserve *)
(* that follows fails, and impl is freed                                     *)
ImplFreed(blocks) == blocks - 1
InitMap(m, n) ==
  /\ Idle
  /\ LET fresh == Reserved(NotInitialized, n)
     IN  \/ /\ ~sm[m].impl /\ live[m] <= MaxLeak
            /\ Update(m, fresh) /\ Owns(m, 1 + ArrayBlocks(fresh))
            /\ Replies("init", m, "OK")
         \/ /\ ~sm[m].impl
            /\ \/ UNCHANGED live
               \/ /\ ReserveNeedsMemory(NotInitialized, n)
                  /\ live' = [live EXCEPT ![m] = ImplFreed(@ + 1)]
            /\ UNCHANGED sm
            /\ Replies("init", m, "BAD_ALLOC")
         \/ /\ sm[m].impl
            /\ UNCHANGED <<sm, live>>
            /\ Replies("init", m, "ALREADY_INIT")
  /\ UNCHANGED <<cut, copying>>

(* rcutils_string_map_fini: clear, reserve nothing, free impl.  What reserve *)
(* frees is the array, if it settles on no capacity at all.                  *)
FiniMap(m) ==
  /\ Idle /\ sm[m].impl
  /\ LET s == sm[m]
         t == Reserved(Cleared(s), 0)
     IN  /\ Owns(m, - 2 * Cardinality(Occupied(s)) - (ArrayBlocks(s) - ArrayBlocks(t)) - 1)
         /\ Update(m, NotInitialized)
  /\ Replies("fini", m, "OK")
  /\ UNCHANGED <<cut, copying>>

\* reserve has to move the array, because size is not zero after clear.
FiniFails(m) ==
  /\ Idle /\ sm[m].impl
  /\ ReserveNeedsMemory(Cleared(sm[m]), 0)
  /\ Update(m, Cleared(sm[m]))
  /\ Owns(m, - 2 * Cardinality(Occupied(sm[m])))
  /\ Replies("fini", m, "BAD_ALLOC")
  /\ UNCHANGED <<cut, copying>>

(* rcutils_string_map_reserve *)
Reserve(m, n) ==
  /\ Idle /\ sm[m].impl
  /\ \/ /\ Update(m, Reserved(sm[m], n))
        /\ Owns(m, ArrayBlocks(Reserved(sm[m], n)) - ArrayBlocks(sm[m]))
        /\ cut' = [cut EXCEPT ![m] = @ \/ CutsOff(sm[m], n)]
        /\ Replies("reserve", m, "OK")
     \/ /\ ReserveNeedsMemory(sm[m], n)
        /\ UNCHANGED <<sm, live, cut>>
        /\ Replies("reserve", m, "BAD_ALLOC")
  /\ UNCHANGED copying

(* rcutils_string_map_clear *)
Clear(m) ==
  /\ Idle /\ sm[m].impl
  /\ Update(m, Cleared(sm[m]))
  /\ Owns(m, - 2 * Cardinality(Occupied(sm[m])))
  /\ Replies("clear", m, "OK")
  /\ UNCHANGED <<cut, copying>>

(* rcutils_string_map_unset *)
Unset(m, key) ==
  /\ Idle /\ sm[m].impl
  /\ IF KeyExists(sm[m], key)
     THEN /\ Update(m, Removed(sm[m], IndexOfKey(sm[m], key)))
          /\ Owns(m, -2)
          /\ Replies("unset", m, "OK")
     ELSE UNCHANGED <<sm, live>> /\ Replies("unset", m, "KEY_NOT_FOUND")
  /\ UNCHANGED <<cut, copying>>

(* rcutils_string_map_set_no_resize, on the map s that m has by now: store  *)
(* the pair; or free what was duplicated when one of the duplications fails *)
\* Mutants: the duplicated key is not freed when the value cannot be duplicated;
\* the old pair is dropped before the new value is there.
StoreLeaksKey(call, m, s, grown, key, value) ==
  LET old == KeyExists(s, key)
  IN  \/ /\ Update(m, WithPair(s, key, value))
         /\ Owns(m, grown + (IF old THEN 0 ELSE 2))
         /\ Replies(call, m, "OK")
      \/ /\ Update(m, s)
         /\ Owns(m, grown + (IF old THEN 0 ELSE 1))
         /\ Replies(call, m, "BAD_ALLOC")
StoreDropsFirst(call, m, s, grown, key, value) ==
  LET old == KeyExists(s, key)
  IN  \/ /\ Update(m, WithPair(s, key, value))
         /\ Owns(m, grown + (IF old THEN 0 ELSE 2))
         /\ Replies(call, m, "OK")
      \/ /\ Update(m, IF old THEN Removed(s, IndexOfKey(s, key)) ELSE s)
         /\ Owns(m, grown - (IF old THEN 2 ELSE 0))
         /\ Replies(call, m, "BAD_ALLOC")
Store(call, m, s, grown, key, value) ==
  LET old == KeyExists(s, key)
  IN  \/ /\ Update(m, WithPair(s, key, value))
         /\ Owns(m, grown + (IF old THEN 0 ELSE 2))
         /\ Replies(call, m, "OK")
      \/ /\ Update(m, s)
         /\ Owns(m, grown)
         /\ Replies(call, m, "BAD_ALLOC")

SetNoResize(m, key, value) ==
  /\ Idle /\ sm[m].impl
  /\ IF Full(sm[m]) /\ ~KeyExists(sm[m], key)
     THEN UNCHANGED <<sm, live>> /\ Replies("set_no_resize", m, "NOT_ENOUGH_SPACE")
     ELSE Store("set_no_resize", m, sm[m], 0, key, value)
  /\ UNCHANGED <<cut, copying>>

(* rcutils_string_map_set: a full map is given twice the slots first *)
SetPair(call, m, key, value) ==
  LET s == sm[m]
      n == IF s.capacity = 0 THEN 1 ELSE 2 * s.capacity
      t == Reserved(s, n)
  IN  IF ~Full(s) \/ KeyExists(s, key)
      THEN Store(call, m, s, 0, key, value)
      ELSE \/ /\ n <= MaxCapacity
              /\ IF Full(t) THEN /\ Update(m, t) /\ Owns(m, ArrayBlocks(t) - ArrayBlocks(s))
                                 /\ Replies(call, m, "NOT_ENOUGH_SPACE")
                 ELSE Store(call, m, t, ArrayBlocks(t) - ArrayBlocks(s), key, value)
           \/ UNCHANGED <<sm, live>> /\ Replies(call, m, "BAD_ALLOC")

Set(m, key, value) ==
  /\ Idle /\ sm[m].impl
  /\ SetPair("set", m, key, value)
  /\ UNCHANGED <<cut, copying>>

(* rcutils_string_map_getn; rcutils_string_map_get passes strlen(key), and *)
(* the key_exists functions ask whether there is a value                   *)
Getn(m, key, key_length) ==
  LET found == IndexesOfKey(sm[m], key, key_length)
  IN  /\ Idle /\ sm[m].impl
      /\ ret' = [call |-> "getn", map |-> m, code |-> "OK",
                 data |-> [key |-> key, key_length |-> key_length,
                           value |-> IF found = {} THEN NULL
                                     ELSE sm[m].pairs[Smallest(found)].value]]
      /\ UNCHANGED <<sm, live, cut, copying>>

-----------------------------------------------------------------------------
\* What a map holds.
ValueOf(s, key) ==
  IF \E i \in Slots(s) : s.pairs[i].key = key
  THEN s.pairs[CHOOSE i \in Slots(s) : s.pairs[i].key = key].value ELSE NULL
Contents(s) == [key \in Key |-> ValueOf(s, key)]

(* rcutils_string_map_get_next_key, the slot of the key given, -1 for NULL *)
\* Mutants: the search begins one slot too far, or at the key it was given.
LaterSlotsSkip(s, slot) == {i \in Occupied(s) : i > slot + 1}
LaterSlotsSame(s, slot) == {i \in Occupied(s) : i >= slot}
LaterSlots(s, slot) == {i \in Occupied(s) : i > slot}

(* rcutils_string_map_copy: the loop, from key to key of the source *)
CopyBegins(src, dst) ==
  /\ Idle /\ sm[src].impl /\ sm[dst].impl
  /\ copying' = [src |-> src, dst |-> dst, slot |-> -1, before |-> Contents(sm[dst])]
  /\ UNCHANGED <<sm, live, cut, ret>>

CopyPair ==
  LET later == LaterSlots(sm[copying.src], copying.slot)
      i     == Smallest(later)
      pair  == sm[copying.src].pairs[i]
  IN  /\ ~Idle /\ later # {}
      /\ SetPair("copy", copying.dst, pair.key, pair.value)
      /\ copying' = IF ret'.code = "OK"
                    THEN [src |-> copying.src, dst |-> copying.dst, slot |-> i,
                          before |-> copying.before]
                    ELSE NoCopy
      /\ UNCHANGED cut

CopyEnds ==
  /\ ~Idle /\ LaterSlots(sm[copying.src], copying.slot) = {}
  /\ Replies("copied", copying.dst, "OK")
  /\ copying' = NoCopy
  /\ UNCHANGED <<sm, live, cut>>

Next ==
  \/ \E m \in Map :
       \/ \E n \in Reservations : InitMap(m, n) \/ Reserve(m, n)
       \/ FiniMap(m) \/ FiniFails(m) \/ Clear(m)
       \/ \E key \in Key : \/ Unset(m, key)
                           \/ \E v \in Value : Set(m, key, v) \/ SetNoResize(m, key, v)
       \/ \E l \in Lookups : Getn(m, l[1], l[2])
       \/ \E dst \in Map : CopyBegins(m, dst)
  \/ CopyPair \/ CopyEnds

Spec == Init /\ [][Next]_vars

\* A copy that has begun goes on while its allocations succeed; the copy is not
\* saved from running for ever by an allocation that fails, unless growing would
\* exceed MaxCapacity.
CopyProceeds ==
  CopyPair /\ (ret'.code = "OK" \/ 2 * sm[copying.dst].capacity > MaxCapacity)
FairSpec == Spec /\ WF_vars(CopyProceeds \/ CopyEnds)

-----------------------------------------------------------------------------
SlotContents == [key : Key \union {NULL}, value : Value \union {NULL}]

\* Types; a slot has a key exactly if it has a value.
TypeOK ==
  /\ \A m \in Map :
       /\ sm[m].impl \in BOOLEAN
       /\ sm[m].capacity \in 0..MaxCapacity
       /\ sm[m].size \in Nat
       /\ sm[m].pairs \in [Slots(sm[m]) -> SlotContents]
       /\ \A i \in Slots(sm[m]) : sm[m].pairs[i].key = NULL <=> sm[m].pairs[i].value = NULL
  /\ live \in [Map -> Int] /\ cut \in [Map -> BOOLEAN]
  /\ copying = NoCopy \/ (copying.src \in Map /\ copying.dst \in Map)

\* size is the number of occupied slots, on every path of set, unset, clear, copy
\* and their failures, as long as no reservation has cut off a pair.
SizeIsExact == \A m \in Map : ~cut[m] => sm[m].size = Cardinality(Occupied(sm[m]))

\* No key is in two slots, so that unset removes it and set overwrites it.
KeysAreDistinct ==
  \A m \in Map : \A i, j \in Occupied(sm[m]) :
    sm[m].pairs[i].key = sm[m].pairs[j].key => i = j

\* Every block is owned by exactly one map: the array of slots and two strings for
\* each pair.  Nothing leaks when a duplication or a resize fails, nothing after
\* fini ("will free any resources", string_map.h), as long as no reservation has
\* cut off a pair.
MemoryIsAccounted ==
  \A m \in Map : ~cut[m] =>
    live[m] = IF sm[m].impl
              THEN 1 + ArrayBlocks(sm[m]) + 2 * Cardinality(Occupied(sm[m])) ELSE 0

\* The two assertions marked "should not happen" in
\* rcutils_string_map_set_no_resize (lines 289 and 298) never fire, not even after
\* a reservation that shrinks the array.
AssertionsHold ==
  \A m \in Map : sm[m].impl =>
    /\ sm[m].size <= sm[m].capacity
    /\ ~Full(sm[m]) => Slots(sm[m]) \ Occupied(sm[m]) # {}

\* The structure of every map, after every call and between the steps of a copy.
MapsAreSound == TypeOK /\ SizeIsExact /\ KeysAreDistinct /\ AssertionsHold

\* "No existing key value pairs will be truncated" by rcutils_string_map_reserve
\* (string_map.h): a reservation changes no pair of any map.
ReserveKeepsPairs ==
  [][ret'.call = "reserve" => \A m \in Map : Contents(sm'[m]) = Contents(sm[m])]_vars

\* What a copy leaves that has passed the source's slots up to the present one.
HasUpto(s, slot, key) == \E i \in Slots(s) : i <= slot /\ s.pairs[i].key = key
CopiedSoFar(key) ==
  IF HasUpto(sm[copying.src], copying.slot, key)
  THEN ValueOf(sm[copying.src], key) ELSE copying.before[key]

\* What a call that reports a failure has done.  A call on one map has changed no
\* pair of any map; a fini that cannot finish has removed every pair of its map, and
\* nothing else.  A copy has left the pairs of the slots it has passed in the
\* destination (string_map.h:421), what was there before under every other key, and
\* all other maps alone, whether its last pair failed before or after growing.
Failures == {"BAD_ALLOC", "NOT_ENOUGH_SPACE", "KEY_NOT_FOUND", "ALREADY_INIT"}
Unharmed(m) == Contents(sm'[m]) = Contents(sm[m])
CallFailureIsContained ==
  (Idle /\ Idle' /\ ret'.code \in Failures) =>
     /\ \A m \in Map : Unharmed(m) \/ (ret'.call = "fini" /\ m = ret'.map)
     /\ ret'.call = "fini" => Contents(sm'[ret'.map]) = [key \in Key |-> NULL]
CopyFailureIsContained ==
  (~Idle /\ Idle' /\ ret'.code \in Failures) =>
     /\ \A m \in Map \ {copying.dst} : Unharmed(m)
     /\ Contents(sm'[copying.dst]) = [key \in Key |-> CopiedSoFar(key)]
FailureIsContained == [][CallFailureIsContained /\ CopyFailureIsContained]_vars

\* A copy that returns has overwritten exactly the keys of the source, and kept the
\* other pairs of the destination, however often the destination was resized.
CopyIsComplete ==
  [][~Idle /\ ret'.call = "copied" =>
       \A key \in Key :
         ValueOf(sm[copying.dst], key) =
           IF ValueOf(sm[copying.src], key) # NULL
           THEN ValueOf(sm[copying.src], key) ELSE copying.before[key]]_vars

\* rcutils_string_map_getn is rcutils_string_map_get for the first key_length
\* characters ("without relying on key to be a null terminated c string").
GetnFindsTheKey ==
  [][ret'.call = "getn" =>
       LET key == Upto(ret'.data.key, ret'.data.key_length)
       IN  ret'.data.value = IF key \in Key THEN ValueOf(sm[ret'.map], key) ELSE NULL]_vars

\* The loop of rcutils_string_map_copy ends.
CopyTerminates == ~Idle ~> Idle
=============================================================================
