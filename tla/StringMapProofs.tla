-------------------------- MODULE StringMapProofs ---------------------------
(***************************************************************************)
(* String maps are sound, lose no memory and are copied whole, for every   *)
(* set of maps, keys and values and every capacity callers reserve.        *)
(***************************************************************************)
EXTENDS StringMap, FiniteSetTheorems, WellFoundedInduction, TLAPS

\* The structure of one map.  A map whose pairs were cut off by a reservation
\* may count more pairs than it has, never fewer.
Sound(s) ==
  /\ s.impl \in BOOLEAN /\ s.capacity \in 0..MaxCapacity /\ s.size \in Nat
  /\ s.pairs \in [Slots(s) -> SlotContents]
  /\ \A i \in Slots(s) : s.pairs[i].key = NULL <=> s.pairs[i].value = NULL
  /\ \A i, j \in Occupied(s) : s.pairs[i].key = s.pairs[j].key => i = j
  /\ Cardinality(Occupied(s)) <= s.size /\ s.size <= s.capacity
Exact(s) == s.size = Cardinality(Occupied(s))
Blocks(s) == IF s.impl THEN 1 + ArrayBlocks(s) + 2 * Cardinality(Occupied(s)) ELSE 0

\* A copy in progress has two maps that are there.
CopyIsPossible ==
  Idle \/ /\ copying.src \in Map /\ copying.dst \in Map /\ copying.slot \in Int
          /\ sm[copying.src].impl /\ sm[copying.dst].impl

Inv ==
  /\ DOMAIN sm = Map /\ live \in [Map -> Int] /\ cut \in [Map -> BOOLEAN]
  /\ \A m \in Map : /\ Sound(sm[m])
                    /\ ~cut[m] => Exact(sm[m]) /\ live[m] = Blocks(sm[m])
  /\ CopyIsPossible

-----------------------------------------------------------------------------
\* The smallest of a set of slots is one of them.
LEMMA SmallestOf ==
  ASSUME NEW is, is \subseteq Nat, is # {}
  PROVE  Smallest(is) \in is /\ \A j \in is : Smallest(is) <= j
<1> DEFINE R == OpToRel(<, Nat)
<1>1. IsWellFoundedOn(R, Nat)
  BY NatLessThanWellFounded
<1>2. \A i, j \in Nat : j < i => <<j, i>> \in R
  BY DEF OpToRel
<1> HIDE DEF R
<1>3. \E i \in is : \A j \in is : ~(<<j, i>> \in R)
  BY <1>1, WFMin
<1>4. \E i \in is : \A j \in is : i <= j
  <2>1. PICK i \in is : \A j \in is : ~(<<j, i>> \in R)
    BY <1>3
  <2>2. \A j \in is : ~(j < i)
    BY <1>2, <2>1
  <2>3. \A j \in is : j \in Nat /\ i \in Nat
    OBVIOUS
  <2>4. QED
    BY <2>2, <2>3
<1>5. QED
  BY <1>4 DEF Smallest

\* The occupied slots are finitely many, at most as many as there are slots.
LEMMA OccupiedIsFinite ==
  ASSUME NEW s, s.capacity \in Nat
  PROVE  /\ IsFiniteSet(Slots(s)) /\ Cardinality(Slots(s)) = s.capacity
         /\ IsFiniteSet(Occupied(s)) /\ Cardinality(Occupied(s)) \in Nat
         /\ Occupied(s) \subseteq Slots(s) /\ Slots(s) \subseteq Nat
<1>1. IsFiniteSet(Slots(s)) /\ Cardinality(Slots(s)) = s.capacity
  <2> DEFINE last == s.capacity - 1
  <2>1. last \in Int /\ s.capacity = last + 1 /\ (0 > last => s.capacity = 0)
    OBVIOUS
  <2>2. Slots(s) = 0 .. last
    BY DEF Slots
  <2> HIDE DEF last
  <2>3. IsFiniteSet(0 .. last) /\ Cardinality(0 .. last) = IF 0 > last THEN 0 ELSE last - 0 + 1
    BY ONLY <2>1, FS_Interval
  <2>4. QED
    BY <2>1, <2>2, <2>3
<1>2. Occupied(s) \subseteq Slots(s) /\ Slots(s) \subseteq Nat
  BY DEF Occupied, Slots
<1>3. IsFiniteSet(Occupied(s))
  BY <1>1, <1>2, FS_Subset
<1>4. QED
  BY <1>1, <1>2, <1>3, FS_CardinalityType

\* Comparing as many characters as the longer key has is comparing the keys.
LEMMA StrnEqualIsEqual ==
  ASSUME NEW a \in Key, NEW b \in Key
  PROVE  StrnEqual(a, b, CmpCount(b, Len(a))) <=> a = b
<1>1. /\ Len(a) \in Nat /\ SubSeq(a, 1, Len(a)) = a
      /\ Len(b) \in Nat /\ SubSeq(b, 1, Len(b)) = b
  <2>1. a \in Seq({a[i] : i \in DOMAIN a}) /\ b \in Seq({b[i] : i \in DOMAIN b})
    BY StringMapAssumption
  <2>2. \A S : \A c \in Seq(S) : Len(c) \in Nat /\ SubSeq(c, 1, Len(c)) = c
    OBVIOUS
  <2>3. QED
    BY <2>1, <2>2
<1>2. CmpCount(b, Len(a)) >= Len(a) /\ CmpCount(b, Len(a)) >= Len(b) /\ CmpCount(b, Len(a)) \in Nat
  BY <1>1 DEF CmpCount
<1>3. Upto(a, CmpCount(b, Len(a))) = a
  BY <1>1, <1>2 DEF Upto
<1>4. Upto(b, CmpCount(b, Len(a))) = b
  BY <1>1, <1>2 DEF Upto
<1>5. QED
  BY <1>3, <1>4 DEF StrnEqual

\* The search of a whole key finds exactly the slots that have it.
LEMMA SearchFindsTheKey ==
  ASSUME NEW s, Sound(s), NEW key \in Key
  PROVE  /\ IndexesOfKey(s, key, Len(key)) = {i \in Slots(s) : s.pairs[i].key = key}
         /\ KeyExists(s, key) => /\ IndexOfKey(s, key) \in Occupied(s)
                                 /\ s.pairs[IndexOfKey(s, key)].key = key
<1>1. \A i \in Occupied(s) : s.pairs[i].key \in Key
  BY DEF Sound, Occupied, SlotContents
<1>2. IndexesOfKey(s, key, Len(key)) = {i \in Occupied(s) : s.pairs[i].key = key}
  BY <1>1, StrnEqualIsEqual DEF IndexesOfKey
<1>3. {i \in Occupied(s) : s.pairs[i].key = key} = {i \in Slots(s) : s.pairs[i].key = key}
  BY StringMapAssumption DEF Occupied
<1>4. s.capacity \in Nat
  BY StringMapAssumption DEF Sound
<1>5. IndexesOfKey(s, key, Len(key)) \subseteq Nat
  BY <1>2, <1>4, OccupiedIsFinite
<1>6. KeyExists(s, key) => IndexOfKey(s, key) \in IndexesOfKey(s, key, Len(key))
  BY <1>5, SmallestOf DEF KeyExists, IndexOfKey
<1>7. QED
  BY <1>2, <1>3, <1>6

-----------------------------------------------------------------------------
\* Facts about a slot, and about the map that is not initialized.
LEMMA EmptySlot == Empty \in SlotContents /\ Empty.key = NULL /\ Empty.value = NULL
BY DEF Empty, SlotContents

LEMMA NotInitializedSound ==
  /\ Sound(NotInitialized) /\ Exact(NotInitialized) /\ Blocks(NotInitialized) = 0
  /\ NotInitialized.impl = FALSE
<1>1. /\ NotInitialized.impl = FALSE /\ NotInitialized.capacity = 0
      /\ NotInitialized.size = 0 /\ NotInitialized.pairs = [i \in {} |-> Empty]
  BY DEF NotInitialized
<1>2. Slots(NotInitialized) = {}
  BY <1>1 DEF Slots
<1>3. Occupied(NotInitialized) = {}
  BY <1>2 DEF Occupied
<1>4. [i \in {} |-> Empty] \in [{} -> SlotContents]
  OBVIOUS
<1>5. Cardinality(Occupied(NotInitialized)) = 0
  BY <1>3, FS_EmptySet
<1>6. Sound(NotInitialized)
  <2>0. NotInitialized.impl \in BOOLEAN
    BY <1>1, Zenon
  <2>1. NotInitialized.capacity \in 0..MaxCapacity
    BY <1>1, StringMapAssumption
  <2>2. NotInitialized.pairs \in [Slots(NotInitialized) -> SlotContents]
    BY <1>1, <1>2, <1>4
  <2>3. /\ NotInitialized.size \in Nat /\ NotInitialized.size <= NotInitialized.capacity
        /\ Cardinality(Occupied(NotInitialized)) <= NotInitialized.size
    BY <1>1, <1>5
  <2>4. QED
    BY <1>2, <1>3, <2>0, <2>1, <2>2, <2>3 DEF Sound
<1>7. QED
  BY <1>1, <1>5, <1>6 DEF Exact, Blocks

\* rcutils_string_map_reserve keeps a map sound; only slots beyond the new
\* capacity are lost.
LEMMA ReservedSound ==
  ASSUME NEW s, Sound(s), NEW n \in 0..MaxCapacity
  PROVE  /\ Sound(Reserved(s, n)) /\ Reserved(s, n).impl = TRUE
         /\ Reserved(s, n).size = s.size /\ Reserved(s, n).capacity = CapacityFor(s, n)
         /\ Occupied(Reserved(s, n)) = {i \in Occupied(s) : i < CapacityFor(s, n)}
         /\ \A i \in Occupied(Reserved(s, n)) : Reserved(s, n).pairs[i] = s.pairs[i]
         /\ ~CutsOff(s, n) => Occupied(Reserved(s, n)) = Occupied(s)
<1> DEFINE cap == CapacityFor(s, n)
           t == Reserved(s, n)
<1>1. /\ s.capacity \in Nat /\ s.size \in Nat /\ s.size <= s.capacity
      /\ s.capacity <= MaxCapacity /\ MaxCapacity \in Nat
  BY StringMapAssumption DEF Sound
<1>2. cap \in 0..MaxCapacity /\ s.size <= cap
  BY <1>1 DEF CapacityFor
<1>3. /\ t.impl = TRUE /\ t.capacity = cap /\ t.size = s.size
      /\ t.pairs = [i \in 0 .. cap - 1 |-> IF i < s.capacity THEN s.pairs[i] ELSE Empty]
  BY DEF Reserved
<1> HIDE DEF cap, t
<1>4. t.pairs \in [Slots(t) -> SlotContents]
  <2>1. \A i \in 0 .. cap - 1 : (IF i < s.capacity THEN s.pairs[i] ELSE Empty) \in SlotContents
    BY <1>1, <1>2, EmptySlot DEF Sound, Slots
  <2>2. QED
    BY <1>3, <2>1 DEF Slots
<1>5. \A i \in Slots(t) : t.pairs[i].key = NULL <=> t.pairs[i].value = NULL
  BY <1>1, <1>2, <1>3, EmptySlot DEF Sound, Slots
<1>6. Occupied(t) = {i \in Occupied(s) : i < cap}
  BY <1>1, <1>2, <1>3, EmptySlot DEF Occupied, Slots
<1>7. \A i \in Occupied(t) : t.pairs[i] = s.pairs[i]
  <2>1. \A i \in Occupied(t) : i \in 0 .. s.capacity - 1 /\ i < cap
    BY <1>6 DEF Occupied, Slots
  <2>2. QED
    BY <1>1, <1>2, <1>3, <2>1
<1>8. Cardinality(Occupied(t)) <= t.size
  <2>1. Occupied(t) \in SUBSET Occupied(s)
    BY <1>6
  <2>2. Cardinality(Occupied(t)) <= Cardinality(Occupied(s)) /\ Cardinality(Occupied(t)) \in Nat
    BY <1>1, <2>1, OccupiedIsFinite, FS_Subset, FS_CardinalityType
  <2>3. QED
    BY <1>1, <1>3, <2>2, OccupiedIsFinite DEF Sound
<1>9. \A i, j \in Occupied(t) : t.pairs[i].key = t.pairs[j].key => i = j
  BY <1>6, <1>7 DEF Sound
<1>10. Sound(t)
  BY <1>1, <1>2, <1>3, <1>4, <1>5, <1>8, <1>9 DEF Sound
<1>11. ~CutsOff(s, n) => Occupied(t) = Occupied(s)
  BY <1>1, <1>2, <1>6 DEF CutsOff, Occupied, Slots, cap
<1>12. QED
  BY <1>3, <1>6, <1>7, <1>10, <1>11 DEF cap, t

\* rcutils_string_map_clear empties every slot; what size counts beyond the
\* pairs that are there stays.
LEMMA ClearedSound ==
  ASSUME NEW s, Sound(s)
  PROVE  /\ Sound(Cleared(s)) /\ Cleared(s).impl = TRUE /\ Cleared(s).capacity = s.capacity
         /\ Cleared(s).size = s.size - Cardinality(Occupied(s))
         /\ Occupied(Cleared(s)) = {} /\ Cardinality(Occupied(Cleared(s))) = 0
<1> DEFINE t == Cleared(s)
<1>1. s.capacity \in Nat /\ s.size \in Nat /\ s.size <= s.capacity
  BY StringMapAssumption DEF Sound
<1>2. /\ t.impl = TRUE /\ t.capacity = s.capacity /\ t.pairs = [i \in Slots(s) |-> Empty]
      /\ t.size = s.size - Cardinality(Occupied(s))
  BY DEF Cleared
<1> HIDE DEF t
<1>3. Slots(t) = Slots(s) /\ t.pairs \in [Slots(t) -> SlotContents]
  BY <1>2, EmptySlot DEF Slots
<1>4. \A i \in Slots(t) : t.pairs[i].key = NULL /\ t.pairs[i].value = NULL
  BY <1>2, <1>3, EmptySlot
<1>5. Occupied(t) = {}
  BY <1>4 DEF Occupied
<1>6. Cardinality(Occupied(t)) = 0
  BY <1>5, FS_EmptySet
<1>7. t.size \in Nat /\ t.size <= t.capacity
  BY <1>1, <1>2, OccupiedIsFinite DEF Sound
<1>8. Sound(t)
  <2>1. t.impl \in BOOLEAN /\ t.capacity \in 0..MaxCapacity
    BY <1>2 DEF Sound
  <2>2. Cardinality(Occupied(t)) <= t.size
    BY <1>6, <1>7
  <2>3. QED
    BY <1>3, <1>4, <1>5, <1>7, <2>1, <2>2 DEF Sound
<1>9. QED
  BY <1>2, <1>5, <1>6, <1>8 DEF t

\* Removing the pair in an occupied slot leaves one pair less.
LEMMA RemovedSound ==
  ASSUME NEW s, Sound(s), NEW i \in Occupied(s)
  PROVE  /\ Sound(Removed(s, i)) /\ Removed(s, i).impl = TRUE
         /\ Removed(s, i).capacity = s.capacity /\ Removed(s, i).size = s.size - 1
         /\ Cardinality(Occupied(Removed(s, i))) = Cardinality(Occupied(s)) - 1
<1> DEFINE t == Removed(s, i)
<1>1. s.capacity \in Nat /\ s.size \in Nat /\ s.size <= s.capacity
  BY StringMapAssumption DEF Sound
<1>2. /\ t.impl = TRUE /\ t.capacity = s.capacity /\ t.size = s.size - 1
      /\ t.pairs = [s.pairs EXCEPT ![i] = Empty]
  BY DEF Removed
<1> HIDE DEF t
<1>3. Slots(t) = Slots(s) /\ t.pairs \in [Slots(t) -> SlotContents]
  BY <1>2, EmptySlot DEF Slots, Sound
<1>4. /\ \A j \in Slots(t) \ {i} : t.pairs[j] = s.pairs[j]
      /\ i \in Slots(t) /\ t.pairs[i] = Empty
  BY <1>2, <1>3 DEF Sound, Occupied
<1>5. Occupied(t) = Occupied(s) \ {i}
  BY <1>3, <1>4, EmptySlot DEF Occupied
<1>6. Cardinality(Occupied(t)) = Cardinality(Occupied(s)) - 1
  BY <1>1, <1>5, OccupiedIsFinite, FS_RemoveElement
<1>7. Cardinality(Occupied(t)) \in Nat
  BY <1>1, <1>2, OccupiedIsFinite
<1>8. Sound(t)
  <2>1. t.impl \in BOOLEAN /\ t.capacity \in 0..MaxCapacity
    BY <1>2 DEF Sound
  <2>2. /\ t.size \in Nat /\ t.size <= t.capacity
        /\ Cardinality(Occupied(t)) <= t.size
    BY <1>1, <1>2, <1>6, <1>7, OccupiedIsFinite DEF Sound
  <2>3. \A j, k \in Occupied(t) : t.pairs[j].key = t.pairs[k].key => j = k
    BY <1>3, <1>4, <1>5 DEF Sound, Occupied
  <2>4. \A j \in Slots(t) : t.pairs[j].key = NULL <=> t.pairs[j].value = NULL
    BY <1>3, <1>4, EmptySlot DEF Sound
  <2>5. QED
    BY <1>3, <2>1, <2>2, <2>3, <2>4 DEF Sound
<1>9. QED
  BY <1>2, <1>6, <1>8 DEF t

\* A map that is not full has a free slot: the assertion of line 298 holds.
LEMMA FreeSlotIsFree ==
  ASSUME NEW s, Sound(s), ~Full(s)
  PROVE  /\ Slots(s) \ Occupied(s) # {}
         /\ FreeSlot(s) \in Slots(s) /\ FreeSlot(s) \notin Occupied(s)
<1>1. s.capacity \in Nat /\ s.size \in Nat /\ s.size < s.capacity
  BY StringMapAssumption DEF Sound, Full
<1>2. Cardinality(Occupied(s)) < s.capacity
  BY <1>1, OccupiedIsFinite DEF Sound
<1>3. Slots(s) # Occupied(s) /\ Occupied(s) \subseteq Slots(s) /\ Slots(s) \subseteq Nat
  BY <1>1, <1>2, OccupiedIsFinite
<1>4. Slots(s) \ Occupied(s) # {} /\ Slots(s) \ Occupied(s) \subseteq Nat
  BY <1>3
<1>5. FreeSlot(s) \in Slots(s) \ Occupied(s)
  BY <1>4, SmallestOf DEF FreeSlot
<1>6. QED
  BY <1>4, <1>5

\* rcutils_string_map_set_no_resize with memory: the pair is in one slot, and the
\* other slots are as they were.
LEMMA WithPairSound ==
  ASSUME NEW s, Sound(s), NEW key \in Key, NEW value \in Value,
         KeyExists(s, key) \/ ~Full(s)
  PROVE  /\ Sound(WithPair(s, key, value)) /\ WithPair(s, key, value).impl = TRUE
         /\ WithPair(s, key, value).capacity = s.capacity
         /\ WithPair(s, key, value).size = IF KeyExists(s, key) THEN s.size ELSE s.size + 1
         /\ Cardinality(Occupied(WithPair(s, key, value))) =
              IF KeyExists(s, key) THEN Cardinality(Occupied(s)) ELSE Cardinality(Occupied(s)) + 1
         /\ \E i \in Slots(s) :
              /\ WithPair(s, key, value).pairs = [s.pairs EXCEPT ![i] = [key |-> key, value |-> value]]
              /\ \A j \in Slots(s) : s.pairs[j].key = key => j = i
              /\ KeyExists(s, key) => s.pairs[i].key = key
              /\ ~KeyExists(s, key) => s.pairs[i].key = NULL
<1> DEFINE t == WithPair(s, key, value)
           i == IF KeyExists(s, key) THEN IndexOfKey(s, key) ELSE FreeSlot(s)
           pair == [key |-> key, value |-> value]
<1>1. s.capacity \in Nat /\ s.size \in Nat /\ s.size <= s.capacity
  BY StringMapAssumption DEF Sound
<1>2. /\ t.impl = TRUE /\ t.capacity = s.capacity
      /\ t.size = IF KeyExists(s, key) THEN s.size ELSE s.size + 1
      /\ t.pairs = [s.pairs EXCEPT ![i] = pair]
  BY DEF WithPair
<1>3. pair \in SlotContents /\ pair.key = key /\ pair.value = value
      /\ key # NULL /\ value # NULL
  BY StringMapAssumption DEF SlotContents
<1> HIDE DEF t, pair
<1>4. /\ i \in Slots(s)
      /\ KeyExists(s, key) => i \in Occupied(s) /\ s.pairs[i].key = key
      /\ ~KeyExists(s, key) => i \notin Occupied(s)
  BY SearchFindsTheKey, FreeSlotIsFree DEF Occupied
<1> HIDE DEF i
<1>5. \A j \in Slots(s) : s.pairs[j].key = key => j = i
  <2>1. ASSUME NEW j \in Slots(s), s.pairs[j].key = key PROVE j = i
    <3>1. KeyExists(s, key) /\ j \in Occupied(s)
      BY <1>3, <2>1, SearchFindsTheKey DEF KeyExists, Occupied
    <3>2. QED
      BY <1>4, <2>1, <3>1 DEF Sound
  <2>2. QED
    BY <2>1
<1>6. Slots(t) = Slots(s) /\ t.pairs \in [Slots(t) -> SlotContents]
  BY <1>2, <1>3, <1>4 DEF Slots, Sound
<1>7. \A j \in Slots(t) \ {i} : t.pairs[j] = s.pairs[j]
  BY <1>2, <1>6 DEF Sound
<1>8. t.pairs[i] = pair
  BY <1>2, <1>4 DEF Sound
<1>9. Occupied(t) = Occupied(s) \union {i}
  BY <1>3, <1>4, <1>6, <1>7, <1>8 DEF Occupied
<1>10. Cardinality(Occupied(t)) =
         IF KeyExists(s, key) THEN Cardinality(Occupied(s)) ELSE Cardinality(Occupied(s)) + 1
  BY <1>1, <1>4, <1>9, OccupiedIsFinite, FS_AddElement
<1>11. Sound(t)
  <2>1. t.impl \in BOOLEAN /\ t.capacity \in 0..MaxCapacity
    BY <1>2 DEF Sound
  <2>2. /\ t.size \in Nat /\ t.size <= t.capacity
        /\ Cardinality(Occupied(t)) <= t.size
    BY <1>1, <1>2, <1>10, OccupiedIsFinite DEF Sound, Full
  <2>3. \A j, k \in Occupied(t) : t.pairs[j].key = t.pairs[k].key => j = k
    BY <1>3, <1>5, <1>6, <1>7, <1>8, <1>9 DEF Sound, Occupied
  <2>4. \A j \in Slots(t) : t.pairs[j].key = NULL <=> t.pairs[j].value = NULL
    BY <1>3, <1>6, <1>7, <1>8 DEF Sound
  <2>5. QED
    BY <1>6, <2>1, <2>2, <2>3, <2>4 DEF Sound
<1>12. ~KeyExists(s, key) => s.pairs[i].key = NULL
  BY <1>4 DEF Occupied
<1>13. QED
  BY <1>2, <1>4, <1>5, <1>10, <1>11, <1>12 DEF t, pair

-----------------------------------------------------------------------------
\* What a step on one map has to keep.
Kept(m) ==
  /\ DOMAIN sm' = Map /\ live' \in [Map -> Int]
  /\ \A k \in Map \ {m} : sm'[k] = sm[k] /\ live'[k] = live[k]
  /\ Sound(sm'[m])
  /\ ~cut[m] => Exact(sm'[m]) /\ live'[m] = Blocks(sm'[m])

\* Giving map m a sound state and the blocks of that state keeps it.
LEMMA UpdateKeeps ==
  ASSUME Inv, NEW m \in Map, NEW s, NEW n \in Int, Sound(s), Update(m, s), Owns(m, n),
         ~cut[m] => Exact(s) /\ live[m] + n = Blocks(s)
  PROVE  Kept(m) /\ sm'[m] = s
BY DEF Inv, Update, Owns, Kept

\* How many blocks a map has.
LEMMA BlocksOfMap ==
  ASSUME NEW s, Sound(s)
  PROVE  /\ ArrayBlocks(s) \in {0, 1} /\ Cardinality(Occupied(s)) \in Nat
         /\ s.impl => Blocks(s) = 1 + ArrayBlocks(s) + 2 * Cardinality(Occupied(s))
<1>1. s.capacity \in Nat
  BY StringMapAssumption DEF Sound
<1>2. QED
  BY <1>1, OccupiedIsFinite DEF ArrayBlocks, Blocks

\* rcutils_string_map_set_no_resize: a pair is stored with two blocks, or with
\* none where the key is already there, or nothing is stored.
LEMMA StoreKeeps ==
  ASSUME Inv, NEW m \in Map, NEW s, NEW grown \in Int, NEW call,
         NEW key \in Key, NEW value \in Value,
         Sound(s), s.impl, KeyExists(s, key) \/ ~Full(s),
         ~cut[m] => Exact(s) /\ live[m] + grown = Blocks(s),
         Store(call, m, s, grown, key, value)
  PROVE  Kept(m) /\ sm'[m].impl
<1> DEFINE t == WithPair(s, key, value)
           more == IF KeyExists(s, key) THEN 0 ELSE 2
<1>1. CASE Update(m, t) /\ Owns(m, grown + more)
  <2>1. /\ Sound(t) /\ t.impl = TRUE /\ t.capacity = s.capacity
        /\ t.size = IF KeyExists(s, key) THEN s.size ELSE s.size + 1
        /\ Cardinality(Occupied(t)) =
             IF KeyExists(s, key) THEN Cardinality(Occupied(s)) ELSE Cardinality(Occupied(s)) + 1
    BY ZenonT(30), WithPairSound
  <2> HIDE DEF t
  <2>2. ArrayBlocks(t) = ArrayBlocks(s)
    BY <2>1 DEF ArrayBlocks
  <2>3. ~cut[m] => Exact(t) /\ live[m] + (grown + more) = Blocks(t)
    BY <2>1, <2>2, BlocksOfMap DEF Exact, Inv
  <2>4. QED
    BY <1>1, <2>1, <2>3, UpdateKeeps
<1>2. CASE Update(m, s) /\ Owns(m, grown)
  BY <1>2, UpdateKeeps
<1>3. QED
  BY <1>1, <1>2 DEF Store

\* rcutils_string_map_set: growing a full map first makes room for the pair.
LEMMA SetPairKeeps ==
  ASSUME Inv, NEW m \in Map, sm[m].impl, NEW call,
         NEW key \in Key, NEW value \in Value, SetPair(call, m, key, value)
  PROVE  Kept(m) /\ sm'[m].impl
<1> DEFINE s == sm[m]
           n == IF s.capacity = 0 THEN 1 ELSE 2 * s.capacity
           t == Reserved(s, n)
<1>1. Sound(s) /\ s.capacity \in Nat /\ live[m] \in Int
      /\ (~cut[m] => Exact(s) /\ live[m] = Blocks(s))
  BY StringMapAssumption DEF Inv, Sound
<1>2. CASE (~Full(s) \/ KeyExists(s, key)) /\ Store(call, m, s, 0, key, value)
  BY <1>1, <1>2, StoreKeeps
<1>3. CASE UNCHANGED <<sm, live>>
  BY <1>1, <1>3 DEF Kept, Inv
<1>4. CASE Full(s) /\ n <= MaxCapacity
           /\ IF Full(t) THEN Update(m, t) /\ Owns(m, ArrayBlocks(t) - ArrayBlocks(s))
              ELSE Store(call, m, t, ArrayBlocks(t) - ArrayBlocks(s), key, value)
  <2>1. n \in 0..MaxCapacity /\ n >= s.capacity
    BY <1>1, <1>4
  <2>2. ~CutsOff(s, n)
    BY <1>1, <2>1 DEF CutsOff, CapacityFor, Occupied, Slots, Sound
  <2> HIDE DEF n
  <2>3. Sound(t) /\ t.impl /\ t.size = s.size /\ Occupied(t) = Occupied(s)
    BY <1>1, <2>1, <2>2, ReservedSound
  <2> HIDE DEF t
  <2>4. ArrayBlocks(t) - ArrayBlocks(s) \in Int
    BY <1>1, <2>3, BlocksOfMap
  <2>5. ~cut[m] => Exact(t) /\ live[m] + (ArrayBlocks(t) - ArrayBlocks(s)) = Blocks(t)
    BY <1>1, <2>3, BlocksOfMap DEF Exact
  <2>6. QED
    BY <1>4, <2>3, <2>4, <2>5, UpdateKeeps, StoreKeeps
<1>5. QED
  BY <1>2, <1>3, <1>4 DEF SetPair

-----------------------------------------------------------------------------
\* A step that keeps one map and leaves the histories alone keeps the invariant.
LEMMA KeptIsInv ==
  ASSUME Inv, NEW m \in Map, Kept(m), cut' = cut, CopyIsPossible'
  PROVE  Inv'
BY DEF Inv, Kept

\* init, fini, clear and unset keep the invariant.
LEMMA LifeCycleKeeps ==
  ASSUME Inv, NEW m \in Map,
         \/ \E n \in Reservations : InitMap(m, n)
         \/ FiniMap(m) \/ FiniFails(m) \/ Clear(m)
         \/ \E key \in Key : Unset(m, key)
  PROVE  Inv'
<1> DEFINE s == sm[m]
           c == Cardinality(Occupied(s))
<1>1. /\ Sound(s) /\ live[m] \in Int /\ (~cut[m] => Exact(s) /\ live[m] = Blocks(s))
      /\ c \in Nat /\ ArrayBlocks(s) \in {0, 1}
      /\ s.impl => Blocks(s) = 1 + ArrayBlocks(s) + 2 * c
  BY BlocksOfMap DEF Inv
<1>2. Idle /\ copying' = copying /\ cut' = cut /\ CopyIsPossible'
  BY DEF InitMap, FiniMap, FiniFails, Clear, Unset, CopyIsPossible, Idle
<1>3. CASE UNCHANGED <<sm, live>>
  BY <1>2, <1>3 DEF Inv
<1>4. ASSUME NEW n \in Reservations, ~s.impl, Update(m, Reserved(NotInitialized, n)),
             Owns(m, 1 + ArrayBlocks(Reserved(NotInitialized, n)))
      PROVE  Inv'
  <2> DEFINE t == Reserved(NotInitialized, n)
  <2>1. n \in 0..MaxCapacity
    BY StringMapAssumption
  <2>2. Sound(t) /\ t.impl = TRUE /\ t.size = 0 /\ Occupied(t) = {}
    <3>1. NotInitialized.size = 0 /\ Occupied(NotInitialized) = {}
      BY NotInitializedSound DEF NotInitialized, Occupied, Slots
    <3>2. QED
      BY <2>1, <3>1, NotInitializedSound, ReservedSound
  <2> HIDE DEF t
  <2>3. Cardinality(Occupied(t)) = 0
    BY <2>2, FS_EmptySet
  <2>a. ArrayBlocks(t) \in {0, 1} /\ Blocks(t) = 1 + ArrayBlocks(t) + 2 * Cardinality(Occupied(t))
    BY <2>2, BlocksOfMap
  <2>4. ArrayBlocks(t) \in {0, 1} /\ Exact(t) /\ Blocks(t) = 1 + ArrayBlocks(t)
    BY <2>2, <2>3, <2>a DEF Exact
  <2>5. ~cut[m] => live[m] = 0
    BY <1>1, <1>4 DEF Blocks
  <2>6. Kept(m)
    BY <1>4, <2>2, <2>4, <2>5, UpdateKeeps DEF t
  <2>7. QED
    BY <1>2, <2>6, KeptIsInv
<1>5. CASE FiniMap(m)
  <2> DEFINE t == Reserved(Cleared(s), 0)
             n == - 2 * c - (ArrayBlocks(s) - ArrayBlocks(t)) - 1
  <2>1. 0 \in 0..MaxCapacity
    BY StringMapAssumption
  <2>2. Sound(t) /\ t.capacity = CapacityFor(Cleared(s), 0)
    BY <1>1, <2>1, ClearedSound, ReservedSound
  <2>3. s.size = c => t.capacity = 0
    <3>1. Cleared(s).size = s.size - c /\ s.size \in Nat
      BY <1>1, ClearedSound DEF Sound
    <3>2. QED
      BY <1>1, <2>2, <3>1 DEF CapacityFor
  <2> HIDE DEF t
  <2>4. n \in Int /\ (s.size = c => ArrayBlocks(t) = 0)
    BY <1>1, <2>2, <2>3, BlocksOfMap DEF ArrayBlocks
  <2>5. s.impl /\ Update(m, NotInitialized) /\ Owns(m, n)
    BY <1>5 DEF FiniMap, t
  <2>6. ~cut[m] => live[m] + n = 0
    BY <1>1, <2>4, <2>5 DEF Exact
  <2>7. Kept(m)
    BY <2>4, <2>5, <2>6, NotInitializedSound, UpdateKeeps
  <2>8. QED
    BY <1>2, <2>7, KeptIsInv
<1>6. CASE FiniFails(m) \/ Clear(m)
  <2> DEFINE t == Cleared(s)
  <2>1. s.impl /\ Update(m, t) /\ Owns(m, - 2 * c)
    BY <1>6 DEF FiniFails, Clear
  <2>2. /\ Sound(t) /\ t.impl = TRUE /\ t.capacity = s.capacity /\ t.size = s.size - c
        /\ Cardinality(Occupied(t)) = 0
    BY <1>1, ClearedSound
  <2> HIDE DEF t
  <2>3. ArrayBlocks(t) = ArrayBlocks(s)
    BY <2>2 DEF ArrayBlocks
  <2>4. ~cut[m] => Exact(t) /\ live[m] + (- 2 * c) = Blocks(t)
    BY <1>1, <2>1, <2>2, <2>3, BlocksOfMap DEF Exact, Sound
  <2>5. Kept(m)
    BY <1>1, <2>1, <2>2, <2>4, UpdateKeeps
  <2>6. QED
    BY <1>2, <2>5, KeptIsInv
<1>7. ASSUME NEW key \in Key, s.impl, KeyExists(s, key),
             Update(m, Removed(s, IndexOfKey(s, key))), Owns(m, -2)
      PROVE  Inv'
  <2> DEFINE t == Removed(s, IndexOfKey(s, key))
  <2>1. IndexOfKey(s, key) \in Occupied(s)
    BY <1>1, <1>7, SearchFindsTheKey
  <2>2. /\ Sound(t) /\ t.impl = TRUE /\ t.capacity = s.capacity /\ t.size = s.size - 1
        /\ Cardinality(Occupied(t)) = c - 1
    BY <1>1, <2>1, RemovedSound
  <2>3. Update(m, t)
    BY <1>7
  <2> HIDE DEF t
  <2>4. ArrayBlocks(t) = ArrayBlocks(s)
    BY <2>2 DEF ArrayBlocks
  <2> DEFINE n == -2
  <2>a. n \in Int /\ Owns(m, n)
    BY <1>7
  <2>b. Blocks(t) = 1 + ArrayBlocks(t) + 2 * (c - 1) /\ s.size \in Nat
    BY <1>1, <2>2, BlocksOfMap DEF Sound
  <2>5. ~cut[m] => Exact(t) /\ live[m] + n = Blocks(t)
    BY <1>1, <1>7, <2>2, <2>4, <2>b DEF Exact
  <2> HIDE DEF n
  <2>6. Kept(m)
    BY <2>2, <2>3, <2>5, <2>a, UpdateKeeps
  <2>7. QED
    BY <1>2, <2>6, KeptIsInv
<1>8. ASSUME UNCHANGED sm, live' = [live EXCEPT ![m] = ImplFreed(@ + 1)]
      PROVE  Inv'
  <2>1. live \in [Map -> Int] /\ live[m] + 1 - 1 = live[m]
    BY <1>1 DEF Inv
  <2>2. live' = live
    BY <1>8, <2>1 DEF ImplFreed
  <2>3. QED
    BY <1>3, <1>8, <2>2
<1>9. QED
  BY <1>3, <1>4, <1>5, <1>6, <1>7, <1>8 DEF InitMap, Unset

\* reserve keeps the invariant: a reservation that cuts off a pair is noted.
LEMMA ReserveKeeps ==
  ASSUME Inv, NEW m \in Map, NEW n \in Reservations, Reserve(m, n)
  PROVE  Inv'
<1> DEFINE s == sm[m]
           t == Reserved(s, n)
<1>1. Sound(s) /\ s.impl /\ live[m] \in Int /\ (~cut[m] => Exact(s) /\ live[m] = Blocks(s))
  BY DEF Inv, Reserve
<1>2. CopyIsPossible'
  BY DEF Reserve, CopyIsPossible, Idle
<1>3. CASE UNCHANGED <<sm, live, cut>>
  BY <1>2, <1>3 DEF Inv
<1>4. CASE /\ Update(m, t) /\ Owns(m, ArrayBlocks(t) - ArrayBlocks(s))
           /\ cut' = [cut EXCEPT ![m] = @ \/ CutsOff(s, n)]
  <2>1. n \in 0..MaxCapacity
    BY StringMapAssumption
  <2>2. /\ Sound(t) /\ t.impl = TRUE /\ t.size = s.size
        /\ ~CutsOff(s, n) => Occupied(t) = Occupied(s)
    BY <1>1, <2>1, ReservedSound
  <2> HIDE DEF t
  <2>3. ArrayBlocks(t) - ArrayBlocks(s) \in Int
    BY <1>1, <2>2, BlocksOfMap
  <2>4. (~cut[m] /\ ~CutsOff(s, n)) =>
          Exact(t) /\ live[m] + (ArrayBlocks(t) - ArrayBlocks(s)) = Blocks(t)
    BY <1>1, <2>2, BlocksOfMap DEF Exact
  <2>5. /\ DOMAIN sm' = Map /\ sm'[m] = t /\ \A k \in Map \ {m} : sm'[k] = sm[k]
        /\ live' \in [Map -> Int] /\ live'[m] = live[m] + (ArrayBlocks(t) - ArrayBlocks(s))
        /\ \A k \in Map \ {m} : live'[k] = live[k]
    BY <1>4, <2>3 DEF Update, Owns, Inv
  <2>6. cut' \in [Map -> BOOLEAN] /\ (cut'[m] <=> cut[m] \/ CutsOff(s, n))
        /\ \A k \in Map \ {m} : cut'[k] = cut[k]
    BY <1>4 DEF Inv
  <2>7. QED
    BY <1>2, <2>2, <2>4, <2>5, <2>6 DEF Inv
<1>5. QED
  BY <1>3, <1>4 DEF Reserve

\* set and set_no_resize keep the invariant.
LEMMA SetKeeps ==
  ASSUME Inv, NEW m \in Map, NEW key \in Key, NEW value \in Value,
         Set(m, key, value) \/ SetNoResize(m, key, value)
  PROVE  Inv'
<1>1. /\ Sound(sm[m]) /\ live[m] \in Int /\ sm[m].impl
      /\ ~cut[m] => Exact(sm[m]) /\ live[m] = Blocks(sm[m])
  BY DEF Inv, Set, SetNoResize
<1>2. cut' = cut /\ CopyIsPossible'
  BY DEF Set, SetNoResize, CopyIsPossible, Idle
<1>3. CASE Set(m, key, value)
  BY <1>1, <1>2, <1>3, SetPairKeeps, KeptIsInv DEF Set
<1>4. CASE SetNoResize(m, key, value) /\ UNCHANGED <<sm, live>>
  BY <1>2, <1>4 DEF Inv
<1>5. CASE SetNoResize(m, key, value) /\ ~(Full(sm[m]) /\ ~KeyExists(sm[m], key))
  <2>1. Store("set_no_resize", m, sm[m], 0, key, value)
    BY <1>5 DEF SetNoResize
  <2>2. live[m] + 0 = live[m]
    BY <1>1
  <2>3. Kept(m)
    <3>1. KeyExists(sm[m], key) \/ ~Full(sm[m])
      BY <1>5
    <3>2. ~cut[m] => Exact(sm[m]) /\ live[m] + 0 = Blocks(sm[m])
      BY <1>1, <2>2
    <3>3. 0 \in Int
      OBVIOUS
    <3>4. QED
      BY <1>1, <2>1, <3>1, <3>2, <3>3, StoreKeeps, ZenonT(30)
  <2>4. QED
    BY <1>2, <2>3, KeptIsInv
<1>6. QED
  BY <1>3, <1>4, <1>5 DEF SetNoResize

\* The pair a copy is about to store.
LEMMA NextPairOfSource ==
  ASSUME Inv, ~Idle, LaterSlots(sm[copying.src], copying.slot) # {}
  PROVE  LET i == Smallest(LaterSlots(sm[copying.src], copying.slot))
             s == sm[copying.src]
         IN  /\ i \in Occupied(s) /\ i \in Int /\ i > copying.slot
             /\ \A j \in Occupied(s) : j > copying.slot => j >= i
             /\ s.pairs[i].key \in Key /\ s.pairs[i].value \in Value
<1> DEFINE s == sm[copying.src]
           later == LaterSlots(s, copying.slot)
           i == Smallest(later)
<1>1. Sound(s) /\ s.capacity \in Nat
  BY StringMapAssumption DEF Inv, CopyIsPossible, Sound
<1>2. later \subseteq Nat /\ later \subseteq Occupied(s)
  BY <1>1, OccupiedIsFinite DEF LaterSlots
<1>3. i \in later /\ \A j \in later : i <= j
  BY <1>2, SmallestOf
<1>4. i \in Occupied(s) /\ i \in Nat /\ i > copying.slot
  BY <1>2, <1>3 DEF LaterSlots
<1>5. \A j \in Occupied(s) : j > copying.slot => j >= i
  BY <1>1, <1>3, <1>4, OccupiedIsFinite DEF LaterSlots
<1>6. s.pairs[i] \in SlotContents /\ s.pairs[i].key # NULL /\ s.pairs[i].value # NULL
  BY <1>1, <1>4 DEF Sound, Occupied
<1>7. s.pairs[i].key \in Key /\ s.pairs[i].value \in Value
  BY <1>6 DEF SlotContents
<1>8. QED
  BY <1>4, <1>5, <1>7

\* The steps of a copy keep the invariant.
LEMMA CopyKeeps ==
  ASSUME Inv, CopyPair \/ CopyEnds \/ \E m, dst \in Map : CopyBegins(m, dst)
  PROVE  Inv'
<1>1. ASSUME NEW m \in Map, NEW dst \in Map, CopyBegins(m, dst) PROVE Inv'
  BY <1>1 DEF CopyBegins, Inv, CopyIsPossible
<1>2. CASE CopyEnds
  BY <1>2 DEF CopyEnds, Inv, CopyIsPossible, Idle
<1>3. CASE CopyPair
  <2> DEFINE s == sm[copying.src]
             i == Smallest(LaterSlots(s, copying.slot))
  <2>1. /\ ~Idle /\ copying.src \in Map /\ copying.dst \in Map
        /\ sm[copying.src].impl /\ sm[copying.dst].impl
    BY <1>3 DEF CopyPair, Inv, CopyIsPossible
  <2>2. i \in Int /\ s.pairs[i].key \in Key /\ s.pairs[i].value \in Value
    BY <1>3, <2>1, NextPairOfSource DEF CopyPair
  <2>3. SetPair("copy", copying.dst, s.pairs[i].key, s.pairs[i].value)
    BY <1>3 DEF CopyPair
  <2>4. cut' = cut /\ copying' \in {NoCopy, [src |-> copying.src, dst |-> copying.dst, slot |-> i,
                                             before |-> copying.before]}
    BY <1>3 DEF CopyPair
  <2> HIDE DEF i
  <2>5. Kept(copying.dst) /\ sm'[copying.dst].impl
    BY <2>1, <2>2, <2>3, SetPairKeeps
  <2>6. sm'[copying.src].impl
    BY <2>1, <2>5 DEF Kept
  <2>7. CopyIsPossible'
    BY <2>1, <2>2, <2>4, <2>5, <2>6 DEF CopyIsPossible, Idle
  <2>8. QED
    BY <2>1, <2>4, <2>5, <2>7, KeptIsInv
<1>4. QED
  BY <1>1, <1>2, <1>3

\* Every step keeps the invariant.
LEMMA NextKeeps == Inv /\ [Next]_vars => Inv'
<1> SUFFICES ASSUME Inv, [Next]_vars PROVE Inv'
  OBVIOUS
<1>1. CASE UNCHANGED vars
  BY <1>1 DEF vars, Inv, CopyIsPossible, Idle
<1>2. ASSUME NEW m \in Map, NEW l \in Lookups, Getn(m, l[1], l[2]) PROVE Inv'
  BY <1>2 DEF Getn, Inv, CopyIsPossible, Idle
<1>3. QED
  BY <1>1, <1>2, LifeCycleKeeps, ReserveKeeps, SetKeeps, CopyKeeps DEF Next

\* The invariant holds of every state.
LEMMA Invariance == Spec => []Inv
<1>1. Init => Inv
  BY NotInitializedSound DEF Init, Inv, CopyIsPossible, Idle
<1>2. QED
  BY <1>1, NextKeeps, PTL DEF Spec

\* Every map is sound after every call and between the steps of a copy: sizes are
\* exact, keys distinct, and the two assertions of set_no_resize never fire.
THEOREM MapsSound == Spec => []MapsAreSound
<1>1. Inv => MapsAreSound
  <2> SUFFICES ASSUME Inv PROVE MapsAreSound
    OBVIOUS
  <2>1. TypeOK
    BY DEF Inv, Sound, TypeOK, CopyIsPossible, Idle
  <2>2. SizeIsExact /\ KeysAreDistinct
    BY DEF Inv, Sound, Exact, SizeIsExact, KeysAreDistinct
  <2>3. AssertionsHold
    BY FreeSlotIsFree DEF Inv, Sound, AssertionsHold
  <2>4. QED
    BY <2>1, <2>2, <2>3 DEF MapsAreSound
<1>2. QED
  BY <1>1, Invariance, PTL

\* No block is lost or freed twice, whichever allocation fails, unless a
\* reservation has cut off a pair.
THEOREM MemoryAccounted == Spec => []MemoryIsAccounted
<1>1. Inv => MemoryIsAccounted
  BY DEF Inv, Blocks, MemoryIsAccounted
<1>2. QED
  BY <1>1, Invariance, PTL

-----------------------------------------------------------------------------
\* A key has the value in the slot that has the key, and NULL without one.
LEMMA ValueOfKey ==
  ASSUME NEW s, Sound(s), NEW key \in Key
  PROVE  /\ \A i \in Slots(s) : s.pairs[i].key = key =>
              /\ ValueOf(s, key) = s.pairs[i].value
              /\ ValueOf(s, key) # NULL
         /\ (\A i \in Slots(s) : s.pairs[i].key # key) => ValueOf(s, key) = NULL
<1>1. ASSUME NEW i \in Slots(s), s.pairs[i].key = key
      PROVE  ValueOf(s, key) = s.pairs[i].value /\ ValueOf(s, key) # NULL
  <2> DEFINE c == CHOOSE j \in Slots(s) : s.pairs[j].key = key
  <2>1. c \in Slots(s) /\ s.pairs[c].key = key
    BY <1>1
  <2>2. c \in Occupied(s) /\ i \in Occupied(s)
    BY <1>1, <2>1, StringMapAssumption DEF Occupied
  <2>3. c = i
    BY <1>1, <2>1, <2>2 DEF Sound
  <2>4. s.pairs[i].value # NULL
    BY <1>1, StringMapAssumption DEF Sound
  <2>5. QED
    BY <1>1, <2>3, <2>4 DEF ValueOf
<1>2. QED
  BY <1>1 DEF ValueOf

\* Growing the array of slots changes no value.
LEMMA GrowingKeepsValues ==
  ASSUME NEW s, Sound(s), NEW n \in 0..MaxCapacity, n >= s.capacity, NEW key \in Key
  PROVE  ValueOf(Reserved(s, n), key) = ValueOf(s, key)
<1> DEFINE t == Reserved(s, n)
<1>1. s.capacity \in Nat /\ s.size \in Nat /\ s.size <= s.capacity /\ n \in Nat
  BY StringMapAssumption DEF Sound
<1>2. ~CutsOff(s, n)
  BY <1>1 DEF CutsOff, CapacityFor, Occupied, Slots
<1>3. Sound(t) /\ Occupied(t) = Occupied(s) /\ \A i \in Occupied(t) : t.pairs[i] = s.pairs[i]
  BY <1>2, ReservedSound
<1> HIDE DEF t
<1>4. \A i \in Slots(s) : s.pairs[i].key = key => i \in Occupied(s)
  BY StringMapAssumption DEF Occupied
<1>5. \A i \in Slots(t) : t.pairs[i].key = key => i \in Occupied(t)
  BY StringMapAssumption DEF Occupied
<1>6. CASE \E i \in Slots(s) : s.pairs[i].key = key
  <2>1. PICK i \in Slots(s) : s.pairs[i].key = key
    BY <1>6
  <2>2. i \in Occupied(t) /\ t.pairs[i] = s.pairs[i] /\ i \in Slots(t)
    BY <1>3, <1>4, <2>1 DEF Occupied
  <2>3. QED
    BY <1>3, <2>1, <2>2, ValueOfKey DEF t
<1>7. CASE \A i \in Slots(s) : s.pairs[i].key # key
  <2>1. \A i \in Slots(t) : t.pairs[i].key # key
    BY <1>3, <1>5, <1>7 DEF Occupied
  <2>2. QED
    BY <1>3, <1>7, <2>1, ValueOfKey DEF t
<1>8. QED
  BY <1>6, <1>7

\* Storing a pair changes the value of its key and no other.
LEMMA StoringChangesOneValue ==
  ASSUME NEW s, Sound(s), NEW key \in Key, NEW value \in Value,
         KeyExists(s, key) \/ ~Full(s), NEW k \in Key
  PROVE  ValueOf(WithPair(s, key, value), k) = IF k = key THEN value ELSE ValueOf(s, k)
<1> DEFINE t == WithPair(s, key, value)
<1>1. Sound(t) /\ t.capacity = s.capacity
  BY ZenonT(30), WithPairSound
<1>2. PICK i \in Slots(s) :
        /\ t.pairs = [s.pairs EXCEPT ![i] = [key |-> key, value |-> value]]
        /\ \A j \in Slots(s) : s.pairs[j].key = key => j = i
        /\ KeyExists(s, key) => s.pairs[i].key = key
        /\ ~KeyExists(s, key) => s.pairs[i].key = NULL
  BY ZenonT(30), WithPairSound
<1> HIDE DEF t
<1>3. Slots(t) = Slots(s)
  BY <1>1 DEF Slots
<1>4. /\ t.pairs[i].key = key /\ t.pairs[i].value = value
      /\ \A j \in Slots(s) \ {i} : t.pairs[j] = s.pairs[j]
  BY <1>2 DEF Sound
<1>5. CASE k = key
  BY <1>1, <1>3, <1>4, <1>5, ValueOfKey DEF t
<1>6. CASE k # key
  <2>1. s.pairs[i].key # k
    BY <1>2, <1>6, StringMapAssumption
  <2>2. \A j \in Slots(s) : t.pairs[j].key = k <=> s.pairs[j].key = k
    BY <1>4, <1>6, <2>1
  <2>3. CASE \E j \in Slots(s) : s.pairs[j].key = k
    <3>1. PICK j \in Slots(s) : s.pairs[j].key = k
      BY <2>3
    <3>2. j # i /\ t.pairs[j] = s.pairs[j]
      BY <1>4, <2>1, <3>1
    <3>3. ValueOf(t, k) = t.pairs[j].value /\ ValueOf(s, k) = s.pairs[j].value
      BY <1>1, <1>3, <2>2, <3>1, ValueOfKey
    <3>4. QED
      BY <1>6, <3>2, <3>3 DEF t
  <2>4. CASE \A j \in Slots(s) : s.pairs[j].key # k
    BY <1>1, <1>3, <1>6, <2>2, <2>4, ValueOfKey DEF t
  <2>5. QED
    BY <2>3, <2>4
<1>7. QED
  BY <1>5, <1>6

\* What set_no_resize does to the values of the map it is given.
LEMMA StoreValues ==
  ASSUME Inv, NEW m \in Map, NEW s, NEW grown, NEW call, NEW key \in Key, NEW value \in Value,
         Sound(s), KeyExists(s, key) \/ ~Full(s),
         Store(call, m, s, grown, key, value), NEW k \in Key
  PROVE  ValueOf(sm'[m], k) =
           IF ret'.code = "OK" /\ k = key THEN value ELSE ValueOf(s, k)
<1>1. CASE Update(m, WithPair(s, key, value)) /\ Replies(call, m, "OK")
  <2>1. sm'[m] = WithPair(s, key, value) /\ ret'.code = "OK"
    BY <1>1 DEF Update, Replies, Inv
  <2>2. QED
    BY <2>1, StoringChangesOneValue
<1>2. CASE Update(m, s) /\ Replies(call, m, "BAD_ALLOC")
  BY <1>2 DEF Update, Replies, Inv
<1>3. QED
  BY <1>1, <1>2 DEF Store

\* set changes the value of one key, or reports a failure and changes none.
LEMMA SetPairValues ==
  ASSUME Inv, NEW m \in Map, NEW call, NEW key \in Key, NEW value \in Value,
         SetPair(call, m, key, value), NEW k \in Key
  PROVE  ValueOf(sm'[m], k) =
           IF ret'.code = "OK" /\ k = key THEN value ELSE ValueOf(sm[m], k)
<1> DEFINE s == sm[m]
           n == IF s.capacity = 0 THEN 1 ELSE 2 * s.capacity
           t == Reserved(s, n)
<1>1. Sound(s) /\ s.capacity \in Nat /\ MaxCapacity \in Nat
  BY StringMapAssumption DEF Inv, Sound
<1>2. CASE (~Full(s) \/ KeyExists(s, key)) /\ Store(call, m, s, 0, key, value)
  BY <1>1, <1>2, StoreValues
<1>3. CASE UNCHANGED <<sm, live>> /\ Replies(call, m, "BAD_ALLOC")
  BY <1>3 DEF Replies
<1>4. CASE n <= MaxCapacity /\ (Full(t) \/ Store(call, m, t, ArrayBlocks(t) - ArrayBlocks(s), key, value))
           /\ (Full(t) => Update(m, t) /\ Replies(call, m, "NOT_ENOUGH_SPACE"))
  <2>1. n \in 0..MaxCapacity /\ n >= s.capacity
    BY <1>1, <1>4
  <2> HIDE DEF n
  <2>2. Sound(t) /\ ValueOf(t, k) = ValueOf(s, k)
    BY <1>1, <2>1, ReservedSound, GrowingKeepsValues
  <2> HIDE DEF t
  <2>3. CASE Full(t)
    BY <1>4, <2>2, <2>3 DEF Update, Replies, Inv
  <2>4. CASE ~Full(t)
    BY <1>4, <2>2, <2>4, StoreValues
  <2>5. QED
    BY <2>3, <2>4
<1>5. QED
  BY <1>2, <1>3, <1>4 DEF SetPair

-----------------------------------------------------------------------------
\* A copy in progress: the keys up to the slot it has reached are as in the
\* source, the others as they were when it began.
CopyIsPartial ==
  Idle \/ \A key \in Key :
            /\ ValueOf(sm[copying.dst], key) = CopiedSoFar(key)
            /\ copying.src = copying.dst => copying.before[key] = ValueOf(sm[copying.dst], key)

\* Each step of a copy stores the next pair of the source, which does not move,
\* also when a map is copied to itself.
LEMMA PartialCopy == Spec => []CopyIsPartial
<1>1. Init => CopyIsPartial
  BY DEF Init, CopyIsPartial, Idle
<1>2. Inv /\ CopyIsPartial /\ [Next]_vars => CopyIsPartial'
  <2> SUFFICES ASSUME Inv, CopyIsPartial, [Next]_vars PROVE CopyIsPartial'
    OBVIOUS
  <2>1. ASSUME Idle' PROVE CopyIsPartial'
    BY <2>1 DEF CopyIsPartial
  <2>2. ASSUME NEW m \in Map, NEW dst \in Map, CopyBegins(m, dst) PROVE CopyIsPartial'
    <3>1. /\ copying'.src = m /\ copying'.dst = dst /\ copying'.slot = -1
          /\ copying'.before = Contents(sm[dst]) /\ sm' = sm
      BY <2>2 DEF CopyBegins
    <3>2. \A i \in Slots(sm[m]) : ~(i <= -1)
      BY StringMapAssumption DEF Slots, Inv, Sound
    <3>3. \A key \in Key : ValueOf(sm[dst], key) = Contents(sm[dst])[key]
      BY DEF Contents
    <3>4. QED
      BY <3>1, <3>2, <3>3 DEF CopyIsPartial, CopiedSoFar, HasUpto
  <2>3. ASSUME CopyPair, ret'.code = "OK" PROVE CopyIsPartial'
    <3> DEFINE src == copying.src
               dst == copying.dst
               i == Smallest(LaterSlots(sm[src], copying.slot))
               pair == sm[src].pairs[i]
    <3>1. /\ ~Idle /\ src \in Map /\ dst \in Map /\ sm[dst].impl /\ copying.slot \in Int
          /\ Sound(sm[src]) /\ Sound(sm[dst])
      BY <2>3 DEF CopyPair, Inv, CopyIsPossible
    <3>2. /\ i \in Occupied(sm[src]) /\ i \in Int /\ i > copying.slot
          /\ \A j \in Occupied(sm[src]) : j > copying.slot => j >= i
          /\ pair.key \in Key /\ pair.value \in Value
      BY <2>3, <3>1, NextPairOfSource DEF CopyPair
    <3>3. /\ SetPair("copy", dst, pair.key, pair.value)
          /\ copying'.src = src /\ copying'.dst = dst /\ copying'.slot = i
          /\ copying'.before = copying.before
      BY <2>3 DEF CopyPair
    <3>4. i \in Slots(sm[src])
      BY <3>2 DEF Occupied
    <3> HIDE DEF i
    <3>5. Kept(dst)
      BY <3>1, <3>2, <3>3, SetPairKeeps
    <3>6. \A k \in Key : ValueOf(sm'[dst], k) =
                           IF k = pair.key THEN pair.value ELSE ValueOf(sm[dst], k)
      BY <2>3, <3>1, <3>2, <3>3, SetPairValues
    <3>7. ValueOf(sm[src], pair.key) = pair.value
      BY <3>1, <3>2, <3>4, ValueOfKey
    <3>8. CASE src = dst
      <4>1. \A k \in Key : ValueOf(sm'[dst], k) = ValueOf(sm[dst], k)
        BY <3>6, <3>7, <3>8
      <4>2. QED
        BY <3>1, <3>3, <3>8, <4>1 DEF CopyIsPartial, CopiedSoFar
    <3>9. CASE src # dst
      <4>1. sm'[src] = sm[src]
        BY <3>1, <3>5, <3>9 DEF Kept
      <4>2. ASSUME NEW k \in Key
            PROVE  HasUpto(sm[src], i, k) <=> HasUpto(sm[src], copying.slot, k) \/ k = pair.key
        <5>1. ASSUME NEW j \in Slots(sm[src]), j <= i, sm[src].pairs[j].key = k
              PROVE  j <= copying.slot \/ k = pair.key
          <6>1. j \in Occupied(sm[src]) /\ j \in Int
            BY <3>1, <5>1, StringMapAssumption DEF Occupied, Slots
          <6>2. j > copying.slot => j = i
            BY <3>1, <3>2, <5>1, <6>1
          <6>3. QED
            BY <3>1, <5>1, <6>1, <6>2
        <5>2. \A j \in Slots(sm[src]) : j <= copying.slot => j <= i
          BY <3>1, <3>2, StringMapAssumption DEF Slots
        <5>3. i <= i
          BY <3>2
        <5>4. QED
          BY <3>4, <5>1, <5>2, <5>3 DEF HasUpto
      <4>3. QED
        BY <3>1, <3>3, <3>6, <3>7, <3>9, <4>1, <4>2 DEF CopyIsPartial, CopiedSoFar
    <3>10. QED
      BY <3>8, <3>9
  <2>4. ASSUME CopyPair, ret'.code # "OK" PROVE Idle'
    BY <2>4 DEF CopyPair, Idle
  <2>5. CASE CopyEnds
    BY <2>1, <2>5 DEF CopyEnds, Idle
  <2>6. CASE UNCHANGED vars
    BY <2>6 DEF vars, CopyIsPartial, CopiedSoFar, Idle
  <2>7. ASSUME Idle, copying' = copying PROVE Idle'
    BY <2>7 DEF Idle
  <2>8. QED
    BY <2>1, <2>2, <2>3, <2>4, <2>5, <2>6, <2>7
       DEF Next, InitMap, Reserve, FiniMap, FiniFails, Clear, Unset, Set, SetNoResize, Getn
<1>3. QED
  BY <1>1, <1>2, Invariance, PTL DEF Spec

\* A copy that returns has overwritten exactly the keys of the source and kept
\* the other pairs of the destination, for maps of every size.
THEOREM CopyComplete == Spec => CopyIsComplete
<1> DEFINE Copied == \A key \in Key :
                       ValueOf(sm[copying.dst], key) =
                         IF ValueOf(sm[copying.src], key) # NULL
                         THEN ValueOf(sm[copying.src], key) ELSE copying.before[key]
<1>1. ASSUME Inv, CopyIsPartial, Next, ~Idle, ret'.call = "copied" PROVE Copied
  <2>1. CASE CopyEnds
    <3> DEFINE s == sm[copying.src]
    <3>1. Sound(s) /\ copying.slot \in Int
      BY <1>1 DEF Inv, CopyIsPossible
    <3>2. \A i \in Occupied(s) : i <= copying.slot
      BY <2>1, <3>1, StringMapAssumption DEF CopyEnds, LaterSlots, Occupied, Slots
    <3>3. ASSUME NEW key \in Key
          PROVE  HasUpto(s, copying.slot, key) <=> ValueOf(s, key) # NULL
      <4>1. \A i \in Slots(s) : s.pairs[i].key = key => i <= copying.slot
        BY <3>2, StringMapAssumption DEF Occupied
      <4>2. QED
        BY <3>1, <4>1, ValueOfKey DEF HasUpto
    <3>4. QED
      BY <1>1, <3>3 DEF CopyIsPartial, CopiedSoFar
  <2>2. CASE CopyPair
    <3>1. ret'.call = "copy"
      BY <2>2 DEF CopyPair, SetPair, Store, Replies
    <3>2. QED
      BY <1>1, <3>1
  <2>3. QED
    BY <1>1, <2>1, <2>2 DEF Next, Idle, InitMap, Reserve, FiniMap, FiniFails, Clear, Unset, Set,
                            SetNoResize, Getn, CopyBegins
<1>2. Inv /\ CopyIsPartial /\ [Next]_vars => [~Idle /\ ret'.call = "copied" => Copied]_vars
  BY <1>1
<1>3. QED
  BY <1>2, Invariance, PartialCopy, PTL DEF Spec, CopyIsComplete

-----------------------------------------------------------------------------
\* A call on one map that reports a failure has changed no value of any map, except
\* a fini, which has removed those of its own map.
LEMMA CallFailures == ASSUME Inv, Next PROVE CallFailureIsContained
<1> SUFFICES ASSUME Idle, Idle', ret'.code \in Failures
             PROVE  /\ \A m \in Map : Unharmed(m) \/ (ret'.call = "fini" /\ m = ret'.map)
                    /\ ret'.call = "fini" => Contents(sm'[ret'.map]) = [key \in Key |-> NULL]
  BY DEF CallFailureIsContained
<1> DEFINE Same == (\A m \in Map : Unharmed(m)) /\ ret'.call # "fini"
<1>1. ASSUME sm' = sm PROVE \A m \in Map : Unharmed(m)
  BY <1>1 DEF Unharmed
<1>2. ASSUME NEW m \in Map, Kept(m), \A k \in Key : ValueOf(sm'[m], k) = ValueOf(sm[m], k)
      PROVE  \A n \in Map : Unharmed(n)
  BY <1>2 DEF Kept, Unharmed, Contents
<1>3. ASSUME NEW m \in Map, NEW n \in Reservations, InitMap(m, n) \/ Reserve(m, n) PROVE Same
  <2>1. ret'.call # "fini"
    BY <1>3 DEF InitMap, Reserve, Replies
  <2> QED BY <1>1, <1>3, <2>1 DEF InitMap, Reserve, Replies, Failures
<1>4. ASSUME NEW m \in Map, FiniMap(m) \/ Clear(m) PROVE FALSE
  BY <1>4 DEF FiniMap, Clear, Replies, Failures
<1>5. ASSUME NEW m \in Map, NEW key \in Key, Unset(m, key) PROVE Same
  BY <1>1, <1>5 DEF Unset, Replies, Failures
<1>6. ASSUME NEW m \in Map, NEW key \in Key, NEW v \in Value, Set(m, key, v) PROVE Same
  <2>1. ret'.call # "fini"
    BY <1>6 DEF Set, SetPair, Store, Replies
  <2>2. ret'.code # "OK"
    BY DEF Failures
  <2> QED BY <1>2, <1>6, <2>1, <2>2, SetPairKeeps, SetPairValues DEF Set
<1>7. ASSUME NEW m \in Map, NEW key \in Key, NEW v \in Value, SetNoResize(m, key, v) PROVE Same
  <2>1. ret'.call # "fini"
    BY <1>7 DEF SetNoResize, Store, Replies
  <2>2. ret'.code # "OK"
    BY DEF Failures
  <2>3. CASE UNCHANGED <<sm, live>>
    BY <1>1, <2>1, <2>3
  <2>4. CASE ~(Full(sm[m]) /\ ~KeyExists(sm[m], key))
    <3>1. /\ Store("set_no_resize", m, sm[m], 0, key, v) /\ Sound(sm[m]) /\ sm[m].impl
          /\ live[m] \in Int /\ (~cut[m] => Exact(sm[m]) /\ live[m] + 0 = Blocks(sm[m]))
      BY <1>7, <2>4 DEF SetNoResize, Inv
    <3> QED BY <1>2, <2>1, <2>2, <2>4, <3>1, StoreKeeps, StoreValues
  <2> QED BY <1>7, <2>3, <2>4 DEF SetNoResize
<1>8. ASSUME NEW m \in Map, NEW l \in Lookups, Getn(m, l[1], l[2]) PROVE FALSE
  BY <1>8 DEF Getn, Failures
<1>9. ASSUME NEW m \in Map, NEW dst \in Map, CopyBegins(m, dst) PROVE FALSE
  BY <1>9, StringMapAssumption DEF CopyBegins, Idle, NoCopy
<1>10. CASE CopyPair \/ CopyEnds
  BY <1>10 DEF CopyPair, CopyEnds
<1>11. ASSUME NEW m \in Map, FiniFails(m)
       PROVE  /\ \A n \in Map : Unharmed(n) \/ (ret'.call = "fini" /\ n = ret'.map)
              /\ Contents(sm'[ret'.map]) = [key \in Key |-> NULL]
  <2>1. ret'.call = "fini" /\ ret'.map = m
    BY <1>11 DEF FiniFails, Replies
  <2>2. sm' = [sm EXCEPT ![m] = Cleared(sm[m])] /\ m \in DOMAIN sm
    BY <1>11 DEF FiniFails, Update, Inv
  <2>3. \A n \in Map \ {m} : sm'[n] = sm[n]
    BY <2>2
  <2>4. sm'[m] = Cleared(sm[m])
    BY <2>2
  <2>5. \A key \in Key : ValueOf(sm'[m], key) = NULL
    <3>1. Slots(Cleared(sm[m])) = Slots(sm[m])
      BY DEF Slots, Cleared
    <3>2. \A i \in Slots(sm[m]) : Cleared(sm[m]).pairs[i].key = NULL
      BY DEF Cleared, Empty
    <3> QED BY <2>4, <3>1, <3>2, StringMapAssumption DEF ValueOf
  <2> QED BY <2>1, <2>3, <2>5 DEF Unharmed, Contents
<1> QED BY <1>3, <1>4, <1>5, <1>6, <1>7, <1>8, <1>9, <1>10, <1>11 DEF Next

\* A copy that reports a failure has stored the pairs of the slots it has passed,
\* and its last step has changed nothing more.
LEMMA CopyFailures == ASSUME Inv, CopyIsPartial, Next PROVE CopyFailureIsContained
<1> SUFFICES ASSUME ~Idle, Idle', ret'.code \in Failures
             PROVE  /\ \A m \in Map \ {copying.dst} : Unharmed(m)
                    /\ Contents(sm'[copying.dst]) = [key \in Key |-> CopiedSoFar(key)]
  BY DEF CopyFailureIsContained
<1>1. CASE CopyPair
  <2> DEFINE i == Smallest(LaterSlots(sm[copying.src], copying.slot))
             pair == sm[copying.src].pairs[i]
             dst == copying.dst
  <2>1. /\ dst \in Map /\ sm[dst].impl
        /\ pair.key \in Key /\ pair.value \in Value
    BY <1>1, NextPairOfSource DEF CopyPair, Inv, CopyIsPossible
  <2>2. SetPair("copy", dst, pair.key, pair.value)
    BY <1>1 DEF CopyPair
  <2>3. ret'.code # "OK"
    BY DEF Failures
  <2> HIDE DEF pair
  <2>4. Kept(dst) /\ \A k \in Key : ValueOf(sm'[dst], k) = ValueOf(sm[dst], k)
    BY <2>1, <2>2, <2>3, SetPairKeeps, SetPairValues
  <2>5. \A k \in Key : ValueOf(sm'[dst], k) = CopiedSoFar(k)
    BY <2>4 DEF CopyIsPartial
  <2>6. \A m \in Map \ {dst} : Unharmed(m)
    BY <2>4 DEF Kept, Unharmed
  <2> QED BY <2>5, <2>6 DEF Contents
<1>2. CASE CopyEnds
  BY <1>2 DEF CopyEnds, Replies, Failures
<1> QED BY <1>1, <1>2 DEF Next, Idle, InitMap, Reserve, FiniMap, FiniFails, Clear, Unset, Set,
                          SetNoResize, Getn, CopyBegins

\* What calls that report a failure leave, for maps of every size: no change, a
\* cleared map after fini, and after a copy the pairs copied so far.
THEOREM FailuresContained == Spec => FailureIsContained
<1>1. Inv /\ CopyIsPartial /\ [Next]_vars => [CallFailureIsContained /\ CopyFailureIsContained]_vars
  BY CallFailures, CopyFailures
<1> QED BY <1>1, Invariance, PartialCopy, PTL DEF Spec, FailureIsContained
=============================================================================
