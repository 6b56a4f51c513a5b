--------------------------- MODULE HashMapProofs ----------------------------
(***************************************************************************)
(* The hash map is sound, finds every entry, loses no memory and           *)
(* implements the dictionary of KeyValueStore, for every set of keys,      *)
(* every hash function and every capacity; and the capacity that callers   *)
(* ask for is rounded up to a power of two.                                *)
(***************************************************************************)
EXTENDS HashMap, NextPowerOfTwo, FiniteSetTheorems, FunctionTheorems, WellFoundedInduction, TLAPS

\* An array of cap buckets in which hash_map_find finds what was inserted.
BucketArray(l, r, cap) ==
  /\ Buckets(l, r, cap)
  /\ PlacedIn(l, cap)
  /\ DistinctKeys(l)
  /\ \A b \in DOMAIN l : Len(l[b]) <= r[b]

\* The array of buckets with an entry appended to, replaced in, removed from bucket b.
Appended(l, b, e) == [l EXCEPT ![b] = Append(@, e)]
Replaced(l, b, j, e) == [l EXCEPT ![b] = [@ EXCEPT ![j] = e]]
Removed(l, b, j) == [l EXCEPT ![b] = RemoveAt(@, j)]
\* The capacities of the lists after that append, and the buckets that have a list.
WithRoom(l, r, b) == [r EXCEPT ![b] = RoomFor(l, r, b)]
Made(r) == {b \in DOMAIN r : r[b] # 0}

-----------------------------------------------------------------------------
\* What appending an entry to a bucket does to the array of buckets.
LEMMA AppendedType ==
  ASSUME NEW cap \in Nat, NEW l \in [0 .. cap - 1 -> Seq(Entry)], NEW b \in 0 .. cap - 1,
         NEW e \in Entry, NEW l2, l2 = [l EXCEPT ![b] = Append(@, e)]
  PROVE  /\ l2 \in [0 .. cap - 1 -> Seq(Entry)]
         /\ \A c \in (0 .. cap - 1) \ {b} : l2[c] = l[c]
         /\ Len(l[b]) \in Nat /\ Len(l2[b]) = Len(l[b]) + 1
         /\ DOMAIN l[b] = 1 .. Len(l[b]) /\ DOMAIN l2[b] = 1 .. Len(l[b]) + 1
         /\ l2[b][Len(l[b]) + 1] = e
         /\ \A j \in 1 .. Len(l[b]) : l2[b][j] = l[b][j]
<1>1. l[b] \in Seq(Entry) /\ l2[b] = Append(l[b], e)
  OBVIOUS
<1>2. Append(l[b], e) \in Seq(Entry)
  BY <1>1
<1>3. l2 \in [0 .. cap - 1 -> Seq(Entry)] /\ \A c \in (0 .. cap - 1) \ {b} : l2[c] = l[c]
  BY <1>2
<1>4. QED
  BY <1>1, <1>2, <1>3

\* A bucket array with one more entry, of a key that was not there.
LEMMA AppendedIsBucketArray ==
  ASSUME NEW cap \in Nat, NEW l, NEW r, BucketArray(l, r, cap),
         NEW b \in 0 .. cap - 1, NEW e \in Entry, e.key \notin Stored(l),
         e.hashed_key = Hash[e.key], e.hashed_key % cap = b,
         NEW l2, l2 = Appended(l, b, e),
         NEW r2, r2 = WithRoom(l, r, b)
  PROVE  /\ BucketArray(l2, r2, cap)
         /\ Stored(l2) = Stored(l) \union {e.key}
         /\ Made(r2) = Made(r) \union {b}
         /\ \A c \in DOMAIN l2 : \A j \in DOMAIN l2[c] :
              \/ l2[c][j] = e
              \/ c \in DOMAIN l /\ j \in DOMAIN l[c] /\ l2[c][j] = l[c][j]
         /\ \A c \in DOMAIN l : \A j \in DOMAIN l[c] :
              c \in DOMAIN l2 /\ j \in DOMAIN l2[c] /\ l2[c][j] = l[c][j]
<1> USE DEF Appended, WithRoom
<1>1. l \in [0 .. cap - 1 -> Seq(Entry)] /\ r \in [0 .. cap - 1 -> Nat]
  BY DEF BucketArray, Buckets
<1>2. /\ l2 \in [0 .. cap - 1 -> Seq(Entry)]
      /\ \A c \in (0 .. cap - 1) \ {b} : l2[c] = l[c]
      /\ Len(l[b]) \in Nat /\ Len(l2[b]) = Len(l[b]) + 1
      /\ DOMAIN l[b] = 1 .. Len(l[b]) /\ DOMAIN l2[b] = 1 .. Len(l[b]) + 1
      /\ l2[b][Len(l[b]) + 1] = e
      /\ \A j \in 1 .. Len(l[b]) : l2[b][j] = l[b][j]
  BY <1>1, AppendedType
<1>3. DOMAIN l = 0 .. cap - 1 /\ DOMAIN l2 = 0 .. cap - 1
  BY <1>1, <1>2
<1>4. \A c \in DOMAIN l2 : \A j \in DOMAIN l2[c] :
        \/ c = b /\ j = Len(l[b]) + 1 /\ l2[c][j] = e
        \/ c \in DOMAIN l /\ j \in DOMAIN l[c] /\ l2[c][j] = l[c][j]
  BY <1>2, <1>3
<1>5. \A c \in DOMAIN l : \A j \in DOMAIN l[c] :
        c \in DOMAIN l2 /\ j \in DOMAIN l2[c] /\ l2[c][j] = l[c][j]
  BY <1>2, <1>3
<1>6. b \in DOMAIN l2 /\ Len(l[b]) + 1 \in DOMAIN l2[b] /\ l2[b][Len(l[b]) + 1] = e
  BY <1>2, <1>3
<1>7. e.key \in Key
  BY DEF Entry
<1>8. Stored(l2) = Stored(l) \union {e.key}
  BY <1>4, <1>5, <1>6, <1>7 DEF Stored
<1>9. PlacedIn(l2, cap)
  BY <1>4 DEF PlacedIn, BucketArray
<1>10. DistinctKeys(l2)
  <2>1. \A c \in DOMAIN l : \A j \in DOMAIN l[c] : l[c][j].key # e.key
    BY <1>7 DEF Stored
  <2>2. ASSUME NEW c \in DOMAIN l2, NEW d \in DOMAIN l2, NEW i \in DOMAIN l2[c],
               NEW j \in DOMAIN l2[d], l2[c][i].key = l2[d][j].key
        PROVE  c = d /\ i = j
    <3>1. CASE /\ c \in DOMAIN l /\ i \in DOMAIN l[c] /\ l2[c][i] = l[c][i]
               /\ d \in DOMAIN l /\ j \in DOMAIN l[d] /\ l2[d][j] = l[d][j]
      BY <2>2, <3>1 DEF BucketArray, DistinctKeys
    <3>2. CASE c = b /\ i = Len(l[b]) + 1 /\ l2[c][i] = e
      BY <1>4, <2>1, <2>2, <3>2
    <3>3. CASE d = b /\ j = Len(l[b]) + 1 /\ l2[d][j] = e
      BY <1>4, <2>1, <2>2, <3>3
    <3>4. QED
      BY <1>4, <3>1, <3>2, <3>3
  <2>3. QED
    BY <2>2 DEF DistinctKeys
<1>11. /\ r2 \in [0 .. cap - 1 -> Nat] /\ r2[b] # 0 /\ Len(l[b]) + 1 <= r2[b]
       /\ \A c \in (0 .. cap - 1) \ {b} : r2[c] = r[c]
  <2>1. Len(l[b]) <= r[b] /\ r[b] \in Nat
    BY <1>1, <1>3 DEF BucketArray
  <2>2. RoomFor(l, r, b) \in Nat /\ RoomFor(l, r, b) # 0 /\ Len(l[b]) + 1 <= RoomFor(l, r, b)
    BY <1>2, <2>1 DEF RoomFor, BUCKET_INITIAL_CAP
  <2>3. QED
    BY <1>1, <2>2
<1>12. \A c \in DOMAIN l2 : Len(l2[c]) <= r2[c]
  BY <1>2, <1>3, <1>11 DEF BucketArray
<1>13. Made(r2) = Made(r) \union {b}
  BY <1>1, <1>11 DEF Made
<1>14. BucketArray(l2, r2, cap)
  BY <1>2, <1>9, <1>10, <1>11, <1>12 DEF BucketArray, Buckets
<1>15. QED
  BY ZenonT(30), <1>4, <1>5, <1>8, <1>13, <1>14

\* A bucket array with another entry for the same key.
LEMMA ReplacedIsBucketArray ==
  ASSUME NEW cap \in Nat, NEW l, NEW r, BucketArray(l, r, cap),
         NEW b \in DOMAIN l, NEW j \in DOMAIN l[b], NEW e \in Entry, e.key = l[b][j].key,
         e.hashed_key = Hash[e.key],
         NEW l2, l2 = Replaced(l, b, j, e)
  PROVE  /\ BucketArray(l2, r, cap)
         /\ Stored(l2) = Stored(l)
         /\ DOMAIN l2 = DOMAIN l /\ \A c \in DOMAIN l : DOMAIN l2[c] = DOMAIN l[c]
         /\ l2[b][j] = e
         /\ \A c \in DOMAIN l : \A i \in DOMAIN l[c] : (c # b \/ i # j) => l2[c][i] = l[c][i]
<1> USE DEF Replaced
<1>1. l \in [0 .. cap - 1 -> Seq(Entry)] /\ r \in [0 .. cap - 1 -> Nat] /\ DOMAIN l = 0 .. cap - 1
  BY DEF BucketArray, Buckets
<1>2. /\ l[b] \in Seq(Entry) /\ [l[b] EXCEPT ![j] = e] \in Seq(Entry)
      /\ Len([l[b] EXCEPT ![j] = e]) = Len(l[b])
      /\ DOMAIN [l[b] EXCEPT ![j] = e] = DOMAIN l[b]
  BY <1>1
<1>3. l2 \in [0 .. cap - 1 -> Seq(Entry)] /\ l2[b] = [l[b] EXCEPT ![j] = e]
      /\ \A c \in (0 .. cap - 1) \ {b} : l2[c] = l[c]
  BY <1>1, <1>2
<1>4. DOMAIN l2 = DOMAIN l
      /\ \A c \in DOMAIN l : DOMAIN l2[c] = DOMAIN l[c] /\ Len(l2[c]) = Len(l[c])
  BY <1>1, <1>2, <1>3
<1>5. /\ l2[b][j] = e
      /\ \A c \in DOMAIN l : \A i \in DOMAIN l[c] : (c # b \/ i # j) => l2[c][i] = l[c][i]
  BY <1>1, <1>2, <1>3
<1>6. \A c \in DOMAIN l : \A i \in DOMAIN l[c] : l2[c][i].key = l[c][i].key
  BY <1>5
<1>7. Stored(l2) = Stored(l)
  BY <1>4, <1>6 DEF Stored
<1>8. DistinctKeys(l2)
  BY <1>4, <1>6 DEF DistinctKeys, BucketArray
<1>9. PlacedIn(l2, cap)
  BY <1>4, <1>5 DEF PlacedIn, BucketArray
<1>10. QED
  BY <1>1, <1>3, <1>4, <1>5, <1>7, <1>8, <1>9 DEF BucketArray, Buckets

\* rcutils_array_list_remove on a sequence.
LEMMA RemoveAtType ==
  ASSUME NEW s \in Seq(Entry), NEW j \in DOMAIN s
  PROVE  /\ RemoveAt(s, j) \in Seq(Entry) /\ Len(s) \in Nat /\ DOMAIN s = 1 .. Len(s)
         /\ Len(RemoveAt(s, j)) = Len(s) - 1 /\ DOMAIN RemoveAt(s, j) = 1 .. Len(s) - 1
         /\ \A i \in 1 .. Len(s) - 1 : RemoveAt(s, j)[i] = IF i < j THEN s[i] ELSE s[i + 1]
<1>1. Len(s) \in Nat /\ DOMAIN s = 1 .. Len(s) /\ Len(s) - 1 \in Nat
  OBVIOUS
<1>2. \A i \in 1 .. Len(s) - 1 : (IF i < j THEN s[i] ELSE s[i + 1]) \in Entry
  BY <1>1
<1>3. RemoveAt(s, j) \in [1 .. Len(s) - 1 -> Entry]
  BY <1>2 DEF RemoveAt
<1>4. RemoveAt(s, j) \in Seq(Entry) /\ Len(RemoveAt(s, j)) = Len(s) - 1
  <2>1. \A n \in Nat : \A f \in [1 .. n -> Entry] : f \in Seq(Entry) /\ Len(f) = n
    OBVIOUS
  <2>2. QED
    BY <1>1, <1>3, <2>1
<1>5. QED
  BY <1>1, <1>3, <1>4 DEF RemoveAt

\* A bucket array without the entry at one position.
LEMMA RemovedIsBucketArray ==
  ASSUME NEW cap \in Nat, NEW l, NEW r, BucketArray(l, r, cap),
         NEW b \in DOMAIN l, NEW j \in DOMAIN l[b],
         NEW l2, l2 = Removed(l, b, j)
  PROVE  /\ BucketArray(l2, r, cap)
         /\ Stored(l2) = Stored(l) \ {l[b][j].key}
         /\ \A c \in DOMAIN l2 : \A i \in DOMAIN l2[c] :
              \E k \in DOMAIN l[c] : c \in DOMAIN l /\ l2[c][i] = l[c][k]
<1> USE DEF Removed
<1>1. l \in [0 .. cap - 1 -> Seq(Entry)] /\ r \in [0 .. cap - 1 -> Nat] /\ DOMAIN l = 0 .. cap - 1
  BY DEF BucketArray, Buckets
<1> DEFINE s == l[b]
           t == RemoveAt(s, j)
<1>2. s \in Seq(Entry)
  BY <1>1
<1>3. /\ t \in Seq(Entry) /\ Len(s) \in Nat /\ DOMAIN s = 1 .. Len(s)
      /\ Len(t) = Len(s) - 1 /\ DOMAIN t = 1 .. Len(s) - 1
      /\ \A i \in 1 .. Len(s) - 1 : t[i] = IF i < j THEN s[i] ELSE s[i + 1]
  BY <1>2, RemoveAtType
<1>4. l2 \in [0 .. cap - 1 -> Seq(Entry)] /\ l2[b] = t /\ DOMAIN l2 = DOMAIN l
      /\ \A c \in (0 .. cap - 1) \ {b} : l2[c] = l[c]
  BY <1>1, <1>3
<1> HIDE DEF t
<1> DEFINE Old(c, i) == IF c = b /\ i >= j THEN i + 1 ELSE i
<1>5. ASSUME NEW c \in DOMAIN l2, NEW i \in DOMAIN l2[c]
      PROVE  Old(c, i) \in DOMAIN l[c] /\ l2[c][i] = l[c][Old(c, i)] /\ (c = b => Old(c, i) # j)
  <2>1. CASE c # b
    BY <1>1, <1>4, <1>5, <2>1
  <2>2. CASE c = b
    <3>1. i \in 1 .. Len(s) - 1 /\ l2[c] = t /\ j \in 1 .. Len(s)
      BY <1>3, <1>4, <1>5, <2>2
    <3>2. CASE i < j
      BY <1>3, <2>2, <3>1, <3>2
    <3>3. CASE i >= j
      BY <1>3, <2>2, <3>1, <3>3
    <3>4. QED
      BY <3>1, <3>2, <3>3
  <2>3. QED
    BY <2>1, <2>2
<1>6. ASSUME NEW c \in DOMAIN l, NEW k \in DOMAIN l[c], c # b \/ k # j
      PROVE  \E i \in DOMAIN l2[c] : l2[c][i] = l[c][k]
  <2>1. CASE c # b
    BY <1>1, <1>4, <2>1
  <2>2. CASE c = b /\ k < j
    BY <1>3, <1>4, <1>6, <2>2
  <2>3. CASE c = b /\ k > j
    <3>1. k - 1 \in 1 .. Len(s) - 1 /\ ~(k - 1 < j) /\ (k - 1) + 1 = k
      BY <1>3, <1>6, <2>3
    <3>2. k - 1 \in DOMAIN l2[c] /\ l2[c][k - 1] = l[c][k]
      BY <1>3, <1>4, <2>3, <3>1
    <3>3. QED
      BY <3>2
  <2>4. QED
    BY <1>3, <1>6, <2>1, <2>2, <2>3
<1>7. PlacedIn(l2, cap)
  BY <1>4, <1>5 DEF PlacedIn, BucketArray
<1>8. DistinctKeys(l2)
  <2>1. ASSUME NEW c \in DOMAIN l2, NEW d \in DOMAIN l2, NEW i \in DOMAIN l2[c],
               NEW k \in DOMAIN l2[d], l2[c][i].key = l2[d][k].key
        PROVE  c = d /\ i = k
    <3>1. c = d /\ Old(c, i) = Old(d, k)
      BY <1>4, <1>5, <2>1 DEF BucketArray, DistinctKeys
    <3>2. i \in Nat /\ k \in Nat
      <4>1. l2[c] \in Seq(Entry) /\ l2[d] \in Seq(Entry)
        BY <1>1, <1>4
      <4>2. QED
        BY <2>1, <4>1
    <3>3. QED
      BY <1>3, <3>1, <3>2
  <2>2. QED
    BY <2>1 DEF DistinctKeys
<1>9. Stored(l2) = Stored(l) \ {l[b][j].key}
  <2>1. \A k \in Stored(l2) : k \in Stored(l) /\ k # l[b][j].key
    BY SMTT(30), <1>4, <1>5 DEF Stored, BucketArray, DistinctKeys
  <2>2. \A k \in Stored(l) : k # l[b][j].key => k \in Stored(l2)
    BY <1>4, <1>6 DEF Stored
  <2>3. QED
    BY <2>1, <2>2
<1>10. \A c \in DOMAIN l2 : Len(l2[c]) <= r[c]
  BY <1>1, <1>3, <1>4 DEF BucketArray
<1>11. BucketArray(l2, r, cap)
  BY <1>1, <1>4, <1>7, <1>8, <1>10 DEF BucketArray, Buckets
<1>12. \A c \in DOMAIN l2 : \A i \in DOMAIN l2[c] :
         \E k \in DOMAIN l[c] : c \in DOMAIN l /\ l2[c][i] = l[c][k]
  <2>1. SUFFICES ASSUME NEW c \in DOMAIN l2, NEW i \in DOMAIN l2[c]
                 PROVE  \E k \in DOMAIN l[c] : c \in DOMAIN l /\ l2[c][i] = l[c][k]
    OBVIOUS
  <2>2. Old(c, i) \in DOMAIN l[c] /\ l2[c][i] = l[c][Old(c, i)] /\ c \in DOMAIN l
    BY <1>4, <1>5
  <2> HIDE DEF Old
  <2>3. QED
    BY <2>2
<1>13. QED
  BY <1>9, <1>11, <1>12

\* An entry is three blocks of memory.
LEMMA EntryPartsAreThree == IsFiniteSet(EntryParts) /\ Cardinality(EntryParts) = 3
<1>1. IsFiniteSet({"entry"}) /\ Cardinality({"entry"}) = 1
  BY FS_Singleton
<1>2. IsFiniteSet({"entry"} \union {"key"}) /\ Cardinality({"entry"} \union {"key"}) = 2
  BY <1>1, FS_AddElement
<1>3. /\ IsFiniteSet(({"entry"} \union {"key"}) \union {"value"})
      /\ Cardinality(({"entry"} \union {"key"}) \union {"value"}) = 3
  BY <1>2, FS_AddElement
<1>4. EntryParts = ({"entry"} \union {"key"}) \union {"value"}
  BY DEF EntryParts
<1>5. QED
  BY <1>3, <1>4

\* As many entries as keys: what fini frees is what the entries were given.
LEMMA EntryBlocksOfKeys ==
  ASSUME NEW cap \in Nat, NEW l, NEW r, BucketArray(l, r, cap)
  PROVE  /\ Cardinality(Stored(l)) \in Nat /\ IsFiniteSet(Stored(l))
         /\ EntryBlocks(l) = 3 * Cardinality(Stored(l))
<1>1. IsFiniteSet(Stored(l)) /\ Cardinality(Stored(l)) \in Nat
  BY KeyAssumption, FS_Subset, FS_CardinalityType DEF Stored
<1> DEFINE f == [k \in Stored(l) |-> CHOOSE p \in Positions(l) : l[p[1]][p[2]].key = k]
<1>2. \A p \in Positions(l) : p = <<p[1], p[2]>> /\ p[1] \in DOMAIN l /\ p[2] \in DOMAIN l[p[1]]
  BY DEF Positions
<1>3. \A c \in DOMAIN l : \A j \in DOMAIN l[c] : <<c, j>> \in Positions(l)
  BY DEF Positions
<1>4. \A k \in Stored(l) : f[k] \in Positions(l) /\ l[f[k][1]][f[k][2]].key = k
  <2>1. \A k \in Stored(l) : \E p \in Positions(l) : l[p[1]][p[2]].key = k
    BY <1>3 DEF Stored
  <2>2. QED
    BY <2>1
<1>5. \A p \in Positions(l) : l[p[1]][p[2]].key \in Stored(l)
  <2>1. \A p \in Positions(l) : l[p[1]][p[2]] \in Entry
    BY <1>2 DEF BucketArray, Buckets
  <2>2. \A p \in Positions(l) : l[p[1]][p[2]].key \in Key
    BY <2>1 DEF Entry
  <2>3. QED
    BY <1>2, <2>2 DEF Stored
<1>6. \A p, q \in Positions(l) : l[p[1]][p[2]].key = l[q[1]][q[2]].key => p = q
  BY <1>2 DEF BucketArray, DistinctKeys
<1>7. f \in [Stored(l) -> Positions(l)]
  BY <1>4
<1> HIDE DEF f
<1>8. f \in Bijection(Stored(l), Positions(l))
  <2>1. \A a, b \in Stored(l) : f[a] = f[b] => a = b
    BY <1>4
  <2>2. \A p \in Positions(l) : \E k \in Stored(l) : f[k] = p
    BY <1>4, <1>5, <1>6
  <2>3. QED
    BY <1>7, <2>1, <2>2, Fun_IsBij
<1>9. Cardinality(Positions(l)) = Cardinality(Stored(l))
  BY <1>1, <1>8, FS_Bijection DEF ExistsBijection
<1>10. QED
  BY <1>1, <1>9, EntryPartsAreThree DEF EntryBlocks

-----------------------------------------------------------------------------
\* What an array of buckets costs: one block, and two for every list made.
LEMMA BucketBlocksType ==
  ASSUME NEW cap \in Nat, NEW r \in [0 .. cap - 1 -> Nat]
  PROVE  IsFiniteSet(Made(r)) /\ BucketBlocks(r) = 1 + 2 * Cardinality(Made(r)) /\ BucketBlocks(r) \in Nat
<1>1. IsFiniteSet(0 .. cap - 1)
  BY FS_Interval
<1>2. Made(r) \subseteq 0 .. cap - 1
  BY DEF Made
<1>3. IsFiniteSet(Made(r))
  BY <1>1, <1>2, FS_Subset
<1>4. Cardinality(Made(r)) \in Nat
  BY <1>3, FS_CardinalityType
<1>5. QED
  BY <1>3, <1>4 DEF BucketBlocks, Made

\* Making the list of a bucket costs what BlocksFor says.
LEMMA BucketBlocksGrow ==
  ASSUME NEW cap \in Nat, NEW r \in [0 .. cap - 1 -> Nat], NEW r2 \in [0 .. cap - 1 -> Nat],
         NEW b \in 0 .. cap - 1, Made(r2) = Made(r) \union {b}
  PROVE  BucketBlocks(r2) = BucketBlocks(r) + BlocksFor(r, b)
<1>1. /\ IsFiniteSet(Made(r)) /\ Cardinality(Made(r)) \in Nat
      /\ BucketBlocks(r) = 1 + 2 * Cardinality(Made(r))
      /\ BucketBlocks(r2) = 1 + 2 * Cardinality(Made(r2))
  BY BucketBlocksType, FS_CardinalityType
<1>2. b \in Made(r) <=> r[b] # 0
  BY DEF Made
<1>3. Cardinality(Made(r2)) = IF b \in Made(r) THEN Cardinality(Made(r)) ELSE Cardinality(Made(r)) + 1
  BY <1>1, FS_AddElement
<1>4. QED
  BY <1>1, <1>2, <1>3 DEF BlocksFor

\* The array hash_map_allocate_new_map returns.
LEMMA NewMapIsBucketArray ==
  ASSUME NEW cap \in Nat
  PROVE  /\ BucketArray(NoEntries(cap), NoRoom(cap), cap)
         /\ Stored(NoEntries(cap)) = {}
         /\ BucketBlocks(NoRoom(cap)) = 1
<1>1. /\ NoEntries(cap) \in [0 .. cap - 1 -> Seq(Entry)] /\ NoRoom(cap) \in [0 .. cap - 1 -> Nat]
      /\ DOMAIN NoEntries(cap) = 0 .. cap - 1
      /\ \A b \in 0 .. cap - 1 : NoEntries(cap)[b] = <<>> /\ NoRoom(cap)[b] = 0
  BY DEF NoEntries, NoRoom
<1>2. \A b \in DOMAIN NoEntries(cap) : DOMAIN NoEntries(cap)[b] = {} /\ Len(NoEntries(cap)[b]) = 0
  BY <1>1
<1>3. PlacedIn(NoEntries(cap), cap) /\ DistinctKeys(NoEntries(cap))
  BY <1>2 DEF PlacedIn, DistinctKeys
<1>4. \A b \in DOMAIN NoEntries(cap) : Len(NoEntries(cap)[b]) <= NoRoom(cap)[b]
  BY <1>1, <1>2
<1>5. BucketArray(NoEntries(cap), NoRoom(cap), cap)
  BY <1>1, <1>3, <1>4 DEF BucketArray, Buckets
<1>6. Stored(NoEntries(cap)) = {}
  BY <1>2 DEF Stored
<1>7. {b \in DOMAIN NoRoom(cap) : NoRoom(cap)[b] # 0} = {}
  BY <1>1
<1>8. BucketBlocks(NoRoom(cap)) = 1
  BY <1>7, FS_EmptySet DEF BucketBlocks
<1>9. QED
  BY <1>5, <1>6, <1>8

\* A set of natural numbers that is not empty has a least element.
LEMMA LeastOf ==
  ASSUME NEW S, S \subseteq Nat, S # {}
  PROVE  \E i \in S : \A j \in S : i <= j
<1> DEFINE R == OpToRel(<, Nat)
<1>1. IsWellFoundedOn(R, Nat)
  BY NatLessThanWellFounded
<1>2. \A i, j \in Nat : j < i => <<j, i>> \in R
  BY DEF OpToRel
<1> HIDE DEF R
<1>3. PICK i \in S : \A j \in S : ~(<<j, i>> \in R)
  BY <1>1, WFMin
<1>4. \A j \in S : ~(j < i)
  BY <1>2, <1>3
<1>5. \A j \in S : j \in Nat /\ i \in Nat
  OBVIOUS
<1>6. \A j \in S : i <= j
  BY <1>4, <1>5
<1>7. QED
  BY <1>6

\* next_power_of_two has a result: a request is rounded up to a power of two.
LEMMA RoundUpType ==
  ASSUME NEW n \in InitialCapacity
  PROVE  RoundUp(n) \in 1 .. MaxCapacity /\ IsPowerOfTwo(RoundUp(n))
<1> DEFINE S == {c \in n .. MaxCapacity : IsPowerOfTwo(c)}
<1>1. n \in 1 .. MaxCapacity /\ MaxCapacity \in Nat /\ S # {} /\ S \subseteq Nat
  BY CapacityAssumption
<1>2. \E i \in S : \A j \in S : i <= j
  <2> HIDE DEF S
  <2>1. QED
    BY <1>1, LeastOf
<1>3. \E c \in n .. MaxCapacity :
        IsPowerOfTwo(c) /\ \A d \in n .. MaxCapacity : IsPowerOfTwo(d) => c <= d
  BY <1>2
<1>4. RoundUp(n) \in n .. MaxCapacity /\ IsPowerOfTwo(RoundUp(n))
  BY <1>3 DEF RoundUp
<1>5. QED
  BY <1>1, <1>4

-----------------------------------------------------------------------------
\* The map of a state in which lookups are made.
Usable ==
  /\ capacity \in 1 .. MaxCapacity /\ IsPowerOfTwo(capacity)
  /\ BucketArray(list, room, capacity)

\* hash_map_find finds exactly the stored keys, each at its only place: masking
\* the hash leads to the bucket that the remainder chose.
LEMMA FindFinds ==
  ASSUME Usable, NEW k \in Key
  PROVE  /\ MapIndex(k) = Hash[k] % capacity
         /\ MapIndex(k) \in 0 .. capacity - 1 /\ MapIndex(k) \in DOMAIN list
         /\ Found(k) <=> k \in Stored(list)
         /\ Found(k) => /\ FoundAt(k) \in DOMAIN list[MapIndex(k)]
                        /\ list[MapIndex(k)][FoundAt(k)].key = k
<1>1. capacity \in Nat /\ capacity > 0 /\ Hash[k] \in Nat
  BY CapacityAssumption, HashAssumption DEF Usable
<1>2. MapIndex(k) = Hash[k] % capacity
  BY MaskAssumption DEF Usable, MapIndex
<1>3. MapIndex(k) \in 0 .. capacity - 1
  BY <1>1, <1>2
<1>4. list \in [0 .. capacity - 1 -> Seq(Entry)] /\ PlacedIn(list, capacity) /\ DistinctKeys(list)
  BY DEF Usable, BucketArray, Buckets
<1>5. MapIndex(k) \in DOMAIN list
  BY <1>3, <1>4
<1>6. \A b \in DOMAIN list : \A j \in DOMAIN list[b] :
        list[b][j].key = k => b = MapIndex(k) /\ j \in Matches(k)
  BY <1>2, <1>4 DEF PlacedIn, Matches
<1>7. \A j \in Matches(k) : j \in DOMAIN list[MapIndex(k)] /\ list[MapIndex(k)][j].key = k
  BY DEF Matches
<1>8. Found(k) <=> k \in Stored(list)
  BY <1>5, <1>6, <1>7 DEF Found, Stored
<1>9. ASSUME Found(k)
      PROVE  FoundAt(k) \in Matches(k)
  <2>1. PICK j \in Matches(k) : TRUE
    BY <1>9 DEF Found
  <2>2. \A i \in Matches(k) : i = j
    BY <1>4, <1>5, <1>7 DEF DistinctKeys
  <2>3. j \in Nat
    BY <1>4, <1>5, <1>7
  <2>4. \E i \in Matches(k) : \A m \in Matches(k) : i <= m
    BY <2>2, <2>3
  <2>5. QED
    BY <2>4 DEF FoundAt
<1>10. QED
  BY <1>2, <1>3, <1>5, <1>7, <1>8, <1>9

\* The search of rcutils_hash_map_get_next_key_and_data ends at the first entry of
\* those it has before it, when there is one.
LEMMA FirstOfIsFirst ==
  ASSUME NEW cap \in Nat, BucketArray(list, room, cap),
         NEW ps, ps \subseteq Positions(list), ps # {}
  PROVE  /\ FirstOf(ps) \in ps
         /\ \A q \in ps : \/ FirstOf(ps)[1] < q[1]
                          \/ FirstOf(ps)[1] = q[1] /\ FirstOf(ps)[2] <= q[2]
<1>1. \A p \in ps : p[1] \in Nat /\ p[2] \in Nat
  <2>1. list \in [0 .. cap - 1 -> Seq(Entry)]
    BY DEF BucketArray, Buckets
  <2>2. \A p \in Positions(list) : p[1] \in DOMAIN list /\ p[2] \in DOMAIN list[p[1]]
    BY DEF Positions
  <2>3. \A b \in DOMAIN list : b \in Nat /\ \A j \in DOMAIN list[b] : j \in Nat
    BY <2>1
  <2>4. QED
    BY <2>2, <2>3
<1> DEFINE B == {p[1] : p \in ps}
<1>2. PICK b \in B : \A c \in B : b <= c
  <2>1. B \subseteq Nat /\ B # {}
    BY <1>1
  <2> HIDE DEF B
  <2>2. QED
    BY <2>1, LeastOf
<1> DEFINE J == {p[2] : p \in {q \in ps : q[1] = b}}
<1>3. PICK j \in J : \A i \in J : j <= i
  <2>1. J \subseteq Nat /\ J # {}
    BY <1>1
  <2> HIDE DEF J
  <2>2. QED
    BY <2>1, LeastOf
<1>4. PICK p \in ps : p[1] = b /\ p[2] = j
  OBVIOUS
<1>5. \A q \in ps : p[1] < q[1] \/ (p[1] = q[1] /\ p[2] <= q[2])
  <2>1. SUFFICES ASSUME NEW q \in ps
                 PROVE  p[1] < q[1] \/ (p[1] = q[1] /\ p[2] <= q[2])
    OBVIOUS
  <2>2. b <= q[1]
    BY <1>2
  <2>3. q[1] = b => j <= q[2]
    BY <1>3
  <2> HIDE DEF B, J
  <2>4. QED
    BY <1>1, <1>4, <2>2, <2>3
<1>6. QED
  BY <1>5 DEF FirstOf

-----------------------------------------------------------------------------
NewCapacity == IF stage = "rehash" THEN 2 * capacity ELSE 0

\* The inductive invariant: both arrays of buckets are sound, the new one is not
\* too large, and the loop counter of a finished rehash is reset.
Inv ==
  /\ TypeOK
  /\ SizeIsExact
  /\ MemoryIsAccounted
  /\ BucketArray(list, room, capacity)
  /\ BucketArray(new_list, new_room, NewCapacity)
  /\ RehashKeepsEntries
  /\ stage = "rehash" => 2 * capacity <= MaxCapacity
  /\ stage # "rehash" => map_index = 0

\* The invariant contains the properties of the map.
LEMMA InvImpliesProperties == Inv => MapIsSound /\ EveryEntryIsFound /\ MemoryIsAccounted
<1> SUFFICES ASSUME Inv
             PROVE  MapIsSound /\ EveryEntryIsFound /\ MemoryIsAccounted
  OBVIOUS
<1>1. NoBucketOverrun
  BY DEF Inv, BucketArray, NoBucketOverrun
<1>2. MapIsSound
  BY <1>1 DEF Inv, MapIsSound
<1>3. \A k \in Stored(list) : capacity # 0 /\ Found(k)
  <2>1. SUFFICES ASSUME NEW k \in Stored(list)
                 PROVE  capacity # 0 /\ Found(k)
    OBVIOUS
  <2>2. list \in [0 .. capacity - 1 -> Seq(Entry)] /\ capacity \in 0 .. MaxCapacity
    BY DEF Inv, TypeOK, Buckets
  <2>3. DOMAIN list # {}
    BY DEF Stored
  <2>4. capacity # 0
    BY <2>2, <2>3
  <2>5. Usable
    BY <2>2, <2>4, CapacityAssumption DEF Inv, TypeOK, Usable
  <2>6. QED
    BY <2>4, <2>5, FindFinds DEF Stored
<1>4. DistinctKeys(list)
  BY DEF Inv, BucketArray
<1>5. QED
  BY <1>2, <1>3, <1>4 DEF EveryEntryIsFound, Inv

\* It holds of the map before rcutils_hash_map_init.
LEMMA InitInv == Init => Inv
<1> SUFFICES ASSUME Init
             PROVE  Inv
  OBVIOUS
<1>1. /\ BucketArray(NoEntries(0), NoRoom(0), 0) /\ Stored(NoEntries(0)) = {}
  BY NewMapIsBucketArray
<1>2. NewCapacity = 0 /\ capacity = 0
  BY DEF Init, NewCapacity
<1>3. Buckets(list, room, capacity) /\ Buckets(new_list, new_room, NewCapacity)
  BY <1>1, <1>2 DEF Init, BucketArray
<1>4. TypeOK
  <2>1. ret.code = "OK"
    BY DEF Init, Reply
  <2>2. /\ initialized = FALSE /\ capacity \in 0 .. MaxCapacity /\ size \in Nat
        /\ map_index \in 0 .. capacity /\ bucket_index \in Nat \ {0} /\ live \in Int
    BY CapacityAssumption DEF Init
  <2>3. stage = "idle" /\ capacity = 0 /\ cursor \in Key \union {NULL} /\ seen \subseteq Key
    BY DEF Init
  <2>4. QED
    BY <1>3, <2>1, <2>2, <2>3 DEF TypeOK, NewCapacity
<1>5. SizeIsExact
  BY <1>1, FS_EmptySet DEF Init, SizeIsExact
<1>6. MemoryIsAccounted /\ RehashKeepsEntries
  BY DEF Init, MemoryIsAccounted, RehashKeepsEntries
<1>7. QED
  BY <1>1, <1>2, <1>4, <1>5, <1>6 DEF Inv, Init

\* It is a property of the map, not of what its caller was told.
LEMMA CallerStep ==
  ASSUME Inv, UNCHANGED <<mapVars, growVars, stage, live>>,
         ret'.code \in {"OK", "BAD_ALLOC", "NOT_FOUND", "NO_MORE_ENTRIES", "pending"},
         cursor' \in Key \union {NULL}, seen' \subseteq Key
  PROVE  Inv'
<1>1. TypeOK'
  BY DEF Inv, TypeOK, Buckets, mapVars, growVars
<1>2. SizeIsExact' /\ MemoryIsAccounted' /\ RehashKeepsEntries'
  BY DEF Inv, SizeIsExact, MemoryIsAccounted, RehashKeepsEntries, Moved, mapVars, growVars
<1>3. BucketArray(list', room', capacity') /\ BucketArray(new_list', new_room', NewCapacity')
  BY DEF Inv, mapVars, growVars, NewCapacity
<1>4. QED
  BY <1>1, <1>2, <1>3 DEF Inv, mapVars, growVars

\* What has to be shown of a step after which no rehash is in progress.
LEMMA QuietStep ==
  ASSUME initialized' \in BOOLEAN, capacity' \in 0 .. MaxCapacity,
         initialized' <=> capacity' # 0, initialized' => IsPowerOfTwo(capacity'),
         BucketArray(list', room', capacity'), size' = Cardinality(Stored(list')),
         stage' \in {"idle", "grow"}, stage' # "idle" => initialized',
         BucketArray(new_list', new_room', 0), map_index' = 0, bucket_index' \in Nat \ {0},
         live' = IF initialized' THEN 1 + BucketBlocks(room') + EntryBlocks(list') ELSE 0,
         ret'.code \in {"OK", "BAD_ALLOC", "NOT_FOUND", "NO_MORE_ENTRIES", "pending"},
         cursor' \in Key \union {NULL}, seen' \subseteq Key
  PROVE  Inv'
<1>1. capacity' \in Nat /\ MaxCapacity \in Nat
  BY CapacityAssumption
<1>2. Cardinality(Stored(list')) \in Nat /\ EntryBlocks(list') = 3 * Cardinality(Stored(list'))
  BY <1>1, EntryBlocksOfKeys
<1>3. BucketBlocks(room') \in Nat
  BY <1>1, BucketBlocksType DEF BucketArray, Buckets
<1>4. size' \in Nat /\ live' \in Int
  BY <1>2, <1>3
<1>5. Buckets(list', room', capacity') /\ Buckets(new_list', new_room', NewCapacity')
  BY DEF BucketArray, NewCapacity
<1>6. TypeOK'
  BY <1>1, <1>4, <1>5 DEF TypeOK, NewCapacity
<1>7. SizeIsExact' /\ RehashKeepsEntries'
  BY DEF SizeIsExact, RehashKeepsEntries
<1>8. MemoryIsAccounted'
  BY <1>4 DEF MemoryIsAccounted
<1>9. BucketArray(new_list', new_room', NewCapacity')
  BY DEF NewCapacity
<1>10. QED
  BY <1>6, <1>7, <1>8, <1>9 DEF Inv

\* The facts a call starts from.
LEMMA IdleFacts ==
  ASSUME Inv
  PROVE  /\ capacity \in Nat /\ size \in Nat /\ live \in Int /\ BucketBlocks(room) \in Nat
         /\ Cardinality(Stored(list)) = size /\ EntryBlocks(list) = 3 * size
         /\ IsFiniteSet(Stored(list))
         /\ initialized => Usable
         /\ stage # "rehash" =>
              /\ BucketArray(new_list, new_room, 0) /\ map_index = 0
              /\ live = IF initialized THEN 1 + BucketBlocks(room) + EntryBlocks(list) ELSE 0
<1>1. capacity \in Nat /\ MaxCapacity \in Nat /\ size \in Nat /\ live \in Int
  BY CapacityAssumption DEF Inv, TypeOK
<1>2. BucketArray(list, room, capacity) /\ size = Cardinality(Stored(list))
  BY DEF Inv, SizeIsExact
<1>3. IsFiniteSet(Stored(list)) /\ EntryBlocks(list) = 3 * size
  BY <1>1, <1>2, EntryBlocksOfKeys
<1>4. BucketBlocks(room) \in Nat
  BY <1>1, <1>2, BucketBlocksType DEF BucketArray, Buckets
<1>5. initialized => Usable
  BY <1>1, <1>2 DEF Inv, TypeOK, Usable
<1>6. ASSUME stage # "rehash"
      PROVE  /\ BucketArray(new_list, new_room, 0) /\ map_index = 0
             /\ live = IF initialized THEN 1 + BucketBlocks(room) + EntryBlocks(list) ELSE 0
  <2>1. BucketArray(new_list, new_room, 0) /\ map_index = 0
    BY <1>6 DEF Inv, NewCapacity
  <2>2. live = (IF initialized THEN 1 + BucketBlocks(room) + EntryBlocks(list) ELSE 0) + 0
    BY <1>6 DEF Inv, MemoryIsAccounted
  <2>3. (IF initialized THEN 1 + BucketBlocks(room) + EntryBlocks(list) ELSE 0) \in Int
    BY <1>1, <1>3, <1>4
  <2>4. QED
    BY <2>1, <2>2, <2>3
<1>7. QED
  BY <1>1, <1>2, <1>3, <1>4, <1>5, <1>6

LEMMA InitMapInv == ASSUME Inv, NEW n \in InitialCapacity, InitMap(n) PROVE Inv'
<1> DEFINE cap == IF IsPowerOfTwo(n) THEN n ELSE RoundUp(n)
<1>1. cap \in 1 .. MaxCapacity /\ IsPowerOfTwo(cap)
  BY CapacityAssumption, RoundUpType
<1> HIDE DEF cap
<1>2. /\ stage = "idle" /\ ~initialized /\ initialized' = TRUE /\ capacity' = cap /\ size' = 0
      /\ list' = NoEntries(cap) /\ room' = NoRoom(cap) /\ live' = live + 2
      /\ ret' = Reply("OK", NULL, NULL)
      /\ UNCHANGED <<growVars, cursor, seen, stage>>
  BY DEF InitMap, Replies, cap
<1>3. cap \in Nat /\ cap # 0 /\ cap \in 0 .. MaxCapacity
  BY <1>1, CapacityAssumption
<1>4. /\ BucketArray(list', room', capacity') /\ Stored(list') = {} /\ BucketBlocks(room') = 1
  BY <1>2, <1>3, NewMapIsBucketArray
<1>5. Cardinality(Stored(list')) = 0
  BY <1>4, FS_EmptySet
<1>6. EntryBlocks(list') = 0
  BY <1>2, <1>3, <1>4, <1>5, EntryBlocksOfKeys
<1>7. live = 0 /\ BucketArray(new_list, new_room, 0) /\ map_index = 0
  BY <1>2, IdleFacts
<1>8. live' = IF initialized' THEN 1 + BucketBlocks(room') + EntryBlocks(list') ELSE 0
  BY <1>2, <1>4, <1>6, <1>7
<1>9. BucketArray(new_list', new_room', 0) /\ map_index' = 0
  BY <1>2, <1>7 DEF growVars
<1>10. bucket_index' \in Nat \ {0} /\ cursor' \in Key \union {NULL} /\ seen' \subseteq Key
  BY <1>2 DEF Inv, TypeOK, growVars
<1>11. ret'.code = "OK"
  BY <1>2 DEF Reply
<1>12. QED
  BY <1>1, <1>2, <1>3, <1>4, <1>5, <1>8, <1>9, <1>10, <1>11, QuietStep

LEMMA FiniMapInv == ASSUME Inv, FiniMap PROVE Inv'
<1>1. /\ stage = "idle" /\ initialized /\ initialized' = FALSE /\ capacity' = 0 /\ size' = 0
      /\ live' = live - EntryBlocks(list) - BucketBlocks(room) - 1
      /\ list' = NoEntries(0) /\ room' = NoRoom(0)
      /\ ret' = Reply("OK", NULL, NULL) /\ cursor' = NULL /\ seen' = {}
      /\ UNCHANGED <<growVars, stage>>
  BY DEF FiniMap, Replies, TraversalEnds
<1>2. BucketArray(list', room', capacity') /\ Cardinality(Stored(list')) = 0
  BY <1>1, NewMapIsBucketArray, FS_EmptySet
<1>3. live' = 0
  BY <1>1, IdleFacts
<1>4. BucketArray(new_list', new_room', 0) /\ map_index' = 0
  BY <1>1, IdleFacts DEF growVars
<1>5. bucket_index' \in Nat \ {0} /\ ret'.code = "OK"
  BY <1>1 DEF Inv, TypeOK, growVars, Reply
<1>6. capacity' \in 0 .. MaxCapacity
  BY <1>1, CapacityAssumption
<1>7. QED
  BY <1>1, <1>2, <1>3, <1>4, <1>5, <1>6, QuietStep

LEMMA SetExistingInv ==
  ASSUME Inv, NEW k \in Key, NEW v \in Value, SetExisting(k, v)
  PROVE  Inv'
<1> DEFINE e == [hashed_key |-> Hash[k], key |-> k, value |-> v]
           b == MapIndex(k)
           j == FoundAt(k)
<1>1. /\ stage = "idle" /\ initialized /\ Found(k)
      /\ list' = [list EXCEPT ![b] = [@ EXCEPT ![j] = e]]
      /\ stage' = "grow" /\ cursor' = NULL /\ seen' = {} /\ ret' = Reply("pending", NULL, NULL)
      /\ UNCHANGED <<initialized, capacity, size, room, growVars, live>>
  BY DEF SetExisting, Replies, TraversalEnds
<1>2. Usable /\ BucketArray(list, room, capacity) /\ capacity \in Nat
  BY <1>1, IdleFacts DEF Usable
<1>3. b \in DOMAIN list /\ j \in DOMAIN list[b] /\ list[b][j].key = k
  BY <1>1, <1>2, FindFinds
<1>4. e \in Entry /\ e.key = k /\ e.hashed_key = Hash[k]
  BY HashAssumption DEF Entry
<1> HIDE DEF e, b, j
<1>5. BucketArray(list', room, capacity) /\ Stored(list') = Stored(list)
  <2>1. e.key = list[b][j].key /\ e.hashed_key = Hash[e.key]
    BY <1>3, <1>4
  <2>2. list' = Replaced(list, b, j, e)
    BY <1>1 DEF Replaced
  <2>3. QED
    BY <1>2, <1>3, <1>4, <2>1, <2>2, ReplacedIsBucketArray
<1>6. EntryBlocks(list') = 3 * Cardinality(Stored(list))
  BY <1>2, <1>5, EntryBlocksOfKeys
<1>7. live' = IF initialized' THEN 1 + BucketBlocks(room') + EntryBlocks(list') ELSE 0
  BY <1>1, <1>6, IdleFacts
<1>8. size' = Cardinality(Stored(list'))
  BY <1>1, <1>5, IdleFacts
<1>9. BucketArray(new_list', new_room', 0) /\ map_index' = 0
  BY <1>1, IdleFacts DEF growVars
<1>10. bucket_index' \in Nat \ {0} /\ ret'.code = "pending"
  BY <1>1 DEF Inv, TypeOK, growVars, Reply
<1>11. /\ initialized' \in BOOLEAN /\ capacity' \in 0 .. MaxCapacity
       /\ initialized' <=> capacity' # 0
       /\ initialized' => IsPowerOfTwo(capacity')
  BY <1>1 DEF Inv, TypeOK
<1>12. BucketArray(list', room', capacity')
  BY <1>1, <1>5
<1>13. QED
  BY <1>1, <1>7, <1>8, <1>9, <1>10, <1>11, <1>12, QuietStep

LEMMA SetNewInv ==
  ASSUME Inv, NEW k \in Key, NEW v \in Value, SetNew(k, v)
  PROVE  Inv'
<1> DEFINE e == [hashed_key |-> Hash[k], key |-> k, value |-> v]
           b == MapIndex(k)
<1>1. /\ stage = "idle" /\ initialized /\ ~Found(k)
      /\ list' = Appended(list, b, e)
      /\ room' = WithRoom(list, room, b)
      /\ live' = live + Cardinality(EntryParts) + BlocksFor(room, b)
      /\ size' = size + 1
      /\ stage' = "grow" /\ cursor' = NULL /\ seen' = {} /\ ret' = Reply("pending", NULL, NULL)
      /\ UNCHANGED <<initialized, capacity, growVars>>
  BY DEF SetNew, Replies, TraversalEnds, Appended, WithRoom
<1>2. Usable /\ BucketArray(list, room, capacity) /\ capacity \in Nat
  BY <1>1, IdleFacts DEF Usable
<1>3. b \in 0 .. capacity - 1 /\ k \notin Stored(list) /\ b = Hash[k] % capacity
  BY <1>1, <1>2, FindFinds
<1>4. e \in Entry /\ e.key = k /\ e.hashed_key = Hash[k]
  BY HashAssumption DEF Entry
<1> HIDE DEF e, b
<1>5. e.key \notin Stored(list) /\ e.hashed_key = Hash[e.key] /\ e.hashed_key % capacity = b
  BY <1>3, <1>4
<1>6. /\ BucketArray(list', room', capacity)
      /\ Stored(list') = Stored(list) \union {k}
      /\ Made(room') = Made(room) \union {b}
  BY <1>1, <1>2, <1>3, <1>4, <1>5, AppendedIsBucketArray
<1>7. Cardinality(Stored(list')) = size + 1
  <2>1. Cardinality(Stored(list)) = size /\ IsFiniteSet(Stored(list))
    BY IdleFacts
  <2>2. Cardinality(Stored(list) \union {k}) = Cardinality(Stored(list)) + 1
    BY <1>3, <2>1, FS_AddElement
  <2>3. QED
    BY <1>6, <2>1, <2>2
<1>8. EntryBlocks(list') = 3 * (size + 1)
  BY <1>2, <1>6, <1>7, EntryBlocksOfKeys
<1>9. /\ room \in [0 .. capacity - 1 -> Nat] /\ room' \in [0 .. capacity - 1 -> Nat]
  BY <1>2, <1>6 DEF BucketArray, Buckets
<1>10. BucketBlocks(room') = BucketBlocks(room) + BlocksFor(room, b) /\ BlocksFor(room, b) \in Nat
  <2>1. BlocksFor(room, b) \in Nat
    BY DEF BlocksFor
  <2>2. Made(room') = Made(room) \union {b}
    BY <1>6
  <2>3. capacity \in Nat /\ b \in 0 .. capacity - 1
    BY <1>2, <1>3
  <2>4. BucketBlocks(room') = BucketBlocks(room) + BlocksFor(room, b)
    BY ONLY ZenonT(30), <1>9, <2>2, <2>3, BucketBlocksGrow
  <2>5. QED
    BY <2>1, <2>4
<1>11. live' = IF initialized' THEN 1 + BucketBlocks(room') + EntryBlocks(list') ELSE 0
  BY <1>1, <1>8, <1>10, IdleFacts, EntryPartsAreThree
<1>12. BucketArray(new_list', new_room', 0) /\ map_index' = 0
  BY <1>1, IdleFacts DEF growVars
<1>13. bucket_index' \in Nat \ {0} /\ ret'.code = "pending"
  BY <1>1 DEF Inv, TypeOK, growVars, Reply
<1>14. /\ initialized' \in BOOLEAN /\ capacity' \in 0 .. MaxCapacity
       /\ initialized' <=> capacity' # 0
       /\ initialized' => IsPowerOfTwo(capacity')
  BY <1>1 DEF Inv, TypeOK
<1>15. BucketArray(list', room', capacity') /\ size' = Cardinality(Stored(list'))
  BY <1>1, <1>6, <1>7
<1>16. QED
  BY <1>1, <1>11, <1>12, <1>13, <1>14, <1>15, QuietStep

LEMMA UnsetInv == ASSUME Inv, NEW k \in Key, Unset(k) PROVE Inv'
<1> DEFINE b == MapIndex(k)
           j == FoundAt(k)
<1>1. /\ stage = "idle" /\ initialized
      /\ cursor' = NULL /\ seen' = {} /\ ret' = Reply("OK", NULL, NULL)
      /\ UNCHANGED <<initialized, capacity, room, growVars, stage>>
  BY DEF Unset, Replies, TraversalEnds
<1>2. Usable /\ BucketArray(list, room, capacity) /\ capacity \in Nat
  BY <1>1, IdleFacts DEF Usable
<1>3. /\ BucketArray(list', room, capacity) /\ size' = Cardinality(Stored(list'))
      /\ live' = 1 + BucketBlocks(room) + EntryBlocks(list')
  <2>1. CASE size # 0 /\ Found(k)
    <3>1. /\ list' = Removed(list, b, j) /\ size' = size - 1
          /\ live' = live - Cardinality(EntryParts)
      BY <2>1 DEF Unset, Removed, DeallocateEntry, EntryParts
    <3>2. b \in DOMAIN list /\ j \in DOMAIN list[b] /\ list[b][j].key = k /\ k \in Stored(list)
      BY <1>2, <2>1, FindFinds
    <3> HIDE DEF b, j
    <3>3. BucketArray(list', room, capacity) /\ Stored(list') = Stored(list) \ {k}
      BY <1>2, <3>1, <3>2, RemovedIsBucketArray
    <3>4. Cardinality(Stored(list')) = size - 1
      <4>1. Cardinality(Stored(list)) = size /\ IsFiniteSet(Stored(list))
        BY IdleFacts
      <4>2. Cardinality(Stored(list) \ {k}) = Cardinality(Stored(list)) - 1
        BY <3>2, <4>1, FS_RemoveElement
      <4>3. QED
        BY <3>3, <4>1, <4>2
    <3>5. EntryBlocks(list') = 3 * (size - 1)
      BY <1>2, <3>3, <3>4, EntryBlocksOfKeys
    <3>6. live' = 1 + BucketBlocks(room) + EntryBlocks(list')
      BY <1>1, <3>1, <3>5, IdleFacts, EntryPartsAreThree
    <3>7. QED
      BY <3>1, <3>3, <3>4, <3>6
  <2>2. CASE ~(size # 0 /\ Found(k))
    <3>1. UNCHANGED <<list, size, live>>
      BY <2>2 DEF Unset
    <3>2. QED
      BY <1>1, <1>2, <3>1, IdleFacts
  <2>3. QED
    BY <2>1, <2>2
<1>4. BucketArray(list', room', capacity')
      /\ live' = IF initialized' THEN 1 + BucketBlocks(room') + EntryBlocks(list') ELSE 0
  BY <1>1, <1>3
<1>5. BucketArray(new_list', new_room', 0) /\ map_index' = 0
  BY <1>1, IdleFacts DEF growVars
<1>6. bucket_index' \in Nat \ {0} /\ ret'.code = "OK"
  BY <1>1 DEF Inv, TypeOK, growVars, Reply
<1>7. /\ initialized' \in BOOLEAN /\ capacity' \in 0 .. MaxCapacity
      /\ initialized' <=> capacity' # 0
      /\ initialized' => IsPowerOfTwo(capacity')
  BY <1>1 DEF Inv, TypeOK
<1>8. QED
  BY <1>1, <1>3, <1>4, <1>5, <1>6, <1>7, QuietStep

\* A failed allocation, a lookup and a step of a traversal change nothing of the map.
LEMMA InitFailsInv == ASSUME Inv, InitFails PROVE Inv'
<1>1. live' = live
  BY IdleFacts DEF InitFails, ImplFreed
<1>2. ret'.code = "BAD_ALLOC"
  BY DEF InitFails, Replies, Reply
<1>3. UNCHANGED <<mapVars, growVars, cursor, seen, stage>>
  BY DEF InitFails
<1>4. cursor' \in Key \union {NULL} /\ seen' \subseteq Key
  BY <1>3 DEF Inv, TypeOK
<1>5. QED
  BY <1>1, <1>2, <1>3, <1>4, CallerStep

LEMMA SetFailsInv == ASSUME Inv, NEW k \in Key, SetFails(k) PROVE Inv'
<1>1. PICK parts \in SUBSET EntryParts :
        /\ parts # {} => "entry" \in parts
        /\ live' = live + Cardinality(parts) - Cardinality(DeallocateEntry(parts))
  BY DEF SetFails
<1>2. DeallocateEntry(parts) = parts
  BY <1>1 DEF DeallocateEntry
<1>3. Cardinality(parts) \in Nat
  BY EntryPartsAreThree, FS_Subset, FS_CardinalityType
<1>4. live' = live
  BY <1>1, <1>2, <1>3, IdleFacts
<1>5. ret'.code = "BAD_ALLOC"
  BY DEF SetFails, Replies, Reply
<1>6. UNCHANGED <<mapVars, growVars, cursor, seen, stage>>
  BY DEF SetFails
<1>7. cursor' \in Key \union {NULL} /\ seen' \subseteq Key
  BY <1>6 DEF Inv, TypeOK
<1>8. QED
  BY <1>4, <1>5, <1>6, <1>7, CallerStep

LEMMA GetInv == ASSUME Inv, NEW k \in Key, Get(k) \/ GetNextOfAbsent(k) PROVE Inv'
<1>1. ret'.code \in {"OK", "NOT_FOUND"}
  BY DEF Get, GetNextOfAbsent, Replies, Reply
<1>2. UNCHANGED <<mapVars, growVars, cursor, seen, stage, live>>
  BY DEF Get, GetNextOfAbsent
<1>3. cursor' \in Key \union {NULL} /\ seen' \subseteq Key
  BY <1>2 DEF Inv, TypeOK
<1>4. QED
  BY <1>1, <1>2, <1>3, CallerStep

\* What a step of a traversal returns: the first of the entries before it.
LEMMA NextFromGives ==
  ASSUME Inv, NEW rest, rest \subseteq Positions(list), NEW sofar, sofar \subseteq Key,
         NextFrom(rest, sofar)
  PROVE  /\ cursor' \in Key \union {NULL} /\ seen' \subseteq Key
         /\ ret'.code \in {"OK", "NO_MORE_ENTRIES"}
         /\ rest = {} => ret' = Reply("NO_MORE_ENTRIES", NULL, NULL) /\ cursor' = NULL /\ seen' = {}
         /\ rest # {} => \E p \in rest :
              /\ \A q \in rest : p[1] < q[1] \/ (p[1] = q[1] /\ p[2] <= q[2])
              /\ p[1] \in DOMAIN list /\ p[2] \in DOMAIN list[p[1]] /\ list[p[1]][p[2]].key \in Key
              /\ ret' = Reply("OK", list[p[1]][p[2]].key, list[p[1]][p[2]].value)
              /\ cursor' = list[p[1]][p[2]].key
              /\ seen' = sofar \union {list[p[1]][p[2]].key}
<1>1. CASE rest = {}
  <2>1. ret' = Reply("NO_MORE_ENTRIES", NULL, NULL) /\ cursor' = NULL /\ seen' = {}
    BY <1>1 DEF NextFrom, Replies, TraversalEnds
  <2>2. ret'.code = "NO_MORE_ENTRIES"
    BY <2>1 DEF Reply
  <2>3. QED
    BY <1>1, <2>1, <2>2
<1>2. CASE rest # {}
  <2> DEFINE p == FirstOf(rest)
             e == list[p[1]][p[2]]
  <2>1. /\ ret' = Reply("OK", e.key, e.value)
        /\ cursor' = e.key /\ seen' = sofar \union {e.key}
    BY <1>2 DEF NextFrom
  <2>2. BucketArray(list, room, capacity) /\ capacity \in Nat
    BY IdleFacts DEF Inv
  <2>3. p \in rest /\ \A q \in rest : p[1] < q[1] \/ (p[1] = q[1] /\ p[2] <= q[2])
    BY <1>2, <2>2, FirstOfIsFirst
  <2> HIDE DEF p
  <2>4. p[1] \in DOMAIN list /\ p[2] \in DOMAIN list[p[1]]
    BY <2>3 DEF Positions
  <2>5. e \in Entry
    BY <2>2, <2>4 DEF BucketArray, Buckets
  <2>6. e.key \in Key
    BY <2>5 DEF Entry
  <2>7. ret'.code = "OK"
    BY <2>1 DEF Reply
  <2>8. QED
    BY <1>2, <2>1, <2>3, <2>4, <2>6, <2>7
<1>3. QED
  BY <1>1, <1>2

LEMMA TraverseInv == ASSUME Inv, GetFirst \/ GetNext PROVE Inv'
<1>1. \E rest \in SUBSET Positions(list) : \E sofar \in SUBSET Key : NextFrom(rest, sofar)
  <2>1. CASE GetFirst
    <3>1. NextFrom(IF size = 0 THEN {} ELSE After(0, 0), {})
      BY <2>1 DEF GetFirst
    <3>2. (IF size = 0 THEN {} ELSE After(0, 0)) \in SUBSET Positions(list)
      BY DEF After
    <3>3. QED
      BY <3>1, <3>2
  <2>2. CASE GetNext
    <3>1. NextFrom(After(MapIndex(cursor), FoundAt(cursor)), seen)
      BY <2>2 DEF GetNext
    <3>2. After(MapIndex(cursor), FoundAt(cursor)) \in SUBSET Positions(list)
      BY DEF After
    <3>3. seen \in SUBSET Key
      BY DEF Inv, TypeOK
    <3>4. QED
      BY <3>1, <3>2, <3>3
  <2>3. QED
    BY <2>1, <2>2
<1>2. /\ cursor' \in Key \union {NULL} /\ seen' \subseteq Key
      /\ ret'.code \in {"OK", "NO_MORE_ENTRIES"}
  BY <1>1, NextFromGives
<1>3. UNCHANGED <<mapVars, growVars, stage, live>>
  BY DEF GetFirst, GetNext
<1>4. QED
  BY <1>2, <1>3, CallerStep

-----------------------------------------------------------------------------
(* hash_map_check_and_grow_map *)

LEMMA NoGrowthInv == ASSUME Inv, NoGrowth \/ GrowAllocFails PROVE Inv'
<1>1. /\ stage = "grow" /\ stage' = "idle" /\ ret' = Reply("OK", NULL, NULL)
      /\ UNCHANGED <<cursor, seen>> /\ UNCHANGED <<mapVars, growVars, live>>
  BY DEF NoGrowth, GrowAllocFails, SetReturns, Replies
<1>2. /\ BucketArray(list, room, capacity) /\ size = Cardinality(Stored(list))
      /\ BucketArray(new_list, new_room, 0) /\ map_index = 0
      /\ live = IF initialized THEN 1 + BucketBlocks(room) + EntryBlocks(list) ELSE 0
  BY <1>1, IdleFacts DEF Inv
<1>3. BucketArray(list', room', capacity') /\ size' = Cardinality(Stored(list'))
  BY <1>1, <1>2 DEF mapVars
<1>4. BucketArray(new_list', new_room', 0) /\ map_index' = 0
  BY <1>1, <1>2 DEF growVars
<1>5. live' = IF initialized' THEN 1 + BucketBlocks(room') + EntryBlocks(list') ELSE 0
  BY <1>1, <1>2 DEF mapVars
<1>6. bucket_index' \in Nat \ {0} /\ ret'.code = "OK"
  BY <1>1 DEF Inv, TypeOK, growVars, Reply
<1>7. /\ initialized' \in BOOLEAN /\ capacity' \in 0 .. MaxCapacity
      /\ initialized' <=> capacity' # 0
      /\ initialized' => IsPowerOfTwo(capacity')
  BY <1>1 DEF Inv, TypeOK, mapVars
<1>8. cursor' \in Key \union {NULL} /\ seen' \subseteq Key
  BY <1>1 DEF Inv, TypeOK
<1>9. QED
  BY <1>1, <1>3, <1>4, <1>5, <1>6, <1>7, <1>8, QuietStep

\* What has to be shown of a step that leaves a rehash in progress.
LEMMA RehashStep ==
  ASSUME Inv, stage' = "rehash", initialized, 2 * capacity <= MaxCapacity,
         UNCHANGED <<mapVars, callerVars>>,
         BucketArray(new_list', new_room', 2 * capacity), Stored(new_list') = Moved',
         \A b \in DOMAIN new_list' : \A j \in DOMAIN new_list'[b] :
           \E c \in DOMAIN list : \E i \in DOMAIN list[c] : new_list'[b][j] = list[c][i],
         map_index' \in 0 .. capacity, bucket_index' \in Nat \ {0},
         live' = 1 + BucketBlocks(room) + EntryBlocks(list) + BucketBlocks(new_room')
  PROVE  Inv'
<1>1. /\ capacity \in Nat /\ 2 * capacity \in Nat /\ size \in Nat /\ BucketBlocks(room) \in Nat
      /\ EntryBlocks(list) = 3 * size
  BY IdleFacts
<1>2. BucketBlocks(new_room') \in Nat
  BY <1>1, BucketBlocksType DEF BucketArray, Buckets
<1>3. /\ initialized' = initialized /\ capacity' = capacity /\ size' = size /\ list' = list
      /\ room' = room /\ ret' = ret /\ cursor' = cursor /\ seen' = seen
  BY DEF mapVars, callerVars
<1>4. NewCapacity' = 2 * capacity
  BY <1>3 DEF NewCapacity
<1>5. Buckets(list', room', capacity') /\ Buckets(new_list', new_room', NewCapacity')
  BY <1>3, <1>4 DEF BucketArray, Inv
<1>6. live' \in Int
  BY <1>1, <1>2
<1>7. TypeOK'
  BY <1>3, <1>5, <1>6 DEF Inv, TypeOK, NewCapacity
<1>8. SizeIsExact'
  BY <1>3 DEF Inv, SizeIsExact
<1>9. MemoryIsAccounted'
  BY <1>3 DEF MemoryIsAccounted
<1>10. RehashKeepsEntries'
  BY <1>3 DEF RehashKeepsEntries, BucketArray
<1>11. BucketArray(list', room', capacity') /\ BucketArray(new_list', new_room', NewCapacity')
  BY <1>3, <1>4 DEF Inv
<1>12. QED
  BY <1>3, <1>7, <1>8, <1>9, <1>10, <1>11 DEF Inv

LEMMA GrowStartsInv == ASSUME Inv, GrowStarts PROVE Inv'
<1>1. /\ stage = "grow" /\ 2 * capacity <= MaxCapacity
      /\ new_list' = NoEntries(2 * capacity) /\ new_room' = NoRoom(2 * capacity)
      /\ map_index' = 0 /\ bucket_index' = 1 /\ live' = live + 1 /\ stage' = "rehash"
      /\ UNCHANGED <<mapVars, callerVars>>
  BY DEF GrowStarts
<1>2. initialized /\ capacity \in Nat /\ 2 * capacity \in Nat /\ list' = list
  BY <1>1, IdleFacts DEF Inv, TypeOK, mapVars
<1>3. /\ BucketArray(new_list', new_room', 2 * capacity)
      /\ Stored(new_list') = {} /\ BucketBlocks(new_room') = 1
  BY <1>1, <1>2, NewMapIsBucketArray
<1>4. Moved' = {}
  <2>1. \A b \in DOMAIN list : b \in Nat /\ \A j \in DOMAIN list[b] : j \in Nat \ {0}
    BY DEF Inv, BucketArray, Buckets
  <2>2. QED
    BY <1>1, <1>2, <2>1 DEF Moved
<1>5. \A b \in DOMAIN new_list' : DOMAIN new_list'[b] = {}
  BY <1>1 DEF NoEntries
<1>6. live' = 1 + BucketBlocks(room) + EntryBlocks(list) + BucketBlocks(new_room')
  BY <1>1, <1>2, <1>3, IdleFacts
<1>7. map_index' \in 0 .. capacity /\ bucket_index' \in Nat \ {0}
  BY <1>1, <1>2
<1>8. QED
  BY <1>1, <1>2, <1>3, <1>4, <1>5, <1>6, <1>7, RehashStep

\* A rehash in progress, as RehashStep needs it.
LEMMA RehashFacts ==
  ASSUME Inv, stage = "rehash"
  PROVE  /\ initialized /\ capacity \in Nat /\ 2 * capacity \in Nat /\ capacity # 0
         /\ 2 * capacity <= MaxCapacity
         /\ BucketArray(list, room, capacity) /\ BucketArray(new_list, new_room, 2 * capacity)
         /\ Stored(new_list) = Moved
         /\ \A b \in DOMAIN new_list : \A j \in DOMAIN new_list[b] :
              \E c \in DOMAIN list : \E i \in DOMAIN list[c] : new_list[b][j] = list[c][i]
         /\ map_index \in 0 .. capacity /\ bucket_index \in Nat \ {0}
         /\ live = 1 + BucketBlocks(room) + EntryBlocks(list) + BucketBlocks(new_room)
         /\ BucketBlocks(new_room) \in Nat
<1>1. /\ initialized /\ capacity \in Nat /\ 2 * capacity \in Nat /\ capacity # 0
      /\ map_index \in 0 .. capacity /\ bucket_index \in Nat \ {0}
  BY IdleFacts DEF Inv, TypeOK
<1>2. 2 * capacity <= MaxCapacity /\ BucketArray(list, room, capacity)
  BY DEF Inv
<1>3. BucketArray(new_list, new_room, 2 * capacity)
  BY DEF Inv, NewCapacity
<1>4. /\ Stored(new_list) = Moved
      /\ \A b \in DOMAIN new_list : \A j \in DOMAIN new_list[b] :
           \E c \in DOMAIN list : \E i \in DOMAIN list[c] : new_list[b][j] = list[c][i]
  BY DEF Inv, RehashKeepsEntries
<1>5. live = 1 + BucketBlocks(room) + EntryBlocks(list) + BucketBlocks(new_room)
  BY <1>1 DEF Inv, MemoryIsAccounted
<1>6. BucketBlocks(new_room) \in Nat
  BY <1>1, <1>3, BucketBlocksType DEF BucketArray, Buckets
<1>7. QED
  BY <1>1, <1>2, <1>3, <1>4, <1>5, <1>6

LEMMA RehashNextBucketInv == ASSUME Inv, RehashNextBucket PROVE Inv'
<1>1. /\ stage = "rehash" /\ map_index < capacity /\ bucket_index > Len(list[map_index])
      /\ map_index' = map_index + 1 /\ bucket_index' = 1
      /\ UNCHANGED <<mapVars, callerVars, stage, new_list, new_room, live>>
  BY DEF RehashNextBucket
<1>2. list' = list
  BY <1>1 DEF mapVars
<1>3. Moved' = Moved
  <2>1. /\ list \in [0 .. capacity - 1 -> Seq(Entry)] /\ capacity \in Nat
        /\ map_index \in 0 .. capacity - 1 /\ bucket_index \in Nat
    BY <1>1, RehashFacts DEF BucketArray, Buckets
  <2>2. \A b \in DOMAIN list : b \in Nat /\ \A j \in DOMAIN list[b] : j \in 1 .. Len(list[b])
    BY <2>1
  <2>3. Len(list[map_index]) \in Nat
    BY <2>1
  <2>4. \A b \in DOMAIN list : \A j \in DOMAIN list[b] :
          (b < map_index \/ (b = map_index /\ j < bucket_index))
          <=> (b < map_index + 1 \/ (b = map_index + 1 /\ j < 1))
    BY <1>1, <2>1, <2>2, <2>3
  <2>5. QED
    BY <1>1, <1>2, <2>4 DEF Moved
<1>4. map_index' \in 0 .. capacity /\ bucket_index' \in Nat \ {0}
  BY <1>1, RehashFacts
<1>5. /\ BucketArray(new_list', new_room', 2 * capacity) /\ Stored(new_list') = Moved'
      /\ \A b \in DOMAIN new_list' : \A j \in DOMAIN new_list'[b] :
           \E c \in DOMAIN list : \E i \in DOMAIN list[c] : new_list'[b][j] = list[c][i]
      /\ live' = 1 + BucketBlocks(room) + EntryBlocks(list) + BucketBlocks(new_room')
  BY <1>1, <1>3, RehashFacts
<1>6. stage' = "rehash" /\ UNCHANGED <<mapVars, callerVars>>
  BY <1>1
<1>7. initialized /\ 2 * capacity <= MaxCapacity
  BY <1>1, RehashFacts
<1>8. QED
  BY <1>4, <1>5, <1>6, <1>7, RehashStep

LEMMA RehashEntryInv == ASSUME Inv, RehashEntry PROVE Inv'
<1> DEFINE e == list[map_index][bucket_index]
           b == RehashIndex
<1>1. /\ stage = "rehash" /\ map_index < capacity /\ bucket_index <= Len(list[map_index])
      /\ new_list' = Appended(new_list, b, e)
      /\ new_room' = WithRoom(new_list, new_room, b)
      /\ live' = live + BlocksFor(new_room, b)
      /\ bucket_index' = bucket_index + 1 /\ map_index' = map_index
      /\ UNCHANGED <<mapVars, callerVars>> /\ stage' = stage
  BY DEF RehashEntry, AtEntry, Appended, WithRoom
<1>2. /\ initialized /\ capacity \in Nat /\ 2 * capacity \in Nat /\ capacity # 0
      /\ 2 * capacity <= MaxCapacity /\ map_index \in 0 .. capacity - 1
      /\ bucket_index \in Nat \ {0}
  BY <1>1, RehashFacts
<1>3. /\ list \in [0 .. capacity - 1 -> Seq(Entry)] /\ PlacedIn(list, capacity)
      /\ DistinctKeys(list)
  BY <1>1, RehashFacts DEF BucketArray, Buckets
<1>4. /\ map_index \in DOMAIN list /\ bucket_index \in DOMAIN list[map_index] /\ e \in Entry
      /\ DOMAIN list[map_index] = 1 .. Len(list[map_index])
  BY <1>1, <1>2, <1>3
<1>5. e.hashed_key = Hash[e.key] /\ e.hashed_key \in Nat /\ e.key \in Key
  BY <1>3, <1>4 DEF PlacedIn, Entry
<1>6. b = e.hashed_key % (2 * capacity) /\ b \in 0 .. 2 * capacity - 1
  BY <1>2, <1>5 DEF RehashIndex
<1> HIDE DEF b
<1>7. \A c \in DOMAIN list : c \in Nat /\ \A i \in DOMAIN list[c] : i \in Nat
  BY <1>3
<1>8. e.key \notin Moved
  <2>1. SUFFICES ASSUME e.key \in Moved
                 PROVE  FALSE
    OBVIOUS
  <2>2. PICK c \in DOMAIN list : \E i \in DOMAIN list[c] :
          list[c][i].key = e.key /\ (c < map_index \/ (c = map_index /\ i < bucket_index))
    BY <2>1 DEF Moved
  <2>3. PICK i \in DOMAIN list[c] :
          list[c][i].key = e.key /\ (c < map_index \/ (c = map_index /\ i < bucket_index))
    BY <2>2
  <2>4. c = map_index /\ i = bucket_index
    BY <1>3, <1>4, <2>3 DEF DistinctKeys
  <2>5. QED
    BY <1>2, <1>7, <2>3, <2>4
<1>9. Moved' = Moved \union {e.key}
  <2>1. list' = list /\ map_index' = map_index /\ bucket_index' = bucket_index + 1
    BY <1>1 DEF mapVars
  <2>2. \A c \in DOMAIN list : \A i \in DOMAIN list[c] :
          (c < map_index \/ (c = map_index /\ i < bucket_index + 1))
          <=> \/ c < map_index \/ (c = map_index /\ i < bucket_index)
              \/ c = map_index /\ i = bucket_index
    BY <1>2, <1>7
  <2>3. QED
    BY <1>4, <1>5, <2>1, <2>2 DEF Moved
<1> HIDE DEF e
<1>10. BucketArray(new_list, new_room, 2 * capacity) /\ Stored(new_list) = Moved
  BY <1>1, RehashFacts
<1>11. e.key \notin Stored(new_list) /\ e.hashed_key % (2 * capacity) = b
  BY <1>6, <1>8, <1>10
<1>12. /\ BucketArray(new_list', new_room', 2 * capacity)
       /\ Stored(new_list') = Stored(new_list) \union {e.key}
       /\ Made(new_room') = Made(new_room) \union {b}
       /\ \A c \in DOMAIN new_list' : \A j \in DOMAIN new_list'[c] :
            \/ new_list'[c][j] = e
            \/ c \in DOMAIN new_list /\ j \in DOMAIN new_list[c] /\ new_list'[c][j] = new_list[c][j]
  <2>1. new_list' = Appended(new_list, b, e) /\ new_room' = WithRoom(new_list, new_room, b)
    BY <1>1
  <2>2. 2 * capacity \in Nat /\ e \in Entry /\ e.hashed_key = Hash[e.key]
    BY <1>2, <1>4, <1>5
  <2>3. QED
    BY ONLY <1>6, <1>10, <1>11, <2>1, <2>2, AppendedIsBucketArray
<1>13. Stored(new_list') = Moved'
  BY <1>9, <1>10, <1>12
<1>14. \A c \in DOMAIN new_list' : \A j \in DOMAIN new_list'[c] :
         \E d \in DOMAIN list : \E i \in DOMAIN list[d] : new_list'[c][j] = list[d][i]
  <2>1. \A c \in DOMAIN new_list : \A j \in DOMAIN new_list[c] :
          \E d \in DOMAIN list : \E i \in DOMAIN list[d] : new_list[c][j] = list[d][i]
    BY <1>1, RehashFacts
  <2>2. e = list[map_index][bucket_index]
    BY DEF e
  <2>3. QED
    BY <1>4, <1>12, <2>1, <2>2
<1>15. BucketBlocks(new_room') = BucketBlocks(new_room) + BlocksFor(new_room, b)
  <2>1. new_room \in [0 .. 2 * capacity - 1 -> Nat] /\ new_room' \in [0 .. 2 * capacity - 1 -> Nat]
    BY <1>10, <1>12 DEF BucketArray, Buckets
  <2>2. Made(new_room') = Made(new_room) \union {b} /\ b \in 0 .. 2 * capacity - 1
    BY <1>6, <1>12
  <2>3. 2 * capacity \in Nat
    BY <1>2
  <2>4. QED
    BY ONLY SMTT(30), <2>1, <2>2, <2>3, BucketBlocksGrow
<1>16. live' = 1 + BucketBlocks(room) + EntryBlocks(list) + BucketBlocks(new_room')
  <2>1. BlocksFor(new_room, b) \in Nat
    BY DEF BlocksFor
  <2>2. /\ live = 1 + BucketBlocks(room) + EntryBlocks(list) + BucketBlocks(new_room)
        /\ BucketBlocks(new_room) \in Nat /\ BucketBlocks(room) \in Nat /\ EntryBlocks(list) \in Nat
    BY SMTT(30), <1>1, RehashFacts, IdleFacts
  <2>3. live' = live + BlocksFor(new_room, b)
    BY <1>1
  <2>4. QED
    BY ONLY <1>15, <2>1, <2>2, <2>3
<1>17. map_index' \in 0 .. capacity /\ bucket_index' \in Nat \ {0}
  BY <1>1, <1>2
<1>18. stage' = "rehash" /\ UNCHANGED <<mapVars, callerVars>>
  BY <1>1
<1>19. QED
  BY <1>2, <1>12, <1>13, <1>14, <1>16, <1>17, <1>18, RehashStep

LEMMA RehashFailsInv == ASSUME Inv, RehashFails PROVE Inv'
<1>1. /\ stage = "rehash" /\ live' = live - BucketBlocks(new_room)
      /\ stage' = "idle" /\ ret' = Reply("OK", NULL, NULL) /\ UNCHANGED <<cursor, seen>>
      /\ new_list' = NoEntries(0) /\ new_room' = NoRoom(0) /\ map_index' = 0 /\ bucket_index' = 1
      /\ UNCHANGED mapVars
  BY DEF RehashFails, AtEntry, SetReturns, Replies
<1>2. BucketArray(list', room', capacity') /\ size' = Cardinality(Stored(list'))
  BY <1>1, IdleFacts DEF Inv, mapVars
<1>3. BucketArray(new_list', new_room', 0)
  BY <1>1, NewMapIsBucketArray
<1>4. live' = 1 + BucketBlocks(room) + EntryBlocks(list)
  BY <1>1, RehashFacts, IdleFacts
<1>5. live' = IF initialized' THEN 1 + BucketBlocks(room') + EntryBlocks(list') ELSE 0
  BY <1>1, <1>4, RehashFacts DEF mapVars
<1>6. bucket_index' \in Nat \ {0} /\ ret'.code = "OK"
  BY <1>1 DEF Reply
<1>7. /\ initialized' \in BOOLEAN /\ capacity' \in 0 .. MaxCapacity
      /\ initialized' <=> capacity' # 0
      /\ initialized' => IsPowerOfTwo(capacity')
  BY <1>1 DEF Inv, TypeOK, mapVars
<1>8. cursor' \in Key \union {NULL} /\ seen' \subseteq Key
  BY <1>1 DEF Inv, TypeOK
<1>9. QED
  BY <1>1, <1>2, <1>3, <1>5, <1>6, <1>7, <1>8, QuietStep

\* When the loop is over every entry has moved: the new map holds the keys of the old.
LEMMA AllMoved ==
  ASSUME Inv, stage = "rehash", map_index = capacity
  PROVE  Stored(new_list) = Stored(list)
<1>1. list \in [0 .. capacity - 1 -> Seq(Entry)] /\ capacity \in Nat /\ Stored(new_list) = Moved
  BY RehashFacts DEF BucketArray, Buckets
<1>2. \A b \in DOMAIN list : b < map_index
  BY <1>1
<1>3. QED
  BY <1>1, <1>2 DEF Moved, Stored

LEMMA GrowEndsInv == ASSUME Inv, GrowEnds PROVE Inv'
<1>1. /\ stage = "rehash" /\ map_index = capacity /\ live' = live - BucketBlocks(room)
      /\ list' = new_list /\ room' = new_room /\ capacity' = 2 * capacity
      /\ new_list' = NoEntries(0) /\ new_room' = NoRoom(0) /\ map_index' = 0 /\ bucket_index' = 1
      /\ stage' = "idle" /\ ret' = Reply("OK", NULL, NULL) /\ UNCHANGED <<cursor, seen>>
      /\ initialized' = initialized /\ size' = size
  BY DEF GrowEnds, SetReturns, Replies
<1>2. BucketArray(list', room', capacity') /\ Stored(list') = Stored(list)
  BY <1>1, RehashFacts, AllMoved
<1>3. size' = Cardinality(Stored(list'))
  BY <1>1, <1>2, IdleFacts
<1>4. capacity' \in Nat /\ EntryBlocks(list') = 3 * size
  BY <1>1, <1>2, <1>3, RehashFacts, EntryBlocksOfKeys
<1>5. live' = IF initialized' THEN 1 + BucketBlocks(room') + EntryBlocks(list') ELSE 0
  <2>1. live = 1 + BucketBlocks(room) + 3 * size + BucketBlocks(new_room)
    BY <1>1, RehashFacts, IdleFacts
  <2>2. live' = 1 + BucketBlocks(new_room) + 3 * size
    BY <1>1, <2>1, RehashFacts, IdleFacts
  <2>3. QED
    BY <1>1, <1>4, <2>2, RehashFacts
<1>6. BucketArray(new_list', new_room', 0)
  BY <1>1, NewMapIsBucketArray
<1>7. bucket_index' \in Nat \ {0} /\ ret'.code = "OK"
  BY <1>1 DEF Reply
<1>8. capacity \in 1 .. MaxCapacity /\ IsPowerOfTwo(capacity)
  BY <1>1, IdleFacts, RehashFacts DEF Usable
<1>9. IsPowerOfTwo(capacity')
  BY <1>1, <1>8, MaskAssumption
<1>10. /\ initialized' \in BOOLEAN /\ capacity' \in 0 .. MaxCapacity
       /\ initialized' <=> capacity' # 0
  BY <1>1, RehashFacts, CapacityAssumption DEF Inv, TypeOK
<1>11. cursor' \in Key \union {NULL} /\ seen' \subseteq Key
  BY <1>1 DEF Inv, TypeOK
<1>12. QED
  BY <1>1, <1>2, <1>3, <1>5, <1>6, <1>7, <1>9, <1>10, <1>11, QuietStep

-----------------------------------------------------------------------------
\* Every step of the map preserves the invariant.
LEMMA NextInv == Inv /\ [Next]_vars => Inv'
<1> SUFFICES ASSUME Inv, [Next]_vars
             PROVE  Inv'
  OBVIOUS
<1>1. CASE UNCHANGED vars
  <2>1. /\ UNCHANGED <<mapVars, growVars, stage, live>>
        /\ ret' = ret /\ cursor' = cursor /\ seen' = seen
    BY <1>1 DEF vars, callerVars
  <2>2. /\ ret'.code \in {"OK", "BAD_ALLOC", "NOT_FOUND", "NO_MORE_ENTRIES", "pending"}
        /\ cursor' \in Key \union {NULL} /\ seen' \subseteq Key
    BY <2>1 DEF Inv, TypeOK
  <2>3. QED
    BY <2>1, <2>2, CallerStep
<1>2. CASE \E n \in InitialCapacity : InitMap(n)
  BY <1>2, InitMapInv
<1>3. CASE InitFails
  BY <1>3, InitFailsInv
<1>4. CASE FiniMap
  BY <1>4, FiniMapInv
<1>5. CASE \E k \in Key : \E v \in Value : SetExisting(k, v)
  BY <1>5, SetExistingInv
<1>6. CASE \E k \in Key : \E v \in Value : SetNew(k, v)
  BY <1>6, SetNewInv
<1>7. CASE \E k \in Key : SetFails(k)
  BY <1>7, SetFailsInv
<1>8. CASE \E k \in Key : Unset(k)
  BY <1>8, UnsetInv
<1>9. CASE \E k \in Key : Get(k) \/ GetNextOfAbsent(k)
  BY <1>9, GetInv
<1>10. CASE Grow
  BY <1>10, NoGrowthInv, GrowStartsInv, RehashEntryInv, RehashFailsInv, RehashNextBucketInv,
     GrowEndsInv DEF Grow
<1>11. CASE GetFirst \/ GetNext
  BY <1>11, TraverseInv
<1>12. QED
  BY <1>1, <1>2, <1>3, <1>4, <1>5, <1>6, <1>7, <1>8, <1>9, <1>10, <1>11 DEF Next

\* The inductive invariant holds in every reachable state.
LEMMA AlwaysInv == Spec => []Inv
<1>1. QED
  BY InitInv, NextInv, PTL DEF Spec

\* hash_map.c keeps its structure: size counts the stored keys, no bucket is
\* written past its memory, and a rehash in progress has moved exactly the
\* entries before its counters.
THEOREM HashMapSound == Spec => []MapIsSound
<1>1. Inv => MapIsSound
  BY InvImpliesProperties
<1>2. QED
  BY <1>1, AlwaysInv, PTL

\* hash_map_find finds every key that was inserted, at every capacity the map has
\* grown to, the bitwise and of a power of two less one being the remainder
\* (MaskAssumption), as the comment in hash_map_find has it.
THEOREM EntriesFound == Spec => []EveryEntryIsFound
<1>1. Inv => EveryEntryIsFound
  BY InvImpliesProperties
<1>2. QED
  BY <1>1, AlwaysInv, PTL

\* No path through init, set, grow, unset and fini leaks a block or frees one twice.
THEOREM HashMapMemory == Spec => []MemoryIsAccounted
<1>1. Inv => MemoryIsAccounted
  BY InvImpliesProperties
<1>2. QED
  BY <1>1, AlwaysInv, PTL

-----------------------------------------------------------------------------
(* The traversal: rcutils_hash_map_get_next_key_and_data goes through the      *)
(* positions of the buckets in lexicographic order.                            *)
UpTo(q, p) == q[1] < p[1] \/ (q[1] = p[1] /\ q[2] <= p[2])
KeyAt(l, p) == l[p[1]][p[2]].key
Visited(l, p) == {k \in Key : \E q \in Positions(l) : KeyAt(l, q) = k /\ UpTo(q, p)}

\* The caller has been given the keys up to the one it continues from, and no
\* traversal outlives a change of the map.
TraversalInv ==
  /\ stage # "idle" <=> ret.code = "pending"
  /\ stage # "idle" => cursor = NULL
  /\ cursor = NULL => seen = {}
  /\ cursor # NULL => \E p \in Positions(list) : KeyAt(list, p) = cursor /\ seen = Visited(list, p)

\* Positions are pairs of numbers, and no two have the same key.
LEMMA PositionFacts ==
  ASSUME NEW cap \in Nat, NEW l, NEW r, BucketArray(l, r, cap)
  PROVE  /\ \A p \in Positions(l) :
              /\ p = <<p[1], p[2]>> /\ p[1] \in DOMAIN l /\ p[2] \in DOMAIN l[p[1]]
              /\ p[1] \in Nat /\ p[2] \in Nat \ {0} /\ KeyAt(l, p) \in Key
              /\ l[p[1]][p[2]] \in Entry
         /\ \A b \in DOMAIN l : \A j \in DOMAIN l[b] : <<b, j>> \in Positions(l)
         /\ \A p, q \in Positions(l) : KeyAt(l, p) = KeyAt(l, q) => p = q
         /\ Stored(l) = {KeyAt(l, p) : p \in Positions(l)}
<1>1. l \in [0 .. cap - 1 -> Seq(Entry)] /\ DistinctKeys(l)
  BY DEF BucketArray, Buckets
<1>2. \A p \in Positions(l) : p = <<p[1], p[2]>> /\ p[1] \in DOMAIN l /\ p[2] \in DOMAIN l[p[1]]
  BY DEF Positions
<1>3. \A b \in DOMAIN l : \A j \in DOMAIN l[b] :
        <<b, j>> \in Positions(l) /\ <<b, j>>[1] = b /\ <<b, j>>[2] = j
  BY DEF Positions
<1>4. \A b \in DOMAIN l : b \in Nat /\ \A j \in DOMAIN l[b] : j \in Nat \ {0} /\ l[b][j] \in Entry
  BY <1>1
<1>5. \A e \in Entry : e.key \in Key
  BY DEF Entry
<1>6. \A p \in Positions(l) : /\ p[1] \in Nat /\ p[2] \in Nat \ {0} /\ KeyAt(l, p) \in Key
                              /\ l[p[1]][p[2]] \in Entry
  BY <1>2, <1>4, <1>5 DEF KeyAt
<1>7. \A p, q \in Positions(l) : KeyAt(l, p) = KeyAt(l, q) => p = q
  BY <1>1, <1>2 DEF KeyAt, DistinctKeys
<1>8. Stored(l) = {KeyAt(l, p) : p \in Positions(l)}
  <2>1. \A k \in Stored(l) : \E p \in Positions(l) : KeyAt(l, p) = k
    <3>1. SUFFICES ASSUME NEW k \in Stored(l)
                   PROVE  \E p \in Positions(l) : KeyAt(l, p) = k
      OBVIOUS
    <3>2. PICK b \in DOMAIN l : \E j \in DOMAIN l[b] : l[b][j].key = k
      BY DEF Stored
    <3>3. PICK j \in DOMAIN l[b] : l[b][j].key = k
      BY <3>2
    <3>4. <<b, j>> \in Positions(l) /\ KeyAt(l, <<b, j>>) = k
      BY <1>3, <3>3 DEF KeyAt
    <3>5. QED
      BY <3>4
  <2>2. \A p \in Positions(l) : KeyAt(l, p) \in Stored(l)
    BY <1>2, <1>6 DEF KeyAt, Stored
  <2>3. QED
    BY <2>1, <2>2
<1>9. QED
  BY <1>2, <1>3, <1>6, <1>7, <1>8

\* A traversal begins with all positions before it, and continues with those after
\* the key it was given last.
LEMMA TraversalRest ==
  ASSUME Inv, TraversalInv, NEW rest, NEW sofar,
         \/ GetFirst /\ rest = (IF size = 0 THEN {} ELSE After(0, 0)) /\ sofar = {}
         \/ GetNext /\ rest = After(MapIndex(cursor), FoundAt(cursor)) /\ sofar = seen
  PROVE  /\ rest \subseteq Positions(list) /\ sofar \subseteq Key
         /\ sofar = {KeyAt(list, q) : q \in Positions(list) \ rest}
         /\ \A q \in Positions(list) \ rest, p \in rest : UpTo(q, p) /\ ~UpTo(p, q)
<1>1. BucketArray(list, room, capacity) /\ capacity \in Nat
  BY IdleFacts DEF Inv
<1>2. /\ \A p \in Positions(list) : p[1] \in Nat /\ p[2] \in Nat \ {0} /\ p = <<p[1], p[2]>>
      /\ \A p \in Positions(list) : KeyAt(list, p) \in Key
      /\ Stored(list) = {KeyAt(list, p) : p \in Positions(list)}
      /\ \A p, q \in Positions(list) : KeyAt(list, p) = KeyAt(list, q) => p = q
      /\ \A b \in DOMAIN list : \A j \in DOMAIN list[b] : <<b, j>> \in Positions(list)
  BY <1>1, PositionFacts
<1>3. CASE GetFirst /\ rest = (IF size = 0 THEN {} ELSE After(0, 0)) /\ sofar = {}
  <2>1. size = 0 => Positions(list) = {}
    <3>1. size = 0 => Stored(list) = {}
      BY IdleFacts, FS_EmptySet
    <3>2. QED
      BY <1>2, <3>1
  <2>2. After(0, 0) = Positions(list)
    BY <1>2 DEF After
  <2>3. rest = Positions(list)
    BY <1>3, <2>1, <2>2
  <2>4. QED
    BY <1>3, <2>3
<1>4. CASE GetNext /\ rest = After(MapIndex(cursor), FoundAt(cursor)) /\ sofar = seen
  <2>1. cursor # NULL /\ Found(cursor) /\ initialized /\ cursor \in Key
    BY <1>4 DEF GetNext, Inv, TypeOK
  <2>2. Usable
    BY <2>1, IdleFacts
  <2>3. /\ MapIndex(cursor) \in DOMAIN list /\ FoundAt(cursor) \in DOMAIN list[MapIndex(cursor)]
        /\ list[MapIndex(cursor)][FoundAt(cursor)].key = cursor
    BY <2>1, <2>2, FindFinds
  <2> DEFINE c == <<MapIndex(cursor), FoundAt(cursor)>>
  <2>4. c \in Positions(list) /\ KeyAt(list, c) = cursor /\ c[1] = MapIndex(cursor) /\ c[2] = FoundAt(cursor)
    BY <1>2, <2>3 DEF KeyAt
  <2>5. seen = Visited(list, c)
    BY <1>2, <2>1, <2>4 DEF TraversalInv
  <2>6. rest = {p \in Positions(list) : p[1] > c[1] \/ (p[1] = c[1] /\ p[2] > c[2])}
    BY <1>4, <2>4 DEF After
  <2> HIDE DEF c
  <2>7. c[1] \in Nat /\ c[2] \in Nat
    BY <1>2, <2>4
  <2>8. \A q \in Positions(list) : q \notin rest <=> UpTo(q, c)
    BY <1>2, <2>6, <2>7 DEF UpTo
  <2>9. sofar = {KeyAt(list, q) : q \in Positions(list) \ rest}
    BY <1>2, <1>4, <2>5, <2>8 DEF Visited
  <2>10. \A q \in Positions(list) \ rest, p \in rest : UpTo(q, p) /\ ~UpTo(p, q)
    BY <1>2, <2>6, <2>7 DEF UpTo
  <2>11. seen \subseteq Key
    BY DEF Inv, TypeOK
  <2>12. QED
    BY <1>4, <2>6, <2>9, <2>10, <2>11
<1>5. QED
  BY <1>3, <1>4

\* A step of a traversal gives the caller a key it was not given since the traversal
\* began, or, when it was given all of them, says that there are no more.
LEMMA TraversalStep ==
  ASSUME Inv, TraversalInv, GetFirst \/ GetNext
  PROVE  \E sofar \in {seen, {}} :
           \/ /\ sofar = Stored(list) /\ ret' = Reply("NO_MORE_ENTRIES", NULL, NULL)
              /\ cursor' = NULL /\ seen' = {}
           \/ \E p \in Positions(list) :
                /\ KeyAt(list, p) \in Stored(list) \ sofar
                /\ ret' = Reply("OK", KeyAt(list, p), list[p[1]][p[2]].value)
                /\ cursor' = KeyAt(list, p) /\ seen' = sofar \union {KeyAt(list, p)}
                /\ seen' = Visited(list, p)
<1>1. PICK rest \in SUBSET Positions(list), sofar \in {seen, {}} :
        /\ \/ GetFirst /\ rest = (IF size = 0 THEN {} ELSE After(0, 0)) /\ sofar = {}
           \/ GetNext /\ rest = After(MapIndex(cursor), FoundAt(cursor)) /\ sofar = seen
        /\ NextFrom(rest, sofar)
  <2>1. CASE GetFirst
    <3>1. NextFrom(IF size = 0 THEN {} ELSE After(0, 0), {})
      BY <2>1 DEF GetFirst
    <3>2. (IF size = 0 THEN {} ELSE After(0, 0)) \in SUBSET Positions(list)
      BY DEF After
    <3>3. QED
      BY <2>1, <3>1, <3>2
  <2>2. CASE GetNext
    <3>1. NextFrom(After(MapIndex(cursor), FoundAt(cursor)), seen)
      BY <2>2 DEF GetNext
    <3>2. After(MapIndex(cursor), FoundAt(cursor)) \in SUBSET Positions(list)
      BY DEF After
    <3>3. QED
      BY <2>2, <3>1, <3>2
  <2>3. QED
    BY <2>1, <2>2
<1>2. /\ rest \subseteq Positions(list) /\ sofar \subseteq Key
      /\ sofar = {KeyAt(list, q) : q \in Positions(list) \ rest}
      /\ \A q \in Positions(list) \ rest, p \in rest : UpTo(q, p) /\ ~UpTo(p, q)
  BY <1>1, TraversalRest
<1>3. BucketArray(list, room, capacity) /\ capacity \in Nat
  BY IdleFacts DEF Inv
<1>4. /\ \A p \in Positions(list) : p[1] \in Nat /\ p[2] \in Nat /\ p = <<p[1], p[2]>>
      /\ \A p \in Positions(list) : KeyAt(list, p) \in Key
      /\ Stored(list) = {KeyAt(list, p) : p \in Positions(list)}
      /\ \A p, q \in Positions(list) : KeyAt(list, p) = KeyAt(list, q) => p = q
  BY <1>3, PositionFacts
<1>5. CASE rest = {}
  <2>1. ret' = Reply("NO_MORE_ENTRIES", NULL, NULL) /\ cursor' = NULL /\ seen' = {}
    BY <1>1, <1>2, <1>5, NextFromGives
  <2>2. sofar = Stored(list)
    BY <1>2, <1>4, <1>5
  <2>3. QED
    BY <2>1, <2>2
<1>6. CASE rest # {}
  <2>1. PICK p \in rest :
          /\ \A q \in rest : p[1] < q[1] \/ (p[1] = q[1] /\ p[2] <= q[2])
          /\ ret' = Reply("OK", list[p[1]][p[2]].key, list[p[1]][p[2]].value)
          /\ cursor' = list[p[1]][p[2]].key
          /\ seen' = sofar \union {list[p[1]][p[2]].key}
    BY ZenonT(30), <1>1, <1>2, <1>6, NextFromGives
  <2>2. /\ p \in Positions(list) /\ cursor' = KeyAt(list, p) /\ seen' = sofar \union {KeyAt(list, p)}
        /\ ret' = Reply("OK", KeyAt(list, p), list[p[1]][p[2]].value)
    BY <1>2, <2>1 DEF KeyAt
  <2>3. KeyAt(list, p) \in Stored(list) \ sofar
    BY <1>2, <1>4, <2>2
  <2>4. \A q \in Positions(list) : UpTo(q, p) <=> q \notin rest \/ q = p
    <3>1. \A q \in rest : UpTo(q, p) => q = p
      <4>1. SUFFICES ASSUME NEW q \in rest, UpTo(q, p)
                     PROVE  q = p
        OBVIOUS
      <4>2. q[1] = p[1] /\ q[2] = p[2]
        BY <1>2, <1>4, <2>1, <4>1 DEF UpTo
      <4>3. QED
        BY <1>2, <1>4, <2>2, <4>2
    <3>2. UpTo(p, p)
      BY <1>4, <2>2 DEF UpTo
    <3>3. QED
      BY <1>2, <3>1, <3>2
  <2>5. seen' = Visited(list, p)
    BY <1>2, <1>4, <2>2, <2>4 DEF Visited
  <2>6. QED
    BY <2>2, <2>3, <2>5
<1>7. QED
  BY <1>5, <1>6

LEMMA TraversalInvHolds == Spec => []TraversalInv
<1>1. Init => TraversalInv
  BY DEF Init, TraversalInv, Reply
<1>2. Inv /\ TraversalInv /\ [Next]_vars => TraversalInv'
  <2> SUFFICES ASSUME Inv, TraversalInv, [Next]_vars
               PROVE  TraversalInv'
    OBVIOUS
  <2>1. ASSUME stage = "idle", ret'.code # "pending",
               UNCHANGED <<mapVars, cursor, seen, stage>>
        PROVE  TraversalInv'
    BY <2>1 DEF TraversalInv, mapVars
  <2>2. ASSUME cursor' = NULL, seen' = {}, stage' # "idle" <=> ret'.code = "pending"
        PROVE  TraversalInv'
    BY <2>2 DEF TraversalInv
  <2>3. CASE UNCHANGED vars
    BY <2>3 DEF vars, mapVars, callerVars, TraversalInv
  <2>4. ASSUME NEW n \in InitialCapacity, InitMap(n)
        PROVE  TraversalInv'
    <3>1. /\ stage = "idle" /\ ~initialized /\ ret'.code = "OK"
          /\ cursor' = cursor /\ seen' = seen /\ stage' = stage
      BY <2>4 DEF InitMap, Replies, Reply
    <3>2. capacity = 0 /\ list \in [0 .. capacity - 1 -> Seq(Entry)]
      BY <3>1 DEF Inv, TypeOK, Buckets
    <3>3. Positions(list) = {}
      BY <3>2 DEF Positions
    <3>4. cursor = NULL
      BY <3>3 DEF TraversalInv
    <3>5. QED
      BY <2>2, <3>1, <3>4 DEF TraversalInv
  <2>5. CASE InitFails
    <3>1. ret'.code = "BAD_ALLOC"
      BY <2>5 DEF InitFails, Replies, Reply
    <3>2. QED
      BY <2>1, <2>5, <3>1 DEF InitFails
  <2>6. CASE FiniMap
    <3>1. ret'.code = "OK" /\ stage = "idle" /\ stage' = stage
      BY <2>6 DEF FiniMap, Replies, Reply
    <3>2. QED
      BY <2>2, <2>6, <3>1 DEF FiniMap, TraversalEnds
  <2>7. ASSUME NEW k \in Key, NEW v \in Value, SetExisting(k, v) \/ SetNew(k, v)
        PROVE  TraversalInv'
    <3>1. ret'.code = "pending" /\ stage' = "grow"
      BY <2>7 DEF SetExisting, SetNew, Replies, Reply
    <3>2. cursor' = NULL /\ seen' = {}
      BY <2>7 DEF SetExisting, SetNew, TraversalEnds
    <3>3. QED
      BY <2>2, <3>1, <3>2
  <2>8. ASSUME NEW k \in Key, SetFails(k) \/ Get(k) \/ GetNextOfAbsent(k)
        PROVE  TraversalInv'
    <3>1. ret'.code \in {"BAD_ALLOC", "OK", "NOT_FOUND"}
      BY <2>8 DEF SetFails, Get, GetNextOfAbsent, Replies, Reply
    <3>2. stage = "idle" /\ UNCHANGED <<mapVars, cursor, seen, stage>>
      BY <2>8 DEF SetFails, Get, GetNextOfAbsent
    <3>3. QED
      BY <2>1, <3>1, <3>2
  <2>9. ASSUME NEW k \in Key, Unset(k)
        PROVE  TraversalInv'
    <3>1. ret'.code = "OK" /\ stage = "idle" /\ stage' = stage
      BY <2>9 DEF Unset, Replies, Reply
    <3>2. cursor' = NULL /\ seen' = {}
      BY <2>9 DEF Unset, TraversalEnds
    <3>3. QED
      BY <2>2, <3>1, <3>2
  <2>10. CASE NoGrowth \/ GrowAllocFails \/ RehashFails \/ GrowEnds
    <3>1. ret'.code = "OK" /\ stage # "idle" /\ stage' = "idle" /\ cursor' = cursor /\ seen' = seen
      BY <2>10 DEF NoGrowth, GrowAllocFails, RehashFails, GrowEnds, AtEntry, SetReturns, Replies, Reply
    <3>2. QED
      BY <2>2, <3>1 DEF TraversalInv
  <2>11. CASE GrowStarts \/ RehashEntry \/ RehashNextBucket
    <3>1. UNCHANGED <<ret, cursor, seen>> /\ stage # "idle" /\ stage' = "rehash"
      BY <2>11 DEF GrowStarts, RehashEntry, RehashNextBucket, AtEntry, callerVars
    <3>2. QED
      BY <2>2, <3>1 DEF TraversalInv
  <2>12. CASE GetFirst \/ GetNext
    <3>1. stage = "idle" /\ stage' = "idle" /\ list' = list
      BY <2>12 DEF GetFirst, GetNext, mapVars
    <3>2. PICK sofar \in {seen, {}} :
            \/ /\ ret' = Reply("NO_MORE_ENTRIES", NULL, NULL) /\ cursor' = NULL /\ seen' = {}
            \/ \E p \in Positions(list) :
                 /\ KeyAt(list, p) \in Stored(list)
                 /\ ret' = Reply("OK", KeyAt(list, p), list[p[1]][p[2]].value)
                 /\ cursor' = KeyAt(list, p) /\ seen' = Visited(list, p)
      BY <2>12, TraversalStep
    <3>3. CASE ret' = Reply("NO_MORE_ENTRIES", NULL, NULL) /\ cursor' = NULL /\ seen' = {}
      <4>1. ret'.code = "NO_MORE_ENTRIES"
        BY <3>3 DEF Reply
      <4>2. QED
        BY <2>2, <3>1, <3>3, <4>1
    <3>4. CASE \E p \in Positions(list) :
                 /\ KeyAt(list, p) \in Stored(list)
                 /\ ret' = Reply("OK", KeyAt(list, p), list[p[1]][p[2]].value)
                 /\ cursor' = KeyAt(list, p) /\ seen' = Visited(list, p)
      <4>1. ret'.code = "OK"
        BY <3>4 DEF Reply
      <4>2. cursor' # NULL
        BY <3>4, KeyAssumption DEF Stored
      <4>3. QED
        BY <3>1, <3>4, <4>1, <4>2 DEF TraversalInv
    <3>5. QED
      BY <3>2, <3>3, <3>4
  <2>13. QED
    BY <2>3, <2>4, <2>5, <2>6, <2>7, <2>8, <2>9, <2>10, <2>11, <2>12 DEF Next, Grow
<1>3. QED
  BY <1>1, <1>2, AlwaysInv, PTL DEF Spec

-----------------------------------------------------------------------------
(* The dictionary that an array of buckets stands for *)
ValueIn(l, k) ==
  LET bs == {b \in DOMAIN l : \E j \in DOMAIN l[b] : l[b][j].key = k}
      bucket == l[CHOOSE b \in bs : TRUE]
  IN  IF bs = {} THEN NULL
      ELSE bucket[CHOOSE j \in DOMAIN bucket : bucket[j].key = k].value
DictOf(l) == [k \in Key |-> ValueIn(l, k)]

LEMMA DictIs == Dict = DictOf(list) /\ Dict' = DictOf(list')
BY DEF Dict, DictOf, ValueOf, ValueIn

\* The value of a key is that of its only entry, and there is one for the stored keys.
LEMMA ValueInIs ==
  ASSUME NEW cap \in Nat, NEW l, NEW r, BucketArray(l, r, cap), NEW k \in Key
  PROVE  /\ k \notin Stored(l) => DictOf(l)[k] = NULL
         /\ \A b \in DOMAIN l : \A j \in DOMAIN l[b] :
              l[b][j].key = k => DictOf(l)[k] = l[b][j].value
         /\ k \in Stored(l) => DictOf(l)[k] # NULL
<1> DEFINE bs == {b \in DOMAIN l : \E j \in DOMAIN l[b] : l[b][j].key = k}
           bucket == l[CHOOSE b \in bs : TRUE]
<1>1. DictOf(l)[k] = IF bs = {} THEN NULL ELSE bucket[CHOOSE j \in DOMAIN bucket : bucket[j].key = k].value
  BY DEF DictOf, ValueIn
<1>2. bs # {} <=> k \in Stored(l)
  BY DEF Stored
<1>3. ASSUME NEW b \in DOMAIN l, NEW j \in DOMAIN l[b], l[b][j].key = k
      PROVE  DictOf(l)[k] = l[b][j].value
  <2>1. b \in bs
    BY <1>3
  <2>2. \A c \in bs : c = b
    BY <1>3 DEF BucketArray, DistinctKeys
  <2>3. (CHOOSE c \in bs : TRUE) = b
    <3> HIDE DEF bs
    <3>1. QED
      BY <2>1, <2>2
  <2>4. bucket = l[b]
    BY <2>3
  <2>5. \A i \in DOMAIN l[b] : l[b][i].key = k => i = j
    BY <1>3 DEF BucketArray, DistinctKeys
  <2>6. (CHOOSE i \in DOMAIN l[b] : l[b][i].key = k) = j
    BY <1>3, <2>5
  <2>7. bs # {}
    BY <2>1
  <2> HIDE DEF bucket, bs
  <2>8. QED
    BY <1>1, <2>4, <2>6, <2>7
<1>4. ASSUME k \in Stored(l)
      PROVE  DictOf(l)[k] # NULL
  <2>1. PICK b \in DOMAIN l : \E j \in DOMAIN l[b] : l[b][j].key = k
    BY <1>4 DEF Stored
  <2>2. PICK j \in DOMAIN l[b] : l[b][j].key = k
    BY <2>1
  <2>3. l[b][j] \in Entry
    BY DEF BucketArray, Buckets
  <2>4. l[b][j].value # NULL
    BY <2>3, KeyAssumption DEF Entry
  <2>5. QED
    BY <1>3, <2>2, <2>4
<1> HIDE DEF bs, bucket
<1>5. QED
  BY <1>1, <1>2, <1>3, <1>4

\* A key keeps its value when its entry is still there, wherever it is now.
LEMMA SameValue ==
  ASSUME NEW cap \in Nat, NEW l, NEW r, BucketArray(l, r, cap),
         NEW cap2 \in Nat, NEW l2, NEW r2, BucketArray(l2, r2, cap2),
         NEW k \in Key, k \in Stored(l2) <=> k \in Stored(l),
         \A b \in DOMAIN l2 : \A j \in DOMAIN l2[b] : l2[b][j].key = k =>
           \E c \in DOMAIN l : \E i \in DOMAIN l[c] : l2[b][j] = l[c][i]
  PROVE  DictOf(l2)[k] = DictOf(l)[k]
<1>1. CASE k \notin Stored(l2)
  BY <1>1, ValueInIs
<1>2. CASE k \in Stored(l2)
  <2>1. PICK b \in DOMAIN l2 : \E j \in DOMAIN l2[b] : l2[b][j].key = k
    BY <1>2 DEF Stored
  <2>2. PICK j \in DOMAIN l2[b] : l2[b][j].key = k
    BY <2>1
  <2>3. PICK c \in DOMAIN l : \E i \in DOMAIN l[c] : l2[b][j] = l[c][i]
    BY <2>2
  <2>4. PICK i \in DOMAIN l[c] : l2[b][j] = l[c][i]
    BY <2>3
  <2>5. DictOf(l2)[k] = l2[b][j].value
    BY <2>2, ValueInIs
  <2>6. DictOf(l)[k] = l[c][i].value
    BY <2>2, <2>4, ValueInIs
  <2>7. QED
    BY <2>4, <2>5, <2>6
<1>3. QED
  BY <1>1, <1>2

\* Two dictionaries that differ at most at k.
LEMMA DictChange ==
  ASSUME NEW l, NEW l2, NEW k \in Key, NEW v, DictOf(l2)[k] = v,
         \A m \in Key : m # k => DictOf(l2)[m] = DictOf(l)[m]
  PROVE  DictOf(l2) = [DictOf(l) EXCEPT ![k] = v]
<1>1. /\ DictOf(l2) = [m \in Key |-> DictOf(l2)[m]]
      /\ DictOf(l) = [m \in Key |-> DictOf(l)[m]]
  BY DEF DictOf
<1>2. QED
  BY <1>1

\* What the writing calls do to the dictionary.
LEMMA DictAppended ==
  ASSUME NEW cap \in Nat, NEW l, NEW r, BucketArray(l, r, cap),
         NEW b \in 0 .. cap - 1, NEW e \in Entry, e.key \notin Stored(l),
         e.hashed_key = Hash[e.key], e.hashed_key % cap = b
  PROVE  DictOf(Appended(l, b, e)) = [DictOf(l) EXCEPT ![e.key] = e.value]
<1> DEFINE l2 == Appended(l, b, e)
           r2 == WithRoom(l, r, b)
<1>1. /\ BucketArray(l2, r2, cap) /\ Stored(l2) = Stored(l) \union {e.key}
      /\ \A c \in DOMAIN l2 : \A j \in DOMAIN l2[c] :
           l2[c][j] = e \/ (c \in DOMAIN l /\ j \in DOMAIN l[c] /\ l2[c][j] = l[c][j])
  BY AppendedIsBucketArray
<1> HIDE DEF l2, r2
<1>2. e.key \in Key
  BY DEF Entry
<1>3. DictOf(l2)[e.key] = e.value
  <2>1. PICK c \in DOMAIN l2 : \E j \in DOMAIN l2[c] : l2[c][j].key = e.key
    BY <1>1, <1>2 DEF Stored
  <2>2. PICK j \in DOMAIN l2[c] : l2[c][j].key = e.key
    BY <2>1
  <2>3. l2[c][j] = e
    BY <1>1, <1>2, <2>2 DEF Stored
  <2>4. DictOf(l2)[e.key] = l2[c][j].value
    BY <1>1, <1>2, <2>2, ValueInIs
  <2>5. QED
    BY <2>3, <2>4
<1>4. ASSUME NEW m \in Key, m # e.key
      PROVE  DictOf(l2)[m] = DictOf(l)[m]
  <2>1. m \in Stored(l2) <=> m \in Stored(l)
    BY <1>1, <1>4
  <2>2. \A c \in DOMAIN l2 : \A j \in DOMAIN l2[c] : l2[c][j].key = m =>
          \E d \in DOMAIN l : \E i \in DOMAIN l[d] : l2[c][j] = l[d][i]
    BY <1>1, <1>4
  <2>3. QED
    BY <1>1, <2>1, <2>2, SameValue
<1>5. DictOf(l2) = [DictOf(l) EXCEPT ![e.key] = e.value]
  BY <1>2, <1>3, <1>4, DictChange
<1>6. QED
  BY <1>5 DEF l2

LEMMA DictReplaced ==
  ASSUME NEW cap \in Nat, NEW l, NEW r, BucketArray(l, r, cap),
         NEW b \in DOMAIN l, NEW j \in DOMAIN l[b], NEW e \in Entry, e.key = l[b][j].key,
         e.hashed_key = Hash[e.key]
  PROVE  DictOf(Replaced(l, b, j, e)) = [DictOf(l) EXCEPT ![e.key] = e.value]
<1> DEFINE l2 == Replaced(l, b, j, e)
<1>1. /\ BucketArray(l2, r, cap) /\ Stored(l2) = Stored(l)
      /\ DOMAIN l2 = DOMAIN l /\ \A c \in DOMAIN l : DOMAIN l2[c] = DOMAIN l[c]
      /\ l2[b][j] = e
      /\ \A c \in DOMAIN l : \A i \in DOMAIN l[c] : (c # b \/ i # j) => l2[c][i] = l[c][i]
  BY ReplacedIsBucketArray
<1> HIDE DEF l2
<1>2. e.key \in Key
  BY DEF Entry
<1>3. DictOf(l2)[e.key] = e.value
  <2>1. b \in DOMAIN l2 /\ j \in DOMAIN l2[b] /\ l2[b][j].key = e.key
    BY <1>1
  <2>2. DictOf(l2)[e.key] = l2[b][j].value
    BY <1>1, <1>2, <2>1, ValueInIs
  <2>3. QED
    BY <1>1, <2>2
<1>4. ASSUME NEW m \in Key, m # e.key
      PROVE  DictOf(l2)[m] = DictOf(l)[m]
  <2>1. m \in Stored(l2) <=> m \in Stored(l)
    BY <1>1
  <2>2. \A c \in DOMAIN l2 : \A i \in DOMAIN l2[c] : l2[c][i].key = m =>
          \E d \in DOMAIN l : \E x \in DOMAIN l[d] : l2[c][i] = l[d][x]
    BY <1>1, <1>4
  <2>3. QED
    BY <1>1, <2>1, <2>2, SameValue
<1>5. DictOf(l2) = [DictOf(l) EXCEPT ![e.key] = e.value]
  BY <1>2, <1>3, <1>4, DictChange
<1>6. QED
  BY <1>5 DEF l2

LEMMA DictRemoved ==
  ASSUME NEW cap \in Nat, NEW l, NEW r, BucketArray(l, r, cap),
         NEW b \in DOMAIN l, NEW j \in DOMAIN l[b]
  PROVE  DictOf(Removed(l, b, j)) = [DictOf(l) EXCEPT ![l[b][j].key] = NULL]
<1> DEFINE l2 == Removed(l, b, j)
           k == l[b][j].key
<1>1. /\ BucketArray(l2, r, cap) /\ Stored(l2) = Stored(l) \ {k}
      /\ \A c \in DOMAIN l2 : \A i \in DOMAIN l2[c] :
           \E x \in DOMAIN l[c] : c \in DOMAIN l /\ l2[c][i] = l[c][x]
  BY RemovedIsBucketArray
<1>2. k \in Key
  <2>1. l[b][j] \in Entry
    BY DEF BucketArray, Buckets
  <2>2. QED
    BY <2>1 DEF Entry
<1> HIDE DEF l2, k
<1>3. DictOf(l2)[k] = NULL
  BY <1>1, <1>2, ValueInIs
<1>4. ASSUME NEW m \in Key, m # k
      PROVE  DictOf(l2)[m] = DictOf(l)[m]
  <2>1. m \in Stored(l2) <=> m \in Stored(l)
    BY <1>1, <1>4
  <2>2. \A c \in DOMAIN l2 : \A i \in DOMAIN l2[c] : l2[c][i].key = m =>
          \E d \in DOMAIN l : \E x \in DOMAIN l[d] : l2[c][i] = l[d][x]
    BY <1>1
  <2>3. QED
    BY <1>1, <2>1, <2>2, SameValue
<1>5. DictOf(l2) = [DictOf(l) EXCEPT ![k] = NULL]
  BY <1>2, <1>3, <1>4, DictChange
<1>6. QED
  BY <1>5 DEF l2, k

LEMMA DictEmpty ==
  ASSUME NEW cap \in Nat, NEW l, NEW r, BucketArray(l, r, cap), Stored(l) = {}
  PROVE  DictOf(l) = [k \in Key |-> NULL]
<1>1. \A k \in Key : DictOf(l)[k] = NULL
  BY ValueInIs
<1>2. DictOf(l) = [k \in Key |-> DictOf(l)[k]]
  BY DEF DictOf
<1>3. QED
  BY <1>1, <1>2

\* The keys of the abstract dictionary are the keys stored in the buckets.
LEMMA PresentIsStored ==
  ASSUME Inv
  PROVE  Store!Present = Stored(list) /\ \A k \in Key : k \notin Stored(list) => Dict[k] = NULL
<1>1. \A k \in Key : (Dict[k] # NULL <=> k \in Stored(list)) /\ (k \notin Stored(list) => Dict[k] = NULL)
  BY IdleFacts, ValueInIs, DictIs DEF Inv
<1>2. QED
  BY <1>1 DEF Store!Present, Stored

-----------------------------------------------------------------------------
(* Every step of the map is a step of the dictionary or none. *)

LEMMA InitRefines == Init => Store!Init
<1> SUFFICES ASSUME Init
             PROVE  Store!Init
  OBVIOUS
<1>1. BucketArray(list, room, 0) /\ Stored(list) = {}
  BY NewMapIsBucketArray DEF Init
<1>2. Dict = [k \in Key |-> NULL]
  BY <1>1, DictEmpty, DictIs
<1>3. ret = Store!Reply("OK", NULL, NULL)
  BY DEF Init, Reply, Store!Reply
<1>4. QED
  BY <1>2, <1>3 DEF Init, Store!Init

LEMMA CreateRefines ==
  ASSUME Inv, Inv', (\E n \in InitialCapacity : InitMap(n)) \/ InitFails
  PROVE  Store!Create
<1>1. CASE \E n \in InitialCapacity : InitMap(n)
  <2>1. /\ ~initialized /\ initialized' = TRUE /\ ret' = Reply("OK", NULL, NULL)
        /\ seen' = seen /\ size' = 0 /\ stage = "idle"
    BY <1>1 DEF InitMap, Replies
  <2>2. capacity = 0 /\ list \in [0 .. capacity - 1 -> Seq(Entry)]
    BY <2>1 DEF Inv, TypeOK, Buckets
  <2>3. Stored(list) = {}
    BY <2>2 DEF Stored
  <2>4. Stored(list') = {} /\ \E c \in Nat : BucketArray(list', room', c)
    <3>1. PICK n \in InitialCapacity : InitMap(n)
      BY <1>1
    <3>2. (IF IsPowerOfTwo(n) THEN n ELSE RoundUp(n)) \in Nat
      BY RoundUpType, CapacityAssumption
    <3>3. QED
      BY <3>1, <3>2, NewMapIsBucketArray DEF InitMap
  <2>5. Dict' = Dict
    BY <2>2, <2>3, <2>4, DictEmpty, DictIs, IdleFacts DEF Inv
  <2>6. ret' = Store!Reply("OK", NULL, NULL)
    BY <2>1 DEF Reply, Store!Reply
  <2>7. QED
    BY <2>1, <2>5, <2>6 DEF Store!Create, Store!Replies
<1>2. CASE InitFails
  <2>1. /\ ~initialized /\ initialized' = FALSE /\ seen' = seen /\ list' = list
        /\ ret' = Store!Reply("BAD_ALLOC", NULL, NULL)
    BY <1>2 DEF InitFails, Replies, Reply, Store!Reply, mapVars, Inv, TypeOK
  <2>2. Dict' = Dict
    BY <2>1, DictIs
  <2>3. QED
    BY <2>1, <2>2 DEF Store!Create, Store!Replies
<1>3. QED
  BY <1>1, <1>2

LEMMA DestroyRefines == ASSUME Inv, TraversalInv, FiniMap PROVE Store!Destroy
<1>1. /\ initialized /\ initialized' = FALSE /\ stage = "idle" /\ seen' = {}
      /\ list' = NoEntries(0) /\ ret' = Store!Reply("OK", NULL, NULL)
  BY DEF FiniMap, Replies, Reply, Store!Reply, TraversalEnds
<1>2. Dict' = [k \in Key |-> NULL]
  BY <1>1, NewMapIsBucketArray, DictEmpty, DictIs
<1>3. ret.code # "pending"
  BY <1>1 DEF TraversalInv
<1>4. QED
  BY <1>1, <1>2, <1>3 DEF Store!Destroy, Store!Ready, Store!Replies

LEMMA PutRefines ==
  ASSUME Inv, TraversalInv, NEW k \in Key, NEW v \in Value, SetExisting(k, v) \/ SetNew(k, v)
  PROVE  Store!Put(k, v)
<1>1. /\ stage = "idle" /\ initialized /\ initialized' = initialized /\ seen' = {}
      /\ ret' = Store!Reply("pending", NULL, NULL)
  BY DEF SetExisting, SetNew, Replies, Reply, Store!Reply, TraversalEnds
<1>2. Usable /\ BucketArray(list, room, capacity) /\ capacity \in Nat
  BY <1>1, IdleFacts DEF Usable
<1> DEFINE e == [hashed_key |-> Hash[k], key |-> k, value |-> v]
           b == MapIndex(k)
           j == FoundAt(k)
<1>3. e \in Entry /\ e.key = k /\ e.hashed_key = Hash[k] /\ e.value = v
  BY HashAssumption DEF Entry
<1>4. ASSUME SetExisting(k, v)
      PROVE  DictOf(list') = [DictOf(list) EXCEPT ![k] = v]
  <2>1. list' = Replaced(list, b, j, e) /\ Found(k)
    BY <1>4 DEF SetExisting, Replaced
  <2>2. b \in DOMAIN list /\ j \in DOMAIN list[b] /\ list[b][j].key = k
    BY <1>2, <2>1, FindFinds
  <2> HIDE DEF e, b, j
  <2>3. e.key = list[b][j].key /\ e.hashed_key = Hash[e.key]
    BY <1>3, <2>2
  <2>4. DictOf(list') = [DictOf(list) EXCEPT ![e.key] = e.value]
    BY <1>2, <1>3, <2>1, <2>2, <2>3, DictReplaced
  <2>5. QED
    BY <1>3, <2>4
<1>5. ASSUME SetNew(k, v)
      PROVE  DictOf(list') = [DictOf(list) EXCEPT ![k] = v]
  <2>1. list' = Appended(list, b, e) /\ ~Found(k)
    BY <1>5 DEF SetNew, Appended
  <2>2. b \in 0 .. capacity - 1 /\ k \notin Stored(list) /\ b = Hash[k] % capacity
    BY <1>2, <2>1, FindFinds
  <2> HIDE DEF e, b, j
  <2>3. e.key \notin Stored(list) /\ e.hashed_key = Hash[e.key] /\ e.hashed_key % capacity = b
    BY <1>3, <2>2
  <2>4. DictOf(list') = [DictOf(list) EXCEPT ![e.key] = e.value]
    BY <1>2, <1>3, <2>1, <2>2, <2>3, DictAppended
  <2>5. QED
    BY <1>3, <2>4
<1>6. Dict' = [Dict EXCEPT ![k] = v]
  BY <1>4, <1>5, DictIs
<1>7. QED
  BY <1>1, <1>6 DEF Store!Put, Store!Ready, Store!Replies, TraversalInv

LEMMA RemoveRefines ==
  ASSUME Inv, TraversalInv, NEW k \in Key, Unset(k)
  PROVE  Store!Remove(k)
<1>1. /\ stage = "idle" /\ initialized /\ initialized' = initialized /\ seen' = {}
      /\ ret' = Store!Reply("OK", NULL, NULL)
  BY DEF Unset, Replies, Reply, Store!Reply, TraversalEnds
<1>2. Usable /\ BucketArray(list, room, capacity) /\ capacity \in Nat
  BY <1>1, IdleFacts DEF Usable
<1>3. ASSUME size # 0 /\ Found(k)
      PROVE  DictOf(list') = [DictOf(list) EXCEPT ![k] = NULL]
  <2> DEFINE b == MapIndex(k)
             j == FoundAt(k)
  <2>1. list' = Removed(list, b, j)
    BY <1>3 DEF Unset, Removed
  <2>2. b \in DOMAIN list /\ j \in DOMAIN list[b] /\ list[b][j].key = k
    BY <1>2, <1>3, FindFinds
  <2> HIDE DEF b, j
  <2>3. DictOf(list') = [DictOf(list) EXCEPT ![list[b][j].key] = NULL]
    BY <1>2, <2>1, <2>2, DictRemoved
  <2>4. QED
    BY <2>2, <2>3
<1>4. ASSUME ~(size # 0 /\ Found(k))
      PROVE  DictOf(list') = [DictOf(list) EXCEPT ![k] = NULL]
  <2>1. list' = list
    BY <1>4 DEF Unset
  <2>2. k \notin Stored(list)
    BY <1>2, <1>4, IdleFacts, FindFinds, FS_EmptySet
  <2>3. DictOf(list)[k] = NULL
    BY <1>2, <2>2, ValueInIs
  <2>4. QED
    BY <2>1, <2>3, DictChange
<1>5. Dict' = [Dict EXCEPT ![k] = NULL]
  BY <1>3, <1>4, DictIs
<1>6. QED
  BY <1>1, <1>5 DEF Store!Remove, Store!Ready, Store!Replies, TraversalInv

\* A key that a lookup does not find, the map being empty or not, is not stored.
LEMMA AbsentKey ==
  ASSUME Inv, initialized, NEW k \in Key
  PROVE  (size # 0 /\ Found(k)) <=> k \in Stored(list)
<1>1. Usable /\ Cardinality(Stored(list)) = size /\ IsFiniteSet(Stored(list))
  BY IdleFacts
<1>2. size = 0 => Stored(list) = {}
  BY <1>1, FS_EmptySet
<1>3. Stored(list) = {} => size = 0
  BY <1>1, FS_EmptySet
<1>4. QED
  BY <1>1, <1>2, <1>3, FindFinds

LEMMA LookupRefines ==
  ASSUME Inv, TraversalInv, NEW k \in Key, Get(k)
  PROVE  Store!Lookup(k)
<1>1. stage = "idle" /\ initialized /\ initialized' = initialized /\ seen' = seen /\ list' = list
  BY DEF Get, mapVars
<1>2. Usable /\ BucketArray(list, room, capacity) /\ capacity \in Nat
  BY <1>1, IdleFacts DEF Usable
<1>3. CASE k \in Stored(list)
  <2>1. /\ ret' = Reply("OK", NULL, list[MapIndex(k)][FoundAt(k)].value) /\ Found(k)
    BY <1>1, <1>3, AbsentKey DEF Get
  <2>2. Dict[k] = list[MapIndex(k)][FoundAt(k)].value /\ Dict[k] # NULL
    BY <1>2, <1>3, <2>1, FindFinds, ValueInIs, DictIs
  <2>3. ret' = Store!Reply("OK", NULL, Dict[k])
    BY <2>1, <2>2 DEF Reply, Store!Reply
  <2>4. QED
    BY <1>1, <2>2, <2>3, DictIs DEF Store!Lookup, Store!Ready, TraversalInv
<1>4. CASE k \notin Stored(list)
  <2>1. ret' = Store!Reply("NOT_FOUND", NULL, NULL)
    BY <1>1, <1>4, AbsentKey DEF Get, Replies, Reply, Store!Reply
  <2>2. Dict[k] = NULL
    BY <1>4, PresentIsStored
  <2>3. QED
    BY <1>1, <2>1, <2>2, DictIs DEF Store!Lookup, Store!Ready, Store!Replies, TraversalInv
<1>5. QED
  BY <1>3, <1>4

LEMMA FailureRefines ==
  ASSUME Inv, TraversalInv, NEW k \in Key, SetFails(k) \/ GetNextOfAbsent(k)
  PROVE  Store!PutFails(k) \/ Store!TraverseFromAbsentKey
<1>1. stage = "idle" /\ initialized /\ initialized' = initialized /\ seen' = seen /\ list' = list
  BY DEF SetFails, GetNextOfAbsent, mapVars
<1>2. Dict' = Dict /\ ret.code # "pending"
  BY <1>1, DictIs DEF TraversalInv
<1>3. CASE SetFails(k)
  <2>1. k \notin Stored(list)
    BY <1>1, <1>3, IdleFacts, FindFinds DEF SetFails
  <2>2. ret' = Store!Reply("BAD_ALLOC", NULL, NULL)
    BY <1>3 DEF SetFails, Replies, Reply, Store!Reply
  <2>3. Dict[k] = NULL
    BY <2>1, PresentIsStored
  <2>4. QED
    BY <1>1, <1>2, <2>2, <2>3 DEF Store!PutFails, Store!Ready, Store!Replies
<1>4. CASE GetNextOfAbsent(k)
  <2>1. k \notin Stored(list)
    BY <1>1, <1>4, AbsentKey DEF GetNextOfAbsent
  <2>2. ret' = Store!Reply("NOT_FOUND", NULL, NULL)
    BY <1>4 DEF GetNextOfAbsent, Replies, Reply, Store!Reply
  <2>3. Store!Present # Key
    BY <2>1, PresentIsStored
  <2>4. QED
    BY <1>1, <1>2, <2>2, <2>3 DEF Store!TraverseFromAbsentKey, Store!Ready, Store!Replies
<1>5. QED
  BY <1>3, <1>4

LEMMA TraverseRefines ==
  ASSUME Inv, TraversalInv, GetFirst \/ GetNext
  PROVE  Store!Traverse
<1>1. stage = "idle" /\ initialized /\ initialized' = initialized /\ list' = list
  BY DEF GetFirst, GetNext, mapVars
<1>2. Dict' = Dict /\ ret.code # "pending"
  BY <1>1, DictIs DEF TraversalInv
<1>3. Store!Present = Stored(list)
  BY PresentIsStored
<1>4. PICK sofar \in {seen, {}} :
        \/ /\ sofar = Stored(list) /\ ret' = Reply("NO_MORE_ENTRIES", NULL, NULL) /\ seen' = {}
        \/ \E p \in Positions(list) :
             /\ KeyAt(list, p) \in Stored(list) \ sofar
             /\ ret' = Reply("OK", KeyAt(list, p), list[p[1]][p[2]].value)
             /\ seen' = sofar \union {KeyAt(list, p)}
  BY TraversalStep
<1>5. CASE sofar = Stored(list) /\ ret' = Reply("NO_MORE_ENTRIES", NULL, NULL) /\ seen' = {}
  <2>1. ret' = Store!Reply("NO_MORE_ENTRIES", NULL, NULL)
    BY <1>5 DEF Reply, Store!Reply
  <2>2. QED
    BY <1>1, <1>2, <1>3, <1>5, <2>1 DEF Store!Traverse, Store!Ready, Store!Replies
<1>6. CASE \E p \in Positions(list) :
             /\ KeyAt(list, p) \in Stored(list) \ sofar
             /\ ret' = Reply("OK", KeyAt(list, p), list[p[1]][p[2]].value)
             /\ seen' = sofar \union {KeyAt(list, p)}
  <2>1. PICK p \in Positions(list) :
             /\ KeyAt(list, p) \in Stored(list) \ sofar
             /\ ret' = Reply("OK", KeyAt(list, p), list[p[1]][p[2]].value)
             /\ seen' = sofar \union {KeyAt(list, p)}
    BY <1>6
  <2>2. BucketArray(list, room, capacity) /\ capacity \in Nat
    BY IdleFacts DEF Inv
  <2>3. p[1] \in DOMAIN list /\ p[2] \in DOMAIN list[p[1]] /\ KeyAt(list, p) \in Key
    BY <2>2, PositionFacts
  <2>4. Dict[KeyAt(list, p)] = list[p[1]][p[2]].value
    <3>1. list[p[1]][p[2]].key = KeyAt(list, p)
      BY DEF KeyAt
    <3>2. QED
      BY <2>2, <2>3, <3>1, ValueInIs, DictIs
  <2>5. ret' = Store!Reply("OK", KeyAt(list, p), Dict[KeyAt(list, p)])
    BY <2>1, <2>4 DEF Reply, Store!Reply
  <2>6. \E k \in Store!Present \ sofar :
          ret' = Store!Reply("OK", k, Dict[k]) /\ seen' = sofar \union {k}
    BY <1>3, <2>1, <2>5
  <2>7. QED
    BY <1>1, <1>2, <2>6 DEF Store!Traverse, Store!Ready
<1>7. QED
  BY <1>4, <1>5, <1>6

\* Growing, and failing to grow, cannot be seen in the dictionary.
LEMMA GrowRefines ==
  ASSUME Inv, Inv', TraversalInv, Grow
  PROVE  Store!PutReturns \/ UNCHANGED Store!vars
<1>1. CASE GrowStarts \/ RehashEntry \/ RehashNextBucket
  <2>1. initialized' = initialized /\ list' = list /\ ret' = ret /\ seen' = seen
    BY <1>1 DEF GrowStarts, RehashEntry, RehashNextBucket, mapVars, callerVars
  <2>2. QED
    BY <2>1, DictIs DEF Store!vars
<1>2. CASE NoGrowth \/ GrowAllocFails \/ RehashFails \/ GrowEnds
  <2>1. /\ stage # "idle" /\ initialized' = initialized /\ seen' = seen
        /\ ret' = Store!Reply("OK", NULL, NULL)
    BY <1>2 DEF NoGrowth, GrowAllocFails, RehashFails, GrowEnds, AtEntry, SetReturns, Replies, Reply,
       Store!Reply, mapVars
  <2>2. ret.code = "pending"
    BY <2>1 DEF TraversalInv
  <2>3. Dict' = Dict
    <3>1. CASE NoGrowth \/ GrowAllocFails \/ RehashFails
      <4>1. list' = list
        BY <3>1 DEF NoGrowth, GrowAllocFails, RehashFails, mapVars
      <4>2. QED
        BY <4>1, DictIs
    <3>2. CASE GrowEnds
      <4>1. /\ stage = "rehash" /\ map_index = capacity /\ list' = new_list
        BY <3>2 DEF GrowEnds
      <4>2. /\ BucketArray(list, room, capacity) /\ BucketArray(new_list, new_room, 2 * capacity)
            /\ capacity \in Nat /\ 2 * capacity \in Nat /\ Stored(new_list) = Stored(list)
            /\ \A b \in DOMAIN new_list : \A j \in DOMAIN new_list[b] :
                 \E c \in DOMAIN list : \E i \in DOMAIN list[c] : new_list[b][j] = list[c][i]
        BY <4>1, RehashFacts, AllMoved
      <4>3. \A k \in Key : DictOf(new_list)[k] = DictOf(list)[k]
        BY <4>2, SameValue
      <4>4. DictOf(new_list) = DictOf(list)
        BY <4>3 DEF DictOf
      <4>5. QED
        BY <4>1, <4>4, DictIs
    <3>3. QED
      BY <1>2, <3>1, <3>2
  <2>4. QED
    BY <2>1, <2>2, <2>3 DEF Store!PutReturns, Store!Replies
<1>3. QED
  BY <1>1, <1>2 DEF Grow

LEMMA NextRefines ==
  Inv /\ Inv' /\ TraversalInv /\ [Next]_vars => [Store!Next]_(Store!vars)
<1> SUFFICES ASSUME Inv, Inv', TraversalInv, [Next]_vars
             PROVE  Store!Next \/ UNCHANGED Store!vars
  BY DEF Store!vars
<1>1. CASE UNCHANGED vars
  BY <1>1, DictIs DEF vars, mapVars, callerVars, Store!vars
<1>2. CASE (\E n \in InitialCapacity : InitMap(n)) \/ InitFails
  BY <1>2, CreateRefines DEF Store!Next
<1>3. CASE FiniMap
  BY <1>3, DestroyRefines DEF Store!Next
<1>4. CASE \E k \in Key : \E v \in Value : SetExisting(k, v) \/ SetNew(k, v)
  BY <1>4, PutRefines DEF Store!Next
<1>5. CASE \E k \in Key : SetFails(k) \/ GetNextOfAbsent(k)
  BY <1>5, FailureRefines DEF Store!Next
<1>6. CASE \E k \in Key : Unset(k)
  BY <1>6, RemoveRefines DEF Store!Next
<1>7. CASE \E k \in Key : Get(k)
  BY <1>7, LookupRefines DEF Store!Next
<1>8. CASE Grow
  BY <1>8, GrowRefines DEF Store!Next
<1>9. CASE GetFirst \/ GetNext
  BY <1>9, TraverseRefines DEF Store!Next
<1>10. QED
  BY <1>1, <1>2, <1>3, <1>4, <1>5, <1>6, <1>7, <1>8, <1>9 DEF Next

\* The hash map is the dictionary hash_map.h promises: each call does to it and
\* returns what it should, failures leave no trace, growth is invisible and a
\* traversal is given every key once.
THEOREM HashMapImplementsStore == Spec => ImplementsStore
<1>1. Init => Store!Init
  BY InitRefines
<1>2. Inv /\ Inv' /\ TraversalInv /\ [Next]_vars => [Store!Next]_(Store!vars)
  BY NextRefines
<1>3. QED
  BY <1>1, <1>2, AlwaysInv, TraversalInvHolds, PTL DEF Spec, ImplementsStore, Store!Spec

-----------------------------------------------------------------------------
(* next_power_of_two.  A recursion along the numbers has a solution.         *)
Steps(f, z, a, b, n) ==
  f \in [0 .. n -> Nat] /\ f = [k \in 0 .. n |-> IF k = 0 THEN z ELSE a * f[k - 1] + b[k]]
LEMMA StepsExist ==
  ASSUME NEW n \in Nat, NEW z \in Nat, NEW a \in Nat, NEW b, \A k \in 1 .. n : b[k] \in Nat
  PROVE  \E f : Steps(f, z, a, b, n)
<1> DEFINE B == {m \in Nat : m <= n /\ ~\E f : Steps(f, z, a, b, m)}
<1> SUFFICES ASSUME B # {} PROVE FALSE
  OBVIOUS
<1>1. PICK m \in B : \A j \in B : m <= j
  BY LeastOf
<1>2. m \in Nat /\ m <= n /\ ~\E f : Steps(f, z, a, b, m)
  OBVIOUS
<1>3. CASE m = 0
  <2> DEFINE f == [k \in 0 .. 0 |-> z]
  <2>1. f \in [0 .. 0 -> Nat] /\ f = [k \in 0 .. 0 |-> IF k = 0 THEN z ELSE a * f[k - 1] + b[k]]
    OBVIOUS
  <2>2. QED
    BY <1>2, <1>3, <2>1 DEF Steps
<1>4. CASE m # 0
  <2>1. m - 1 \in Nat /\ m - 1 <= n /\ m - 1 \notin B
    BY <1>1, <1>2, <1>4
  <2>2. PICK f : Steps(f, z, a, b, m - 1)
    BY <2>1
  <2>3. f \in [0 .. m - 1 -> Nat] /\ \A k \in 0 .. m - 1 : f[k] = IF k = 0 THEN z ELSE a * f[k - 1] + b[k]
    BY <2>2 DEF Steps
  <2> PICK x : x = a * f[m - 1] + b[m]
    OBVIOUS
  <2>4. x \in Nat
    <3>1. m \in 1 .. n /\ m - 1 \in 0 .. m - 1
      BY <1>2, <1>4
    <3>2. b[m] \in Nat /\ f[m - 1] \in Nat
      BY <2>3, <3>1
    <3> PICK y : y = f[m - 1]
      OBVIOUS
    <3>3. a * y \in Nat
      BY <3>2
    <3>4. QED
      BY <3>2, <3>3
  <2> DEFINE g == [k \in 0 .. m |-> IF k = m THEN x ELSE f[k]]
  <2>5. g \in [0 .. m -> Nat]
    BY <1>2, <2>3, <2>4
  <2>6. ASSUME NEW k \in 0 .. m PROVE g[k] = IF k = 0 THEN z ELSE a * g[k - 1] + b[k]
    <3>1. k # 0 => k - 1 \in 0 .. m /\ k - 1 # m
      BY <1>2
    <3>2. k # 0 => g[k - 1] = f[k - 1]
      BY <3>1
    <3>3. CASE k = m
      BY <1>4, <3>2, <3>3
    <3>4. CASE k # m
      <4>1. k \in 0 .. m - 1 /\ g[k] = f[k]
        BY <1>2, <3>4
      <4>2. f[k] = IF k = 0 THEN z ELSE a * f[k - 1] + b[k]
        BY <2>3, <4>1
      <4>3. QED
        BY <3>2, <4>1, <4>2
    <3>5. QED
      BY <3>3, <3>4
  <2>7. Steps(g, z, a, b, m)
    <3> HIDE DEF g
    <3>1. g = [k \in 0 .. m |-> g[k]]
      BY <2>5
    <3>2. QED
      BY <2>5, <2>6, <3>1 DEF Steps
  <2>8. QED
    BY <1>2, <2>7
<1>5. QED
  BY <1>3, <1>4

\* The powers of two
LEMMA WidthIs == Width \in Nat /\ Width >= 2 /\ LastShift \in Nat /\ 2 * LastShift = Width
BY WidthAssumption DEF LastShift

LEMMA Power2Is ==
  /\ Power2[0] = 1
  /\ \A k \in 1 .. Width : Power2[k] = 2 * Power2[k - 1]
<1> PICK n : n = Width
  OBVIOUS
<1> DEFINE b == [k \in 1 .. n |-> 0]
<1>1. n \in Nat
  BY WidthIs
<1>2. PICK f : Steps(f, 1, 2, b, n)
  <2>1. \A k \in 1 .. n : b[k] \in Nat
    OBVIOUS
  <2> HIDE DEF b
  <2>2. QED
    BY <1>1, <2>1, StepsExist
<1>3. f \in [0 .. n -> Nat] /\ \A k \in 0 .. n : f[k] = IF k = 0 THEN 1 ELSE 2 * f[k - 1] + b[k]
  BY <1>2 DEF Steps
<1>4. ASSUME NEW k \in 0 .. n PROVE f[k] = IF k = 0 THEN 1 ELSE 2 * f[k - 1]
  <2>1. k # 0 => k - 1 \in 0 .. n /\ b[k] = 0
    BY <1>1
  <2>2. QED
    BY <1>3, <2>1
<1>5. f = [k \in 0 .. Width |-> IF k = 0 THEN 1 ELSE 2 * f[k - 1]]
  <2>1. f = [k \in 0 .. n |-> f[k]]
    BY <1>3
  <2>2. QED
    BY <1>4, <2>1
<1>6. Power2 = [k \in 0 .. Width |-> IF k = 0 THEN 1 ELSE 2 * Power2[k - 1]]
  BY <1>5 DEF Power2
<1>7. \A k \in 0 .. n : Power2[k] = IF k = 0 THEN 1 ELSE 2 * Power2[k - 1]
  BY <1>6
<1>8. 0 \in 0 .. n /\ \A k \in 1 .. n : k \in 0 .. n /\ k # 0
  BY <1>1
<1>9. QED
  BY <1>7, <1>8

LEMMA Power2Type == \A k \in 0 .. Width : Power2[k] \in Nat /\ Power2[k] >= k + 1
<1> PICK n : n = Width
  OBVIOUS
<1> DEFINE B == {k \in Nat : k <= n /\ ~(Power2[k] \in Nat /\ Power2[k] >= k + 1)}
<1>1. n \in Nat
  BY WidthIs
<1>2. ASSUME B # {} PROVE FALSE
  <2>1. PICK k \in B : \A j \in B : k <= j
    BY <1>2, LeastOf
  <2>2. k \in Nat /\ k <= n /\ ~(Power2[k] \in Nat /\ Power2[k] >= k + 1)
    OBVIOUS
  <2>3. k # 0
    BY <2>2, Power2Is
  <2>4. k - 1 \in Nat /\ k - 1 <= n /\ k - 1 \notin B /\ k \in 1 .. n
    BY <1>1, <2>1, <2>2, <2>3
  <2> PICK p : p = Power2[k - 1]
    OBVIOUS
  <2>5. p \in Nat /\ p >= k - 1 + 1 /\ Power2[k] = 2 * p
    BY <2>4, Power2Is
  <2>6. QED
    BY <2>2, <2>4, <2>5
<1>3. QED
  BY <1>1, <1>2

LEMMA Power2Grows ==
  ASSUME NEW j \in 0 .. Width, NEW k \in 0 .. Width, j <= k
  PROVE  Power2[j] <= Power2[k]
<1> PICK n : n = Width
  OBVIOUS
<1> DEFINE B == {m \in Nat : j <= m /\ m <= n /\ ~(Power2[j] <= Power2[m])}
<1>1. n \in Nat /\ j \in Nat
  BY WidthIs
<1>2. ASSUME B # {} PROVE FALSE
  <2>1. PICK m \in B : \A l \in B : m <= l
    BY <1>2, LeastOf
  <2>2. m \in Nat /\ j <= m /\ m <= n /\ ~(Power2[j] <= Power2[m])
    OBVIOUS
  <2>3. Power2[j] \in Nat
    BY Power2Type
  <2>4. m # j /\ m # 0
    BY <1>1, <2>2, <2>3
  <2>5. m - 1 \in Nat /\ j <= m - 1 /\ m - 1 <= n /\ m - 1 \notin B /\ m \in 1 .. n /\ m - 1 \in 0 .. n
    BY <1>1, <2>1, <2>2, <2>4
  <2> PICK p : p = Power2[m - 1]
    OBVIOUS
  <2>6. Power2[j] <= p /\ p \in Nat /\ Power2[m] = 2 * p
    BY <2>5, Power2Is, Power2Type
  <2>7. QED
    BY <2>2, <2>3, <2>6
<1>3. QED
  BY <1>1, <1>2

\* The highest bit of a number
Highest(n, t) == t \in Bit /\ Power2[t] <= n /\ n < Power2[t + 1]
LEMMA HighestExists ==
  ASSUME NEW n \in Word, n # 0
  PROVE  \E t : Highest(n, t)
<1> DEFINE B == {k \in Nat : k <= Width /\ n < Power2[k]}
<1>1. Width \in Nat /\ Power2[Width] \in Nat /\ n \in Nat /\ n < Power2[Width]
  <2>1. Width \in Nat /\ Width \in 0 .. Width
    BY WidthIs
  <2>2. QED
    BY <2>1, Power2Type DEF Word
<1>2. Width \in B
  BY <1>1
<1>3. PICK k \in B : \A j \in B : k <= j
  BY <1>2, LeastOf
<1>4. k \in Nat /\ k <= Width /\ n < Power2[k]
  OBVIOUS
<1>5. k # 0
  BY <1>1, <1>4, Power2Is
<1> PICK t : t = k - 1
  OBVIOUS
<1>6. t \in Nat /\ t <= Width /\ t < k /\ t + 1 = k /\ t \in 0 .. Width - 1 /\ t \in 0 .. Width
  BY <1>1, <1>4, <1>5
<1>7. ~(n < Power2[t]) /\ Power2[t] \in Nat
  BY <1>3, <1>6, Power2Type
<1>8. QED
  BY <1>1, <1>4, <1>6, <1>7 DEF Highest, Bit

\* What the bits of a number are, from its highest bit on
LEMMA BitsAre ==
  ASSUME NEW n \in Nat
  PROVE  Bits(n) \in [Bit -> {0, 1}]
<1> SUFFICES ASSUME NEW k \in Bit PROVE (n \div Power2[k]) % 2 \in {0, 1}
  BY DEF Bits
<1>1. Power2[k] \in Nat /\ Power2[k] >= 1
  BY WidthIs, Power2Type DEF Bit
<1> PICK p : p = Power2[k]
  OBVIOUS
<1>2. n \div p \in Nat
  BY <1>1
<1> PICK q : q = n \div p
  OBVIOUS
<1>3. q \in Nat
  BY <1>2
<1>4. q % 2 \in {0, 1}
  BY ONLY <1>3
<1>5. QED
  BY <1>4

LEMMA Quotients ==
  ASSUME NEW n \in Nat, NEW p \in Nat, p >= 1
  PROVE  (n < p => n \div p = 0) /\ (p <= n /\ n < 2 * p => n \div p = 1)
OBVIOUS

LEMMA BitsFrom ==
  ASSUME NEW n \in Nat, NEW t, Highest(n, t)
  PROVE  Bits(n)[t] = 1 /\ \A k \in Bit : k > t => Bits(n)[k] = 0
<1>1. Width \in Nat /\ t \in 0 .. Width - 1 /\ t \in 0 .. Width /\ t + 1 \in 1 .. Width /\ t + 1 \in 0 .. Width /\ t + 1 - 1 = t
  BY WidthIs DEF Highest, Bit
<1>2. Bits(n)[t] = 1
  <2> PICK p : p = Power2[t]
    OBVIOUS
  <2>1. p \in Nat /\ p >= 1 /\ p <= n /\ n < 2 * p
    <3>1. Power2[t + 1] = 2 * p
      <4> PICK u : u = t + 1
        OBVIOUS
      <4>1. u \in 1 .. Width /\ u - 1 = t
        BY <1>1
      <4>2. Power2[u] = 2 * Power2[u - 1]
        BY <4>1, Power2Is
      <4>3. QED
        BY <4>1, <4>2
    <3>2. QED
      BY <1>1, <3>1, Power2Type DEF Highest
  <2>2. n \div p = 1
    BY <2>1, Quotients
  <2>3. t \in Bit
    BY DEF Highest
  <2>4. QED
    BY <2>2, <2>3 DEF Bits
<1>3. ASSUME NEW k \in Bit, k > t PROVE Bits(n)[k] = 0
  <2>1. k \in 0 .. Width /\ t + 1 <= k
    BY <1>1, <1>3 DEF Bit
  <2> PICK p : p = Power2[k]
    OBVIOUS
  <2>2. Power2[t + 1] <= p /\ p \in Nat /\ p >= 1 /\ Power2[t + 1] \in Nat
    BY <1>1, <2>1, Power2Grows, Power2Type
  <2>3. n < p
    BY <2>2 DEF Highest
  <2>4. n \div p = 0
    BY <2>2, <2>3, Quotients
  <2>5. QED
    BY <2>4 DEF Bits
<1>4. QED
  BY <1>2, <1>3

LEMMA BitsOfZero == \A k \in Bit : Bits(0)[k] = 0
<1> SUFFICES ASSUME NEW k \in Bit PROVE Bits(0)[k] = 0
  OBVIOUS
<1> PICK p : p = Power2[k]
  OBVIOUS
<1>1. p \in Nat /\ p >= 1
  BY WidthIs, Power2Type DEF Bit
<1>2. 0 \div p = 0
  BY <1>1, Quotients
<1>3. QED
  BY <1>2 DEF Bits

\* The number that the bits of v are
LEMMA NumberIs ==
  ASSUME bits \in [Bit -> {0, 1}]
  PROVE  /\ Number[0] = 0
         /\ \A k \in 1 .. Width : Number[k] = Number[k - 1] + bits[k - 1] * Power2[k - 1]
<1> PICK n : n = Width
  OBVIOUS
<1> DEFINE b == [k \in 1 .. n |-> bits[k - 1] * Power2[k - 1]]
<1>1. n \in Nat
  BY WidthIs
<1>2. PICK f : Steps(f, 0, 1, b, n)
  <2>1. ASSUME NEW k \in 1 .. n PROVE b[k] \in Nat
    <3>1. k - 1 \in Bit /\ k - 1 \in 0 .. Width
      BY <1>1 DEF Bit
    <3> PICK x : x = bits[k - 1]
      OBVIOUS
    <3> PICK p : p = Power2[k - 1]
      OBVIOUS
    <3>2. x \in {0, 1} /\ p \in Nat
      BY <3>1, Power2Type
    <3>3. x * p \in Nat
      BY ONLY <3>2
    <3>4. QED
      BY <3>3
  <2> HIDE DEF b
  <2>2. QED
    BY <1>1, <2>1, StepsExist
<1>3. f \in [0 .. n -> Nat] /\ \A k \in 0 .. n : f[k] = IF k = 0 THEN 0 ELSE 1 * f[k - 1] + b[k]
  BY <1>2 DEF Steps
<1>4. ASSUME NEW k \in 0 .. n PROVE f[k] = IF k = 0 THEN 0 ELSE f[k - 1] + bits[k - 1] * Power2[k - 1]
  <2>1. k # 0 => k - 1 \in 0 .. n /\ b[k] = bits[k - 1] * Power2[k - 1]
    BY <1>1
  <2> PICK y : y = f[k - 1]
    OBVIOUS
  <2>2. ASSUME k # 0 PROVE 1 * y = y
    <3>1. f \in [0 .. n -> Nat] /\ k - 1 \in 0 .. n
      BY <1>3, <2>1, <2>2
    <3>2. y \in Nat
      BY <3>1
    <3>3. QED
      BY ONLY <3>2
  <2>3. QED
    BY <1>3, <2>1, <2>2
<1>5. f = [k \in 0 .. Width |-> IF k = 0 THEN 0 ELSE f[k - 1] + bits[k - 1] * Power2[k - 1]]
  <2>1. f = [k \in 0 .. n |-> f[k]]
    BY <1>3
  <2>2. QED
    BY <1>4, <2>1
<1>6. Number = [k \in 0 .. Width |-> IF k = 0 THEN 0 ELSE Number[k - 1] + bits[k - 1] * Power2[k - 1]]
  BY <1>5 DEF Number
<1>7. \A k \in 0 .. n : Number[k] = IF k = 0 THEN 0 ELSE Number[k - 1] + bits[k - 1] * Power2[k - 1]
  BY <1>6
<1>8. 0 \in 0 .. n /\ \A k \in 1 .. n : k \in 0 .. n /\ k # 0
  BY <1>1
<1>9. QED
  BY <1>7, <1>8

\* When the lowest m bits are set and no other, it is one less than a power of two.
LEMMA NumberOfOnes ==
  ASSUME bits \in [Bit -> {0, 1}], NEW m \in 0 .. Width,
         \A k \in Bit : bits[k] = IF k < m THEN 1 ELSE 0
  PROVE  Number[Width] = Power2[m] - 1
<1> DEFINE P(k) == Number[k] = (IF k < m THEN Power2[k] ELSE Power2[m]) - 1
           B == {k \in Nat : k <= Width /\ ~P(k)}
<1>1. Width \in Nat /\ m \in Nat /\ m <= Width /\ Power2[m] \in Nat
  BY WidthIs, Power2Type
<1>2. ASSUME B # {} PROVE FALSE
  <2>1. PICK k \in B : \A j \in B : k <= j
    BY <1>2, LeastOf
  <2>2. k \in Nat /\ k <= Width /\ ~P(k)
    OBVIOUS
  <2>3. k # 0
    <3>1. P(0)
      <4>1. CASE 0 < m
        BY <4>1, Power2Is, NumberIs
      <4>2. CASE ~(0 < m)
        <5>1. m = 0
          BY <1>1, <4>2
        <5>2. QED
          BY <5>1, Power2Is, NumberIs
      <4>3. QED
        BY <4>1, <4>2
    <3>2. QED
      BY <2>2, <3>1
  <2> PICK j : j = k - 1
    OBVIOUS
  <2>4. j \in Nat /\ j <= Width /\ j \in Bit /\ j \in 0 .. Width /\ j < k /\ j + 1 = k /\ k \in 1 .. Width
    BY <1>1, <2>2, <2>3 DEF Bit
  <2>5. P(j)
    BY <2>1, <2>4
  <2> PICK p : p = Power2[j]
    OBVIOUS
  <2>6. Number[k] = Number[j] + bits[j] * p /\ Power2[k] = 2 * p /\ p \in Nat
    BY <2>4, NumberIs, Power2Is, Power2Type
  <2>7. CASE j < m
    <3>1. bits[j] = 1 /\ Number[j] = p - 1
      BY <2>4, <2>5, <2>7
    <3>2. Number[k] = 2 * p - 1
      BY <2>6, <3>1
    <3>3. Number[k] = Power2[k] - 1
      BY <2>6, <3>2
    <3>4. k < m \/ k = m
      BY <1>1, <2>4, <2>7
    <3>5. QED
      BY <2>2, <3>3, <3>4
  <2>8. CASE ~(j < m)
    <3>1. bits[j] = 0 /\ Number[j] = Power2[m] - 1 /\ ~(k < m)
      BY <1>1, <2>4, <2>5, <2>8
    <3>2. Number[k] = Power2[m] - 1
      BY <1>1, <2>6, <3>1
    <3>3. QED
      BY <2>2, <3>1, <3>2
  <2>9. QED
    BY <2>7, <2>8
<1>3. P(Width)
  BY <1>1, <1>2
<1>4. CASE Width < m
  BY <1>1, <1>4
<1>5. QED
  BY <1>3, <1>4

-----------------------------------------------------------------------------
(* The inductive invariant: below the highest bit of v - 1, as many bits are *)
(* set as the shifts so far add up to, and none above it.                    *)
Before == (asked - 1) % Power2[Width]
Smeared(t) ==
  \A k \in Bit : /\ k > t => bits[k] = 0
                 /\ (k <= t /\ k > t - Power2[shifts]) => bits[k] = 1
RoundInv ==
  /\ asked \in Word /\ bits \in [Bit -> {0, 1}] /\ shifts \in 0 .. Width
  /\ shf = IF shifts = 0 THEN 0 ELSE Power2[shifts - 1]
  /\ Before = 0 => \A k \in Bit : bits[k] = 0
  /\ \A t : Highest(Before, t) => Smeared(t)
  /\ RoundsUp

LEMMA BeforeIs ==
  ASSUME asked \in Word
  PROVE  /\ Power2[Width] \in Nat /\ Power2[Width] > 0 /\ asked \in Nat /\ asked < Power2[Width]
         /\ Before \in Word /\ Before \in Nat
         /\ asked # 0 => Before = asked - 1
         /\ asked = 0 => Before = Power2[Width] - 1
<1> PICK p : p = Power2[Width]
  OBVIOUS
<1>1. p \in Nat /\ p > 0
  BY WidthIs, Power2Type
<1>2. asked \in 0 .. p - 1
  BY DEF Word
<1>3. Before = (asked - 1) % p
  BY DEF Before
<1>4. asked # 0 => (asked - 1) % p = asked - 1
  BY ONLY <1>1, <1>2
<1>5. asked = 0 => (asked - 1) % p = p - 1
  BY ONLY <1>1, <1>2
<1>6. Before \in 0 .. p - 1
  BY ONLY <1>1, <1>2, <1>3, <1>4, <1>5
<1>7. QED
  BY <1>1, <1>2, <1>3, <1>4, <1>5, <1>6 DEF Word

LEMMA RoundStarts == RoundInit => RoundInv
<1> SUFFICES ASSUME RoundInit PROVE RoundInv
  OBVIOUS
<1>1. asked \in Word /\ bits = Bits(Before) /\ shf = 0 /\ shifts = 0 /\ rounded = 0
  BY DEF RoundInit, Before
<1> PICK n : n = Before
  OBVIOUS
<1>2. n \in Nat
  BY <1>1, BeforeIs
<1>3. bits \in [Bit -> {0, 1}]
  BY <1>1, <1>2, BitsAre
<1>4. n = 0 => \A k \in Bit : bits[k] = 0
  BY <1>1, BitsOfZero
<1>5. ASSUME NEW t, Highest(n, t) PROVE Smeared(t)
  <2>1. bits[t] = 1 /\ \A k \in Bit : k > t => bits[k] = 0
    BY <1>1, <1>2, <1>5, BitsFrom
  <2>2. Power2[shifts] = 1
    BY <1>1, Power2Is
  <2>3. \A k \in Bit : k <= t /\ k > t - 1 => k = t
    BY <1>5, WidthIs DEF Highest, Bit
  <2>4. QED
    BY <2>1, <2>2, <2>3 DEF Smeared
<1>6. 0 \in 0 .. Width
  BY WidthIs
<1>7. QED
  BY <1>1, <1>3, <1>4, <1>5, <1>6 DEF RoundInv, RoundsUp

LEMMA SmearKeeps ==
  ASSUME RoundInv, Smear
  PROVE  RoundInv'
<1> PICK s : s = Power2[shifts]
  OBVIOUS
<1>1. /\ rounded = 0 /\ shf < LastShift /\ shf' = s /\ shifts' = shifts + 1
      /\ asked' = asked /\ rounded' = rounded
      /\ bits' = [k \in Bit |-> IF bits[k] = 1 \/ (k + s \in Bit /\ bits[k + s] = 1) THEN 1 ELSE 0]
  BY DEF Smear
<1>2. /\ bits \in [Bit -> {0, 1}] /\ shifts \in 0 .. Width /\ asked \in Word
      /\ shf = IF shifts = 0 THEN 0 ELSE Power2[shifts - 1]
  BY DEF RoundInv
<1>3. Width \in Nat /\ Width >= 2 /\ LastShift \in Nat /\ 2 * LastShift = Width
  BY WidthIs
<1>4. shifts + 1 \in 1 .. Width
  <2>1. CASE shifts = 0
    BY <1>3, <2>1
  <2>2. CASE shifts # 0
    <3> PICK q : q = shifts - 1
      OBVIOUS
    <3>1. q \in 0 .. Width /\ shifts = q + 1
      BY <1>2, <1>3, <2>2
    <3>2. Power2[q] \in Nat /\ Power2[q] >= q + 1 /\ Power2[q] < LastShift
      BY <1>1, <1>2, <2>2, <3>1, Power2Type
    <3>3. QED
      BY ONLY <1>3, <3>1, <3>2
  <2>3. QED
    BY <2>1, <2>2
<1>5. s \in Nat /\ s >= 1 /\ Power2[shifts'] = 2 * s
  <2> PICK u : u = shifts + 1
    OBVIOUS
  <2>1. u \in 1 .. Width /\ u - 1 = shifts /\ shifts' = u
    BY <1>1, <1>2, <1>4
  <2>2. Power2[u] = 2 * Power2[u - 1]
    BY <2>1, Power2Is
  <2>3. s >= shifts + 1 /\ s \in Nat
    BY <1>2, Power2Type
  <2>4. QED
    BY <1>2, <2>1, <2>2, <2>3
<1>6. bits' \in [Bit -> {0, 1}]
  BY <1>1
<1>7. shifts' \in 0 .. Width /\ shifts' # 0 /\ shifts' - 1 = shifts
  BY <1>1, <1>2, <1>3, <1>4
<1>8. Before' = Before
  BY <1>1 DEF Before
<1>9. (Before = 0 => \A k \in Bit : bits[k] = 0)'
  <2>1. Before = 0 => \A k \in Bit : bits[k] = 0
    BY DEF RoundInv
  <2>2. QED
    BY <1>1, <1>8, <2>1
<1>10. ASSUME NEW t, Highest(Before, t) PROVE Smeared(t)'
  <2>1. \A k \in Bit : (k > t => bits[k] = 0) /\ (k <= t /\ k > t - s => bits[k] = 1)
    BY <1>10 DEF RoundInv, Smeared
  <2>2. t \in 0 .. Width - 1
    BY <1>10 DEF Highest, Bit
  <2>3. ASSUME NEW k \in Bit, k > t PROVE bits'[k] = 0
    <3>1. k + s \in Bit => k + s > t
      BY <1>3, <1>5, <2>2, <2>3 DEF Bit
    <3>2. QED
      BY <1>1, <2>1, <2>3, <3>1
  <2>4. ASSUME NEW k \in Bit, k <= t, k > t - 2 * s PROVE bits'[k] = 1
    <3>1. CASE k > t - s
      BY <1>1, <2>1, <2>4, <3>1
    <3>2. CASE ~(k > t - s)
      <4>1. k + s \in Bit /\ k + s <= t /\ k + s > t - s
        BY <1>3, <1>5, <2>2, <2>4, <3>2 DEF Bit
      <4>2. QED
        BY <1>1, <2>1, <4>1
    <3>3. QED
      BY <3>1, <3>2
  <2>5. QED
    BY <1>5, <2>3, <2>4 DEF Smeared
<1>11. (\A t : Highest(Before, t) => Smeared(t))'
  BY <1>8, <1>10
<1>12. QED
  BY <1>1, <1>2, <1>6, <1>7, <1>9, <1>11 DEF RoundInv, RoundsUp

\* What is returned: the next power of two, and 1 when it is not in the word
LEMMA ReturnedIs ==
  ASSUME RoundInv, Return
  PROVE  /\ Before = 0 => rounded' = 1
         /\ \A t : Highest(Before, t) => rounded' = IF t + 1 = Width THEN 1 ELSE Power2[t + 1]
<1> PICK n : n = Number[Width]
  OBVIOUS
<1> PICK p : p = Power2[Width]
  OBVIOUS
<1>1. shf >= LastShift /\ rounded' = IF (n + 1) % p > 1 THEN (n + 1) % p ELSE 1
  BY DEF Return, Incremented
<1>2. /\ bits \in [Bit -> {0, 1}] /\ shifts \in 0 .. Width
      /\ shf = IF shifts = 0 THEN 0 ELSE Power2[shifts - 1]
  BY DEF RoundInv
<1>3. Width \in Nat /\ Width >= 2 /\ LastShift \in Nat /\ 2 * LastShift = Width
  BY WidthIs
<1>4. p \in Nat /\ p >= 2
  <2>1. Width \in 0 .. Width
    BY <1>3
  <2>2. p \in Nat /\ p >= Width + 1
    BY <2>1, Power2Type
  <2>3. QED
    BY <1>3, <2>2
<1>5. ASSUME Before = 0 PROVE rounded' = 1
  <2>1. 0 \in 0 .. Width /\ \A k \in Bit : bits[k] = IF k < 0 THEN 1 ELSE 0
    BY <1>3, <1>5 DEF RoundInv, Bit
  <2>2. n = Power2[0] - 1
    BY <1>2, <2>1, NumberOfOnes
  <2>3. n = 0
    BY <2>2, Power2Is
  <2>4. (n + 1) % p = 1
    BY ONLY <1>4, <2>3
  <2>5. QED
    BY <1>1, <2>4
<1>6. ASSUME NEW t, Highest(Before, t) PROVE rounded' = IF t + 1 = Width THEN 1 ELSE Power2[t + 1]
  <2> PICK m : m = t + 1
    OBVIOUS
  <2>1. t \in 0 .. Width - 1 /\ m \in 0 .. Width /\ t < m /\ m >= 1
    BY <1>3, <1>6 DEF Highest, Bit
  <2>2. Power2[shifts] \in Nat /\ Power2[shifts] >= Width
    <3>1. shifts # 0
      BY <1>1, <1>2, <1>3
    <3>2. shifts \in 1 .. Width
      BY <1>2, <3>1
    <3>3. Power2[shifts] = 2 * shf /\ Power2[shifts] \in Nat
      BY <1>2, <3>1, <3>2, Power2Is, Power2Type
    <3>4. shf \in Nat
      <4>1. shifts - 1 \in 0 .. Width
        BY <1>3, <3>2
      <4>2. QED
        BY <1>2, <3>1, <4>1, Power2Type
    <3>5. QED
      BY <1>1, <1>3, <3>3, <3>4
  <2>3. \A k \in Bit : bits[k] = IF k < m THEN 1 ELSE 0
    <3> TAKE k \in Bit
    <3>1. k \in 0 .. Width - 1
      BY DEF Bit
    <3>2. (k > t => bits[k] = 0) /\ (k <= t /\ k > t - Power2[shifts] => bits[k] = 1)
      BY <1>6 DEF RoundInv, Smeared
    <3>3. (k < m => k <= t /\ k > t - Power2[shifts]) /\ (~(k < m) => k > t)
      BY <1>3, <2>1, <2>2, <3>1
    <3>4. QED
      BY <3>2, <3>3
  <2>4. n = Power2[m] - 1
    BY <1>2, <2>1, <2>3, NumberOfOnes
  <2> PICK q : q = Power2[m]
    OBVIOUS
  <2>5. q \in Nat /\ q >= 2
    <3>1. q \in Nat /\ q >= m + 1
      BY <2>1, Power2Type
    <3>2. QED
      BY <2>1, <3>1
  <2>6. n + 1 = q
    BY <2>4, <2>5
  <2>7. CASE m = Width
    <3>1. q % p = 0
      <4>1. q = p
        BY <2>7
      <4>2. QED
        BY ONLY <1>4, <4>1
    <3>2. QED
      BY <1>1, <2>6, <2>7, <3>1
  <2>8. CASE m # Width
    <3>1. q < p
      <4> PICK w : w = Width - 1
        OBVIOUS
      <4>1. m <= w /\ w \in 0 .. Width /\ Width \in 1 .. Width
        BY <1>3, <2>1, <2>8
      <4>2. p = 2 * Power2[w] /\ Power2[w] \in Nat /\ q <= Power2[w]
        BY <2>1, <4>1, Power2Is, Power2Grows, Power2Type
      <4>3. QED
        BY <2>5, <4>2
    <3>2. q % p = q
      BY ONLY <1>4, <2>5, <3>1
    <3>3. q > 1
      BY <2>5
    <3>4. QED
      BY <1>1, <2>6, <2>8, <3>2, <3>3
  <2>9. QED
    BY <2>7, <2>8
<1>7. QED
  BY <1>5, <1>6

LEMMA ReturnKeeps ==
  ASSUME RoundInv, Return
  PROVE  RoundInv'
<1>1. asked' = asked /\ bits' = bits /\ shf' = shf /\ shifts' = shifts
  BY DEF Return
<1> PICK x : x = rounded'
  OBVIOUS
<1> PICK n : n = Before
  OBVIOUS
<1> PICK w : w = Width - 1
  OBVIOUS
<1> PICK h : h = Power2[w]
  OBVIOUS
<1>2. asked \in Word
  BY DEF RoundInv
<1>3. Width \in Nat /\ w \in Nat /\ w + 1 = Width /\ w \in 0 .. Width /\ w \in Bit /\ Width \in 1 .. Width
  BY WidthIs DEF Bit
<1>4. Power2[Width] = 2 * h /\ h \in Nat /\ h >= 1
  BY <1>3, Power2Is, Power2Type
<1>5. /\ asked \in Nat /\ asked < 2 * h /\ n \in Word /\ n \in Nat
      /\ asked # 0 => n = asked - 1
      /\ asked = 0 => n = 2 * h - 1
  BY <1>2, <1>4, BeforeIs
<1>6. n = 0 => x = 1
  BY ReturnedIs
<1>7. \A t : Highest(n, t) => x = IF t + 1 = Width THEN 1 ELSE Power2[t + 1]
  BY ReturnedIs
<1>8. CASE asked \in 1 .. h
  <2>1. asked # 0 /\ n = asked - 1 /\ n < h
    BY <1>4, <1>5, <1>8
  <2>2. ASSUME n = 0 PROVE RoundsUp'
    <3>1. x = 1 /\ asked = 1
      BY <1>5, <1>6, <2>1, <2>2
    <3>2. 0 \in Bit /\ Power2[0] = 1
      BY <1>3, Power2Is DEF Bit
    <3>3. \A e \in Bit : Power2[e] \in Nat /\ 1 <= Power2[e]
      BY <1>3, Power2Type DEF Bit
    <3>4. x \in Powers /\ x >= asked /\ \A p \in Powers : p >= asked => x <= p
      BY <3>1, <3>2, <3>3 DEF Powers
    <3>5. QED
      BY <1>1, <1>4, <1>8, <3>4 DEF RoundsUp
  <2>3. ASSUME n # 0 PROVE RoundsUp'
    <3>1. PICK t : Highest(n, t)
      BY <1>5, <2>3, HighestExists
    <3> PICK m : m = t + 1
      OBVIOUS
    <3>2. t \in 0 .. w /\ Power2[t] <= n /\ n < Power2[m] /\ t \in 0 .. Width /\ m \in 0 .. Width
      BY <1>3, <3>1 DEF Highest, Bit
    <3>3. t # w
      BY <1>4, <1>5, <2>1, <3>2
    <3>4. m \in Bit /\ m # Width
      BY <1>3, <3>2, <3>3 DEF Bit
    <3>5. x = Power2[m]
      BY <1>7, <3>1, <3>4
    <3>6. x \in Nat /\ x >= asked
      BY <1>5, <2>1, <3>2, <3>5, Power2Type
    <3>7. ASSUME NEW e \in Bit, Power2[e] >= asked PROVE x <= Power2[e]
      <4>1. e \in 0 .. Width /\ Power2[e] \in Nat /\ Power2[t] \in Nat
        BY <1>3, <3>2, Power2Type DEF Bit
      <4>2. ~(Power2[e] <= Power2[t])
        BY <1>5, <2>1, <3>2, <3>7, <4>1
      <4>3. ~(e <= t)
        BY <3>2, <4>1, <4>2, Power2Grows
      <4>4. m <= e
        BY <3>2, <4>1, <4>3
      <4>5. QED
        BY <3>2, <3>5, <4>1, <4>4, Power2Grows
    <3>8. x \in Powers /\ x >= asked /\ \A p \in Powers : p >= asked => x <= p
      BY <3>4, <3>5, <3>6, <3>7 DEF Powers
    <3>9. QED
      BY <1>1, <1>4, <1>8, <3>8 DEF RoundsUp
  <2>4. RoundsUp'
    BY <2>2, <2>3
  <2>5. QED
    BY <1>1, <2>4 DEF RoundInv, Smeared, Before
<1>9. CASE asked \notin 1 .. h
  <2>1. h <= n /\ n < 2 * h
    BY <1>4, <1>5, <1>9
  <2>2. Highest(n, w)
    BY <1>3, <1>4, <2>1 DEF Highest
  <2>3. x = 1
    BY <1>3, <1>7, <2>2
  <2>4. RoundsUp'
    BY <1>1, <1>9, <2>3 DEF RoundsUp
  <2>5. QED
    BY <1>1, <2>4 DEF RoundInv, Smeared, Before
<1>10. QED
  BY <1>8, <1>9

(* For words of any even number of bits and every argument, next_power_of_two *)
(* returns the smallest power of two that is not less than the argument, and  *)
(* 1 where that is not in the word.                                           *)
THEOREM CapacityRoundsUp == RoundSpec => []RoundsUp
<1>1. RoundInv /\ [RoundNext]_roundVars => RoundInv'
  <2> SUFFICES ASSUME RoundInv, [RoundNext]_roundVars PROVE RoundInv'
    OBVIOUS
  <2>1. CASE Smear
    BY <2>1, SmearKeeps
  <2>2. CASE Return
    BY <2>2, ReturnKeeps
  <2>3. CASE UNCHANGED roundVars
    BY <2>3 DEF roundVars, RoundInv, Smeared, Before, RoundsUp
  <2>4. QED
    BY <2>1, <2>2, <2>3 DEF RoundNext
<1>2. RoundInv => RoundsUp
  BY DEF RoundInv
<1>3. QED
  BY <1>1, <1>2, RoundStarts, PTL DEF RoundSpec
=============================================================================
