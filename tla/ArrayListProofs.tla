-------------------------- MODULE ArrayListProofs --------------------------
(***************************************************************************)
(* Proofs about ArrayList, for every set of items, every capacity callers  *)
(* ask for and every position they pass.                                   *)
(***************************************************************************)
EXTENDS ArrayList, SequenceTheorems, TLAPS

(* The inductive invariant: the invariants that the runs check, and that a   *)
(* list that is not there has no items, which init relies on; a list that is *)
(* there has a capacity, which doubling it relies on.                        *)
Inv ==
  /\ TypeOK
  /\ ItemsAreWritten
  /\ MemoryIsAccounted
  /\ impl => capacity >= 1
  /\ ~impl => size = 0 /\ capacity = 0

LEMMA NoCellsType == NoCells \in [0 .. 0 - 1 -> Value \union {GARBAGE}]
<1>1. 0 .. 0 - 1 = {}
  OBVIOUS
<1>2. NoCells \in [{} -> Value \union {GARBAGE}]
  BY Zenon DEF NoCells
<1> QED BY <1>1, <1>2

(* Blocks of different kinds, or arrays of different sizes, are different. *)
LEMMA BlocksDiffer ==
  /\ \A n : ArrayBlock(n) # ImplBlock
  /\ \A m, n : ArrayBlock(m) = ArrayBlock(n) => m = n
BY DEF ArrayBlock, ImplBlock

(* What a list that is ready holds. *)
LEMMA ReadyFacts ==
  ASSUME Inv, Ready
  PROVE  /\ impl /\ array \in Nat /\ array >= 1 /\ capacity = array /\ size \in Nat /\ size <= array
         /\ live = {ImplBlock, ArrayBlock(array)}
         /\ list \in [0 .. array - 1 -> Value \union {GARBAGE}] /\ DOMAIN list = 0 .. array - 1
         /\ \A i \in 0 .. size - 1 : list[i] \in Value
BY DEF Inv, TypeOK, ItemsAreWritten, MemoryIsAccounted, Ready

(* The invariant of a list that is ready after a step. *)
LEMMA ReadyAgain ==
  ASSUME Inv, Ready, impl' = impl, array' \in Nat, array' >= 1, capacity' = array',
         size' \in Nat, size' <= array', live' = {ImplBlock, ArrayBlock(array')},
         list' \in [0 .. array' - 1 -> Value \union {GARBAGE}],
         \A i \in 0 .. size' - 1 : list'[i] \in Value,
         NEW code \in {"OK", "BAD_ALLOC", "INVALID_ARGUMENT"},
         NEW data \in Value \union {NULL, GARBAGE} \union Nat,
         Replies(code, data)
  PROVE  Inv'
<1>1. impl /\ impl'
  BY ReadyFacts
<1>2. ret' \in [code : {"OK", "BAD_ALLOC", "INVALID_ARGUMENT"},
               data : Value \union {NULL, GARBAGE} \union Nat]
  BY DEF Replies
<1>3. TypeOK' /\ ItemsAreWritten'
  BY <1>1, <1>2 DEF TypeOK, ItemsAreWritten, Inv
<1>4. MemoryIsAccounted'
  BY <1>1 DEF MemoryIsAccounted
<1> QED BY <1>1, <1>3, <1>4 DEF Inv

(* The invariant of a list that is not there after a step. *)
LEMMA GoneAgain ==
  ASSUME impl' = FALSE, size' = 0, capacity' = 0, array' = 0, list' = NoCells, live' = {},
         NEW code \in {"OK", "BAD_ALLOC", "INVALID_ARGUMENT"}, ret' = [code |-> code, data |-> NULL]
  PROVE  Inv'
<1>1. impl' \in BOOLEAN
  BY Zenon
<1>2. ret' \in [code : {"OK", "BAD_ALLOC", "INVALID_ARGUMENT"},
               data : Value \union {NULL, GARBAGE} \union Nat]
  OBVIOUS
<1>3. list' \in [0 .. array' - 1 -> Value \union {GARBAGE}]
  BY NoCellsType
<1>4. size' \in Nat /\ capacity' \in Nat /\ array' \in Nat
  OBVIOUS
<1>5. TypeOK'
  BY <1>1, <1>2, <1>3, <1>4, Zenon DEF TypeOK
<1>6. ItemsAreWritten' /\ MemoryIsAccounted'
  BY DEF ItemsAreWritten, MemoryIsAccounted
<1> QED BY <1>5, <1>6 DEF Inv

LEMMA InitInv == Init => Inv
<1> SUFFICES ASSUME Init PROVE Inv
  OBVIOUS
<1>1. ret \in [code : {"OK", "BAD_ALLOC", "INVALID_ARGUMENT"},
              data : Value \union {NULL, GARBAGE} \union Nat]
  BY DEF Init
<1>2. list \in [0 .. array - 1 -> Value \union {GARBAGE}]
  BY NoCellsType DEF Init
<1>3. impl \in BOOLEAN
  BY Zenon DEF Init
<1>4. TypeOK
  <2>1. size \in Nat /\ capacity \in Nat /\ array \in Nat
    BY DEF Init
  <2> QED BY <1>1, <1>2, <1>3, <2>1, Zenon DEF TypeOK
<1>5. ItemsAreWritten /\ MemoryIsAccounted
  BY DEF Init, ItemsAreWritten, MemoryIsAccounted
<1> QED BY <1>4, <1>5 DEF Inv, Init

(* The first allocation of init: only impl is there, or nothing has changed. *)
LEMMA InitListInv == ASSUME Inv, NEW n \in InitialCapacity, InitList(n) PROVE Inv'
<1>1. n \in Nat
  BY ListAssumption
<1>2. CASE UNCHANGED <<impl, size, capacity, array, list, live>>
  <2>1. ret' \in [code : {"OK", "BAD_ALLOC", "INVALID_ARGUMENT"},
                 data : Value \union {NULL, GARBAGE} \union Nat]
    BY <1>2 DEF InitList, Replies, Inv, TypeOK
  <2> QED BY <1>2, <2>1 DEF Inv, TypeOK, ItemsAreWritten, MemoryIsAccounted
<1>3. CASE ~UNCHANGED <<impl, size, capacity, array, list, live>>
  <2>1. /\ n >= 1 /\ ~impl /\ impl' = TRUE /\ size' = 0 /\ capacity' = n
        /\ live' = live \union {ImplBlock} /\ UNCHANGED <<array, list, ret>>
    BY <1>3 DEF InitList
  <2>2. array = 0 /\ live = {}
    BY <2>1 DEF Inv, MemoryIsAccounted
  <2>3. impl' \in BOOLEAN
    BY <2>1, Zenon
  <2>4. size' \in Nat /\ capacity' \in Nat /\ array' \in Nat
    BY <1>1, <2>1, <2>2
  <2>5. list' \in [0 .. array' - 1 -> Value \union {GARBAGE}]
    BY <2>1 DEF Inv, TypeOK
  <2>6. ret' \in [code : {"OK", "BAD_ALLOC", "INVALID_ARGUMENT"},
                 data : Value \union {NULL, GARBAGE} \union Nat]
    BY <2>1 DEF Inv, TypeOK
  <2>7. TypeOK'
    BY <2>3, <2>4, <2>5, <2>6, Zenon DEF TypeOK
  <2>8. ItemsAreWritten' /\ MemoryIsAccounted'
    BY <2>1, <2>2 DEF ItemsAreWritten, MemoryIsAccounted
  <2> QED BY <1>1, <2>1, <2>7, <2>8 DEF Inv
<1> QED BY <1>2, <1>3

(* The second one: the array is there too, or impl has been given back. *)
LEMMA InitArrayInv == ASSUME Inv, InitArray PROVE Inv'
<1>1. /\ impl /\ array = 0 /\ size = 0 /\ capacity \in Nat /\ capacity >= 1
      /\ live = {ImplBlock} /\ list \in [0 .. 0 - 1 -> Value \union {GARBAGE}]
  BY DEF InitArray, Inv, TypeOK, ItemsAreWritten, MemoryIsAccounted
<1>2. CASE array' = capacity
  <2>0. array' # array
    BY <1>1, <1>2
  <2>1. /\ list' = [i \in 0 .. capacity - 1 |-> GARBAGE] /\ UNCHANGED <<impl, size, capacity>>
        /\ live' = live \union {ArrayBlock(capacity)} /\ ret' = [code |-> "OK", data |-> NULL]
    BY <2>0, Zenon DEF InitArray, Replies
  <2>2. list' \in [0 .. array' - 1 -> Value \union {GARBAGE}]
    BY <1>2, <2>1
  <2>3. ret' \in [code : {"OK", "BAD_ALLOC", "INVALID_ARGUMENT"},
                 data : Value \union {NULL, GARBAGE} \union Nat]
    BY <2>1
  <2>4. TypeOK' /\ ItemsAreWritten'
    BY <1>1, <1>2, <2>1, <2>2, <2>3 DEF TypeOK, ItemsAreWritten, Inv
  <2>5. MemoryIsAccounted'
    BY <1>1, <1>2, <2>1 DEF MemoryIsAccounted
  <2> QED BY <1>1, <2>1, <2>4, <2>5 DEF Inv
<1>3. CASE array' # capacity
  <2>1. /\ impl' = FALSE /\ capacity' = 0 /\ live' = live \ {ImplBlock}
        /\ ret' = [code |-> "BAD_ALLOC", data |-> NULL] /\ UNCHANGED <<size, array, list>>
    BY <1>3 DEF InitArray, Replies
  <2>2. list' = NoCells
    <3>1. NoCells \in [0 .. 0 - 1 -> Value \union {GARBAGE}] /\ 0 .. 0 - 1 = {}
      BY NoCellsType
    <3> QED BY <1>1, <2>1, <3>1
  <2>3. live' = {}
    BY <1>1, <2>1
  <2> QED BY <1>1, <2>1, <2>2, <2>3, GoneAgain
<1> QED BY <1>2, <1>3

(* Finalizing frees both blocks. *)
LEMMA FiniInv == ASSUME Inv, FiniList PROVE Inv'
<1>1. Ready /\ live = {ImplBlock, ArrayBlock(array)}
  BY ReadyFacts DEF FiniList
<1>2. live' = {}
  BY <1>1 DEF FiniList
<1> QED BY <1>2, GoneAgain DEF FiniList, Replies

(* Adding an item keeps the invariant: the array has room for it. *)
LEMMA AddInv == ASSUME Inv, NEW v \in Value, AddItem(v) PROVE Inv'
<1>0. /\ Ready /\ impl' = impl /\ array \in Nat /\ array >= 1 /\ capacity = array /\ size \in Nat /\ size <= array
      /\ live = {ImplBlock, ArrayBlock(array)}
      /\ list \in [0 .. array - 1 -> Value \union {GARBAGE}] /\ DOMAIN list = 0 .. array - 1
      /\ \A i \in 0 .. size - 1 : list[i] \in Value
  BY ReadyFacts DEF AddItem
<1>1. CASE GrowthFails /\ UNCHANGED <<size, list>> /\ Replies("BAD_ALLOC", NULL)
  BY <1>0, <1>1, ReadyAgain DEF GrowthFails
<1>2. CASE ~(GrowthFails /\ UNCHANGED <<size, list>> /\ Replies("BAD_ALLOC", NULL))
  <2>1. /\ IF MustGrow THEN Grows ELSE UNCHANGED <<capacity, array, live>>
        /\ size' = size + 1 /\ Replies("OK", NULL)
        /\ list' = [i \in DOMAIN list \union 0 .. array' - 1 \union {size} |->
                      IF i = size THEN v ELSE IF i \in DOMAIN list THEN list[i] ELSE GARBAGE]
    BY <1>2 DEF AddItem
  <2>2. /\ array' \in Nat /\ capacity' = array' /\ size + 1 <= array' /\ array <= array'
    BY <1>0, <2>1 DEF Grows, MustGrow
  <2>3. live' = {ImplBlock, ArrayBlock(array')}
    <3>1. CASE MustGrow
      <4>1. live' = (live \ {ArrayBlock(array)}) \union {ArrayBlock(array')}
        BY <1>0, <2>1, <3>1 DEF Grows
      <4>2. ImplBlock # ArrayBlock(array)
        BY BlocksDiffer
      <4> QED BY <1>0, <4>1, <4>2
    <3>2. CASE ~MustGrow
      BY <1>0, <2>1, <3>2
    <3> QED BY <3>1, <3>2
  <2>4. DOMAIN list \union 0 .. array' - 1 \union {size} = 0 .. array' - 1
    BY <1>0, <2>2
  <2>5. list' \in [0 .. array' - 1 -> Value \union {GARBAGE}]
    BY <1>0, <2>1, <2>2, <2>4
  <2>6. \A i \in 0 .. size' - 1 : list'[i] \in Value
    <3> SUFFICES ASSUME NEW i \in 0 .. size' - 1 PROVE list'[i] \in Value
      OBVIOUS
    <3>1. i \in 0 .. array' - 1 /\ (i # size => i \in 0 .. size - 1 /\ i \in 0 .. array - 1)
      <4>1. size' = size + 1 /\ size \in Nat /\ array \in Nat /\ size <= array
        BY <1>0, <2>1
      <4>2. i \in Nat /\ i <= size
        BY <4>1
      <4> DEFINE n == array'
      <4>a. n \in Nat /\ size + 1 <= n
        BY <2>2, <4>1
      <4> HIDE DEF n
      <4>b. i \in 0 .. n - 1
        BY <4>1, <4>2, <4>a
      <4>3. i \in 0 .. array' - 1
        BY <4>b DEF n
      <4>4. ASSUME i # size PROVE i <= size - 1
        BY <4>1, <4>2, <4>4
      <4> QED BY <4>1, <4>2, <4>3, <4>4
    <3>2. list'[i] = IF i = size THEN v ELSE IF i \in DOMAIN list THEN list[i] ELSE GARBAGE
      BY <2>1, <2>4, <3>1
    <3> QED BY <1>0, <3>1, <3>2
  <2>7. array' >= 1 /\ size' \in Nat /\ size' <= array'
    BY <1>0, <2>1, <2>2
  <2> QED BY <1>0, <2>1, <2>2, <2>3, <2>5, <2>6, <2>7, ReadyAgain
<1> QED BY <1>1, <1>2

(* Removing an item keeps the invariant: only written cells are moved. *)
LEMMA RemoveInv == ASSUME Inv, NEW i \in Index, RemoveItem(i) PROVE Inv'
<1>0. /\ Ready /\ array \in Nat /\ array >= 1 /\ capacity = array /\ size \in Nat /\ size <= array
      /\ live = {ImplBlock, ArrayBlock(array)}
      /\ list \in [0 .. array - 1 -> Value \union {GARBAGE}] /\ DOMAIN list = 0 .. array - 1
      /\ \A j \in 0 .. size - 1 : list[j] \in Value
  BY ReadyFacts DEF RemoveItem
<1>1. /\ i < size /\ i \in Nat /\ size' = size - 1 /\ UNCHANGED <<impl, capacity, array, live>>
      /\ list' = [j \in DOMAIN list |-> IF i <= j /\ j + 1 < size THEN list[j + 1] ELSE list[j]]
      /\ Replies("OK", NULL)
  BY ListAssumption DEF RemoveItem, MovedDown, InBounds
<1>2. list' \in [0 .. array - 1 -> Value \union {GARBAGE}]
  BY <1>0, <1>1
<1>3. \A j \in 0 .. size' - 1 : list'[j] \in Value
  BY <1>0, <1>1
<1> QED BY <1>0, <1>1, <1>2, <1>3, ReadyAgain

(* Overwriting an item keeps it. *)
LEMMA SetInv == ASSUME Inv, NEW i \in Index, NEW v \in Value, SetItem(i, v) PROVE Inv'
<1>0. /\ Ready /\ array \in Nat /\ array >= 1 /\ capacity = array /\ size \in Nat /\ size <= array
      /\ live = {ImplBlock, ArrayBlock(array)}
      /\ list \in [0 .. array - 1 -> Value \union {GARBAGE}] /\ DOMAIN list = 0 .. array - 1
      /\ \A j \in 0 .. size - 1 : list[j] \in Value
  BY ReadyFacts DEF SetItem
<1>1. /\ i \in 0 .. size - 1 /\ list' = [list EXCEPT ![i] = v] /\ Replies("OK", NULL)
      /\ UNCHANGED <<impl, size, capacity, array, live>>
  BY <1>0, ListAssumption DEF SetItem, InBounds
<1>2. list' \in [0 .. array - 1 -> Value \union {GARBAGE}]
  BY <1>0, <1>1
<1>3. \A j \in 0 .. size' - 1 : list'[j] \in Value
  BY <1>0, <1>1
<1> QED BY <1>0, <1>1, <1>2, <1>3, ReadyAgain

(* A call that only answers keeps it. *)
LEMMA AnswerInv ==
  ASSUME Inv, Ready, UNCHANGED <<impl, size, capacity, array, list, live>>,
         NEW code \in {"OK", "BAD_ALLOC", "INVALID_ARGUMENT"},
         NEW data \in Value \union {NULL, GARBAGE} \union Nat, Replies(code, data)
  PROVE  Inv'
BY ReadyFacts, ReadyAgain

LEMMA NextInv == Inv /\ [Next]_vars => Inv'
<1> SUFFICES ASSUME Inv, [Next]_vars PROVE Inv'
  OBVIOUS
<1>1. ASSUME NEW n \in InitialCapacity, InitList(n) PROVE Inv'
  BY <1>1, InitListInv
<1>2. CASE InitArray
  BY <1>2, InitArrayInv
<1>3. CASE FiniList
  BY <1>3, FiniInv
<1>4. CASE GetSize
  <2>1. size \in Value \union {NULL, GARBAGE} \union Nat
    BY DEF Inv, TypeOK
  <2> QED BY <1>4, <2>1, AnswerInv DEF GetSize
<1>5. ASSUME NEW v \in Value, AddItem(v) PROVE Inv'
  BY <1>5, AddInv
<1>6. ASSUME NEW i \in Index, Rejected(i) PROVE Inv'
  BY <1>6, AnswerInv DEF Rejected
<1>7. ASSUME NEW i \in Index, RemoveItem(i) PROVE Inv'
  BY <1>7, RemoveInv
<1>8. ASSUME NEW i \in Index, GetItem(i) PROVE Inv'
  <2>1. list[i] \in Value \union {NULL, GARBAGE} \union Nat
    BY <1>8, ReadyFacts, ListAssumption DEF GetItem, InBounds
  <2> QED BY <1>8, <2>1, AnswerInv DEF GetItem
<1>9. ASSUME NEW i \in Index, NEW v \in Value, SetItem(i, v) PROVE Inv'
  BY <1>9, SetInv
<1>10. CASE UNCHANGED vars
  BY <1>10 DEF vars, Inv, TypeOK, ItemsAreWritten, MemoryIsAccounted
<1> QED BY <1>1, <1>2, <1>3, <1>4, <1>5, <1>6, <1>7, <1>8, <1>9, <1>10 DEF Next

LEMMA Invariance == Spec => []Inv
BY InitInv, NextInv, PTL DEF Spec

(* The cells are those of the array that was allocated, written or not.       *)
THEOREM TypeCorrect == Spec => []TypeOK
BY Invariance, PTL DEF Inv

(* Whatever is added, removed and overwritten, with whatever allocations     *)
(* failing, every item is in a cell of the array and has been written.       *)
THEOREM WrittenItems == Spec => []ItemsAreWritten
BY Invariance, PTL DEF Inv

(* An init whose second allocation fails gives the first block back, growth  *)
(* trades one array for another, failed growth keeps the one there is with   *)
(* its capacity, fini frees both: the blocks in use are those of the list.   *)
THEOREM AccountedMemory == Spec => []MemoryIsAccounted
BY Invariance, PTL DEF Inv

-----------------------------------------------------------------------------
(* A list that is there is a sequence of size items, which is not NULL. *)
LEMMA ItemsAreASequence ==
  ASSUME Inv, Ready
  PROVE  /\ Items \in Seq(Value) /\ Items # NULL
         /\ Len(Items) = size /\ DOMAIN Items = 1 .. size
         /\ \A j \in 1 .. size : Items[j] = list[j - 1]
<1>1. Items = [i \in 1 .. size |-> list[i - 1]] /\ size \in Nat
  BY DEF Items, Inv, TypeOK
<1>2. \A i \in 1 .. size : list[i - 1] \in Value
  BY DEF Inv, TypeOK, ItemsAreWritten
<1>3. Items \in Seq(Value) /\ Len(Items) = size /\ DOMAIN Items = 1 .. size
  BY <1>1, <1>2
<1>4. Items \in Seq(Value \union {GARBAGE})
  BY <1>1, <1>2
<1> QED BY <1>1, <1>3, <1>4, NotASequence

LEMMA NoItems == ~Ready => Items = NULL
BY DEF Items

(* Removing item i moves the items behind it down by one. *)
LEMMA RemoveRefines == ASSUME Inv, Inv', NEW i \in Index, RemoveItem(i) PROVE Store!Remove(i)
<1>1. /\ Ready /\ Ready' /\ i < size /\ i \in Nat /\ size' = size - 1 /\ size \in Nat
      /\ size <= array /\ DOMAIN list = 0 .. array - 1 /\ array \in Nat
      /\ list' = [j \in DOMAIN list |-> IF i <= j /\ j + 1 < size THEN list[j + 1] ELSE list[j]]
      /\ ret' = [code |-> "OK", data |-> NULL]
  BY ListAssumption
  DEF RemoveItem, MovedDown, InBounds, Replies, Ready, Inv, TypeOK, ItemsAreWritten
<1>2. /\ Items # NULL /\ Len(Items) = size /\ \A j \in 1 .. size : Items[j] = list[j - 1]
  BY <1>1, ItemsAreASequence
<1>3. Items' = [j \in 1 .. size - 1 |-> list'[j - 1]]
  BY <1>1 DEF Items
<1>4. \A j \in 1 .. size - 1 : list'[j - 1] = IF j <= i THEN Items[j] ELSE Items[j + 1]
  BY <1>1, <1>2
<1>5. Items' = [j \in 1 .. Len(Items) - 1 |-> IF j <= i THEN Items[j] ELSE Items[j + 1]]
  BY <1>2, <1>3, <1>4
<1> QED BY <1>1, <1>2, <1>5 DEF Store!Remove, Store!NoList, Store!InBounds, Store!Replies

(* Adding appends, whether or not the array has grown. *)
LEMMA AddRefines == ASSUME Inv, Inv', NEW v \in Value, AddItem(v) PROVE Store!Add(v)
<1>0. Ready'
  BY ReadyFacts DEF AddItem, Ready, GrowthFails, Grows, MustGrow
<1>1. Ready /\ Ready' /\ Items # NULL /\ Len(Items) = size /\ Items \in Seq(Value)
  BY <1>0, ItemsAreASequence DEF AddItem
<1>2. CASE UNCHANGED <<size, list>> /\ Replies("BAD_ALLOC", NULL)
  <2>1. Items' = Items
    BY <1>1, <1>2 DEF Items
  <2> QED BY <1>1, <1>2, <2>1 DEF Store!Add, Store!NoList, Store!Replies, Replies
<1>3. CASE ~(UNCHANGED <<size, list>> /\ Replies("BAD_ALLOC", NULL))
  <2>1. /\ size' = size + 1 /\ size \in Nat /\ DOMAIN list = 0 .. array - 1
        /\ size <= array /\ array \in Nat
        /\ list' = [i \in DOMAIN list \union 0 .. array' - 1 \union {size} |->
                      IF i = size THEN v ELSE IF i \in DOMAIN list THEN list[i] ELSE GARBAGE]
        /\ ret' = [code |-> "OK", data |-> NULL]
    BY <1>3 DEF AddItem, Replies, Inv, TypeOK, ItemsAreWritten
  <2>2. \A j \in 1 .. size : list'[j - 1] = Items[j]
    BY <2>1, <1>1, ItemsAreASequence
  <2>3. list'[size] = v
    BY <2>1
  <2>4. Items' = [j \in 1 .. size + 1 |-> list'[j - 1]]
    BY <1>1, <2>1 DEF Items
  <2>5. Items' = Append(Items, v)
    <3>1. Items' = [j \in 1 .. Len(Items) + 1 |-> IF j <= Len(Items) THEN Items[j] ELSE v]
      <4>1. \A j \in 1 .. size + 1 : list'[j - 1] = IF j <= size THEN Items[j] ELSE v
        <5> SUFFICES ASSUME NEW j \in 1 .. size + 1
                     PROVE  list'[j - 1] = IF j <= size THEN Items[j] ELSE v
          OBVIOUS
        <5>1. CASE j <= size
          <6>1. j \in 1 .. size
            BY <2>1, <5>1
          <6> QED BY <2>2, <5>1, <6>1, Zenon
        <5>2. CASE j = size + 1
          <6>1. j - 1 = size /\ ~(j <= size)
            BY <2>1, <5>2
          <6> QED BY <2>3, <6>1
        <5> QED BY <2>1, <5>1, <5>2
      <4> QED BY <1>1, <2>4, <4>1
    <3>2. Items' \in Seq(Value) /\ Append(Items, v) \in Seq(Value)
      BY <1>1, <3>1
    <3>3. /\ Len(Append(Items, v)) = Len(Items) + 1
          /\ \A j \in 1 .. Len(Items) : Append(Items, v)[j] = Items[j]
          /\ Append(Items, v)[Len(Items) + 1] = v
      BY <1>1, AppendProperties
    <3>4. Len(Items') = Len(Items) + 1
      BY <1>1, <3>1
    <3>5. \A j \in 1 .. Len(Items) + 1 : Items'[j] = Append(Items, v)[j]
      BY <1>1, <3>1, <3>3
    <3> QED BY <3>2, <3>3, <3>4, <3>5, SeqEqual
  <2> QED BY <1>1, <2>1, <2>5 DEF Store!Add, Store!NoList, Store!Replies
<1> QED BY <1>2, <1>3

LEMMA SetRefines ==
  ASSUME Inv, Inv', NEW i \in Index, NEW v \in Value, SetItem(i, v) PROVE Store!Overwrite(i, v)
<1>1. /\ Ready /\ Ready' /\ i < size /\ i \in Nat /\ size' = size /\ size \in Nat
      /\ size <= array /\ DOMAIN list = 0 .. array - 1 /\ array \in Nat
      /\ list' = [list EXCEPT ![i] = v]
      /\ ret' = [code |-> "OK", data |-> NULL]
  BY ListAssumption DEF SetItem, InBounds, Replies, Ready, Inv, TypeOK, ItemsAreWritten
<1>2. /\ Items # NULL /\ Len(Items) = size /\ Items = [j \in 1 .. size |-> list[j - 1]]
  BY <1>1, ItemsAreASequence DEF Items
<1>3. Items' = [j \in 1 .. size |-> list'[j - 1]]
  BY <1>1 DEF Items
<1>4. \A j \in 1 .. size : list'[j - 1] = IF j = i + 1 THEN v ELSE list[j - 1]
  BY <1>1
<1>5. Items' = [Items EXCEPT ![i + 1] = v]
  BY <1>1, <1>2, <1>3, <1>4
<1> QED BY <1>1, <1>2, <1>5 DEF Store!Overwrite, Store!NoList, Store!InBounds, Store!Replies

LEMMA InitRefines == Init => Store!Init
BY NoItems DEF Init, Ready, Store!Init

LEMMA NextRefines == Inv /\ Inv' /\ [Next]_vars => [Store!Next]_(Store!vars)
<1> SUFFICES ASSUME Inv, Inv', [Next]_vars PROVE Store!Next \/ UNCHANGED Store!vars
  BY DEF Store!vars
<1> USE DEF Store!Next
<1>0. ASSUME UNCHANGED <<impl, size, array, list>> PROVE Items' = Items
  BY <1>0 DEF Items, Ready
<1>1. ASSUME NEW n \in InitialCapacity, InitList(n) PROVE Store!Create \/ UNCHANGED Store!vars
  <2>1. CASE UNCHANGED <<impl, size, capacity, array, list, live>>
    <3>1. Items' = Items
      BY <1>0, <2>1
    <3>2. CASE ret' = [code |-> "BAD_ALLOC", data |-> NULL] /\ ~impl
      <4>1. Items = NULL
        BY <3>2, NoItems DEF Ready
      <4> QED BY <3>1, <3>2, <4>1 DEF Store!Create, Store!NoList, Store!Replies
    <3>3. CASE ret' = [code |-> "INVALID_ARGUMENT", data |-> NULL]
      BY <3>1, <3>3 DEF Store!Create, Store!Replies
    <3>4. CASE ret' = ret
      BY <3>1, <3>4 DEF Store!vars
    <3> QED BY <1>1, <2>1, <3>2, <3>3, <3>4 DEF InitList, Replies
  <2>2. CASE ~UNCHANGED <<impl, size, capacity, array, list, live>>
    <3>1. ~impl /\ array' = array /\ ret' = ret
      BY <1>1, <2>2 DEF InitList
    <3>2. array = 0
      BY <3>1 DEF Inv, MemoryIsAccounted
    <3>3. Items = NULL /\ Items' = NULL
      BY <3>1, <3>2, NoItems DEF Items, Ready
    <3> QED BY <3>1, <3>3 DEF Store!vars
  <2> QED BY <2>1, <2>2
<1>10. CASE InitArray
  <2>1. Items = NULL
    BY <1>10, NoItems DEF InitArray, Ready
  <2>2. CASE array' = capacity
    <3>0. capacity >= 1 /\ capacity \in Nat /\ array = 0 /\ size = 0 /\ impl
      BY <1>10 DEF InitArray, Inv, TypeOK, ItemsAreWritten
    <3>a. array' # array
      BY <2>2, <3>0
    <3>b. UNCHANGED <<impl, size>> /\ ret' = [code |-> "OK", data |-> NULL]
      BY <1>10, <3>a, Zenon DEF InitArray, Replies
    <3>1. impl' /\ array' # 0 /\ size' = 0 /\ ret' = [code |-> "OK", data |-> NULL]
      BY <2>2, <3>0, <3>b
    <3>2. Items' = <<>>
      BY <3>1 DEF Items, Ready
    <3> QED BY <2>1, <3>1, <3>2 DEF Store!Create, Store!NoList, Store!Replies
  <2>3. CASE array' # capacity
    <3>1. impl' = FALSE /\ ret' = [code |-> "BAD_ALLOC", data |-> NULL]
      BY <1>10, <2>3 DEF InitArray, Replies
    <3>2. Items' = NULL
      BY <3>1 DEF Items, Ready
    <3> QED BY <2>1, <3>1, <3>2 DEF Store!Create, Store!NoList, Store!Replies
  <2> QED BY <2>2, <2>3
<1>2. CASE FiniList
  <2>1. Ready /\ ~impl' /\ ret' = [code |-> "OK", data |-> NULL]
    BY <1>2 DEF FiniList, Replies
  <2>2. Items # NULL /\ Items' = NULL
    BY <2>1, ItemsAreASequence DEF Items, Ready
  <2> QED BY <2>1, <2>2 DEF Store!Destroy, Store!NoList, Store!Replies
<1>3. CASE GetSize
  BY <1>0, <1>3, ItemsAreASequence
  DEF GetSize, Replies, Store!GetSize, Store!NoList, Store!Replies
<1>4. ASSUME NEW i \in Index, Rejected(i) PROVE Store!OutOfBounds(i)
  BY <1>0, <1>4, ItemsAreASequence
  DEF Rejected, InBounds, Replies, Store!OutOfBounds, Store!NoList, Store!InBounds, Store!Replies
<1>5. ASSUME NEW i \in Index, GetItem(i) PROVE Store!Get(i)
  <2>1. Ready /\ i \in Nat /\ i < size /\ size \in Nat /\ ret' = [code |-> "OK", data |-> list[i]]
    BY <1>5, ListAssumption DEF GetItem, InBounds, Replies, Inv, TypeOK
  <2>2. Items[i + 1] = list[i]
    BY <2>1, ItemsAreASequence
  <2> QED BY <1>0, <1>5, <2>1, <2>2, ItemsAreASequence
          DEF GetItem, Store!Get, Store!NoList, Store!InBounds, Store!Replies
<1>6. ASSUME NEW v \in Value, AddItem(v) PROVE Store!Add(v)
  BY <1>6, AddRefines
<1>7. ASSUME NEW i \in Index, RemoveItem(i) PROVE Store!Remove(i)
  BY <1>7, RemoveRefines
<1>8. ASSUME NEW i \in Index, NEW v \in Value, SetItem(i, v) PROVE Store!Overwrite(i, v)
  BY <1>8, SetRefines
<1>9. CASE UNCHANGED vars
  BY <1>0, <1>9 DEF vars, Store!vars
<1> QED BY <1>1, <1>2, <1>3, <1>4, <1>5, <1>6, <1>7, <1>8, <1>9, <1>10 DEF Next

(* The array implements the sequence: every call, with any allocation        *)
(* failing, does to the items what array_list.h says and returns it.         *)
THEOREM Implementation == Spec => ImplementsList
<1>1. Init => Store!Init
  BY InitRefines
<1>2. Inv /\ Inv' /\ [Next]_vars => [Store!Next]_(Store!vars)
  BY NextRefines
<1> QED BY <1>1, <1>2, Invariance, PTL DEF Spec, ImplementsList, Store!Spec
=============================================================================
