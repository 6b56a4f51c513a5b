----------------------------- MODULE ArrayList -----------------------------
(***************************************************************************)
(* src/array_list.c: a growing array of items of one size.  Every          *)
(* allocation may fail; a cell that has been allocated and not written     *)
(* holds GARBAGE.  Callers ask for capacities whose number of bytes fits   *)
(* in a size_t, which the code does not check.  A call is one action,      *)
(* except rcutils_array_list_init, with one for each of its allocations.   *)
(***************************************************************************)
EXTENDS Integers, Sequences

CONSTANTS
  Value,
  NULL, GARBAGE,
  InitialCapacity,  \* the capacities callers ask for
  Index,            \* the positions callers pass
  MaxCapacity       \* bound: a larger array cannot be allocated

ASSUME ListAssumption ==
  /\ GARBAGE \notin Value /\ NULL \notin Value
  /\ InitialCapacity \subseteq Nat /\ Index \subseteq Nat /\ MaxCapacity \in Nat
ASSUME NotASequence == NULL \notin Seq(Value \union {GARBAGE})

VARIABLES
  impl,      \* whether array_list->impl is there
  size, capacity,
  array,     \* how many cells the block has that impl->list points to; 0: not allocated
  list,      \* list[i]: cell i of that block
  live,      \* the blocks allocated and not freed
  ret        \* what the last call returned

vars == <<impl, size, capacity, array, list, live, ret>>

Replies(code, data) == ret' = [code |-> code, data |-> data]

\* The two kinds of blocks; the array is told by its number of cells.
ImplBlock == <<"impl", 1>>
ArrayBlock(n) == <<"array", n>>

NoCells == [i \in {} |-> GARBAGE]
Init ==
  /\ impl = FALSE
  /\ size = 0 /\ capacity = 0 /\ array = 0
  /\ list = NoCells
  /\ live = {}
  /\ ret = [code |-> "OK", data |-> NULL]

(* rcutils_array_list_init: the arguments, and the allocation of impl *)
InitList(n) ==
  \/ /\ ~impl /\ n >= 1
     /\ impl' = TRUE /\ size' = 0 /\ capacity' = n
     /\ live' = live \union {ImplBlock}
     /\ UNCHANGED <<array, list, ret>>
  \/ /\ ~impl /\ n >= 1
     /\ Replies("BAD_ALLOC", NULL)
     /\ UNCHANGED <<impl, size, capacity, array, list, live>>
  \/ /\ (impl /\ array # 0) \/ (~impl /\ n < 1)
     /\ Replies("INVALID_ARGUMENT", NULL)
     /\ UNCHANGED <<impl, size, capacity, array, list, live>>

(* rcutils_array_list_init: the allocation of the array, without which impl  *)
(* is given back                                                             *)
InitArray ==
  /\ impl /\ array = 0
  /\ \/ /\ capacity <= MaxCapacity
        /\ array' = capacity
        /\ list' = [i \in 0 .. capacity - 1 |-> GARBAGE]
        /\ live' = live \union {ArrayBlock(capacity)}
        /\ Replies("OK", NULL)
        /\ UNCHANGED <<impl, size, capacity>>
     \/ /\ impl' = FALSE /\ capacity' = 0
        /\ live' = live \ {ImplBlock}
        /\ Replies("BAD_ALLOC", NULL)
        /\ UNCHANGED <<size, array, list>>

\* ARRAY_LIST_VALIDATE_ARRAY_LIST, for a caller whose init has returned.
Ready == impl /\ array # 0

(* rcutils_array_list_fini *)
FiniList ==
  /\ Ready
  /\ live' = live \ {ArrayBlock(array), ImplBlock}
  /\ impl' = FALSE /\ size' = 0 /\ capacity' = 0 /\ array' = 0
  /\ list' = NoCells
  /\ Replies("OK", NULL)

(* rcutils_array_list_increase_capacity: reallocate leaves the block as it   *)
(* is when there is no larger one                                            *)
\* Mutant: the capacity is doubled before the new array is there.
GrowthFailsLate == capacity' = 2 * capacity /\ UNCHANGED <<array, live>>
GrowthFails == UNCHANGED <<capacity, array, live>>
Grows ==
  /\ 2 * capacity <= MaxCapacity
  /\ capacity' = 2 * capacity /\ array' = 2 * capacity
  /\ live' = (live \ {ArrayBlock(array)}) \union {ArrayBlock(2 * capacity)}

(* rcutils_array_list_add: grow when full, then write behind the last item *)
\* Mutant: the array grows one item too late.
GrowsTooLate == size > capacity
MustGrow == size + 1 > capacity
AddItem(v) ==
  /\ Ready
  /\ \/ /\ IF MustGrow THEN Grows ELSE UNCHANGED <<capacity, array, live>>
        /\ list' = [i \in DOMAIN list \union 0 .. array' - 1 \union {size} |->
                      IF i = size THEN v ELSE IF i \in DOMAIN list THEN list[i] ELSE GARBAGE]
        /\ size' = size + 1
        /\ Replies("OK", NULL)
     \/ /\ MustGrow /\ GrowthFails
        /\ Replies("BAD_ALLOC", NULL)
        /\ UNCHANGED <<size, list>>
  /\ UNCHANGED impl

(* ARRAY_LIST_VALIDATE_INDEX_IN_BOUNDS *)
InBounds(i) == i < size
Rejected(i) ==
  /\ Ready /\ ~InBounds(i)
  /\ Replies("INVALID_ARGUMENT", NULL)
  /\ UNCHANGED <<impl, size, capacity, array, list, live>>

(* rcutils_array_list_set *)
SetItem(i, v) ==
  /\ Ready /\ InBounds(i)
  /\ list' = [list EXCEPT ![i] = v]
  /\ Replies("OK", NULL)
  /\ UNCHANGED <<impl, size, capacity, array, live>>

(* rcutils_array_list_remove: memmove of the items behind the removed one *)
\* Mutant: one item too few is moved.
MovedOneShort(i) ==
  [j \in DOMAIN list |-> IF i <= j /\ j + 2 < size THEN list[j + 1] ELSE list[j]]
MovedDown(i) ==
  [j \in DOMAIN list |-> IF i <= j /\ j + 1 < size THEN list[j + 1] ELSE list[j]]
RemoveItem(i) ==
  /\ Ready /\ InBounds(i)
  /\ list' = MovedDown(i)
  /\ size' = size - 1
  /\ Replies("OK", NULL)
  /\ UNCHANGED <<impl, capacity, array, live>>

(* rcutils_array_list_get and rcutils_array_list_get_size *)
GetItem(i) ==
  /\ Ready /\ InBounds(i)
  /\ Replies("OK", list[i])
  /\ UNCHANGED <<impl, size, capacity, array, list, live>>
GetSize ==
  /\ Ready
  /\ Replies("OK", size)
  /\ UNCHANGED <<impl, size, capacity, array, list, live>>

Next ==
  \/ \E n \in InitialCapacity : InitList(n)
  \/ InitArray \/ FiniList \/ GetSize
  \/ \E v \in Value : AddItem(v)
  \/ \E i \in Index : Rejected(i) \/ RemoveItem(i) \/ GetItem(i) \/ \E v \in Value : SetItem(i, v)

Spec == Init /\ [][Next]_vars

-----------------------------------------------------------------------------
(* The variables have their types, and the cells are those of the array that *)
(* was allocated.                                                            *)
TypeOK ==
  /\ impl \in BOOLEAN /\ size \in Nat /\ capacity \in Nat /\ array \in Nat
  /\ list \in [0 .. array - 1 -> Value \union {GARBAGE}]
  /\ ret \in [code : {"OK", "BAD_ALLOC", "INVALID_ARGUMENT"},
              data : Value \union {NULL, GARBAGE} \union Nat]

(* Items are written and moved within the array that was allocated: adding   *)
(* grows it in time, and removing never moves a cell that was not written.   *)
ItemsAreWritten ==
  /\ size <= array
  /\ \A i \in 0 .. size - 1 : list[i] \in Value

(* The blocks in use are those the list points to, and the list knows how    *)
(* large its array is: through an init whose second allocation fails, growth *)
(* that replaces the array, growth that fails and leaves it, and fini.       *)
MemoryIsAccounted ==
  /\ live = (IF impl THEN {ImplBlock} ELSE {}) \union (IF array # 0 THEN {ArrayBlock(array)} ELSE {})
  /\ array # 0 => impl /\ capacity = array

(* The array implements the sequence of module ListStore: growing, failing   *)
(* to grow and moving items down are invisible to callers.                   *)
Items == IF Ready THEN [i \in 1 .. size |-> list[i - 1]] ELSE NULL
Store == INSTANCE ListStore WITH items <- Items
ImplementsList == Store!Spec
=============================================================================
