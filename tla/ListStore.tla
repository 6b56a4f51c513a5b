----------------------------- MODULE ListStore -----------------------------
(***************************************************************************)
(* What include/rcutils/types/array_list.h promises its callers: a         *)
(* sequence of items that calls append to, overwrite and remove from by    *)
(* position.  Nothing is said of capacities, memory or moved bytes.        *)
(***************************************************************************)
EXTENDS Integers, Sequences

CONSTANTS
  Value,
  Index,     \* the positions callers pass, from 0, in or out of bounds
  NULL       \* no list, no item

VARIABLES
  items,     \* the items of the list; NULL when there is no list
  ret        \* what the last call returned

vars == <<items, ret>>

Replies(code, data) == ret' = [code |-> code, data |-> data]
NoList == items = NULL
InBounds(i) == i < Len(items)

Init == items = NULL /\ ret = [code |-> "OK", data |-> NULL]

Create ==
  \/ NoList /\ items' = <<>> /\ Replies("OK", NULL)
  \/ NoList /\ UNCHANGED items /\ Replies("BAD_ALLOC", NULL)
  \/ UNCHANGED items /\ Replies("INVALID_ARGUMENT", NULL)
Destroy == ~NoList /\ items' = NULL /\ Replies("OK", NULL)
Add(v) ==
  /\ ~NoList
  /\ \/ items' = Append(items, v) /\ Replies("OK", NULL)
     \/ UNCHANGED items /\ Replies("BAD_ALLOC", NULL)
Overwrite(i, v) ==
  /\ ~NoList /\ InBounds(i)
  /\ items' = [items EXCEPT ![i + 1] = v]
  /\ Replies("OK", NULL)
Remove(i) ==
  /\ ~NoList /\ InBounds(i)
  /\ items' = [j \in 1 .. Len(items) - 1 |-> IF j <= i THEN items[j] ELSE items[j + 1]]
  /\ Replies("OK", NULL)
Get(i) ==
  /\ ~NoList /\ InBounds(i)
  /\ UNCHANGED items /\ Replies("OK", items[i + 1])
GetSize == ~NoList /\ UNCHANGED items /\ Replies("OK", Len(items))
OutOfBounds(i) ==
  /\ ~NoList /\ ~InBounds(i)
  /\ UNCHANGED items /\ Replies("INVALID_ARGUMENT", NULL)

Next ==
  \/ Create \/ Destroy \/ GetSize
  \/ \E v \in Value : Add(v)
  \/ \E i \in Index : Remove(i) \/ Get(i) \/ OutOfBounds(i) \/ \E v \in Value : Overwrite(i, v)

Spec == Init /\ [][Next]_vars
=============================================================================
