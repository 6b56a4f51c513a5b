---------------------------- MODULE StringArray ----------------------------
(***************************************************************************)
(* src/string_array.c and rcutils_qsort (src/qsort.c): arrays of strings   *)
(* that are blocks of their own.  Callers store a string by allocating it  *)
(* into an entry.  Strings are numbers, in the order of strcmp.            *)
(***************************************************************************)
EXTENDS Integers, Sequences, FiniteSets

CONSTANTS
  Array,        \* the arrays
  String,       \* the strings
  Sizes,        \* the sizes callers ask for
  NOSTRING      \* an entry without a string

ASSUME StringsAssumption == String \subseteq Nat /\ NOSTRING \notin String /\ Sizes \subseteq Nat

VARIABLES
  strs,        \* the rcutils_string_array_t; null: data is NULL, valid: it has an allocator
  strBlocks    \* blocks allocated and not freed

strVars == <<strs, strBlocks>>

\* rcutils_get_zero_initialized_string_array
ZeroStrings == [null |-> TRUE, data |-> <<>>, size |-> 0, valid |-> FALSE]
StrInit == strs = [a \in Array |-> ZeroStrings] /\ strBlocks = 0

Nulls(n) == [i \in 1 .. n |-> NOSTRING]
\* The blocks an array holds: its data, and the strings of its first size entries.
Filled(r) == {i \in 1 .. r.size : r.data[i] # NOSTRING}
StringsIn(r) == Cardinality(Filled(r))
BlocksOf(r) == IF r.null THEN 0 ELSE 1 + StringsIn(r)
With(a, r) == strs' = [strs EXCEPT ![a] = r]

(* rcutils_string_array_init: size is set before the allocation that may fail *)
InitStrings(a, n) ==
  /\ strs[a].null
  /\ \/ /\ With(a, [null |-> FALSE, data |-> Nulls(n), size |-> n, valid |-> TRUE])
        /\ strBlocks' = strBlocks + 1
     \/ /\ n = 0 /\ With(a, [ZeroStrings EXCEPT !.valid = TRUE])
        /\ UNCHANGED strBlocks
     \/ /\ n > 0 /\ With(a, [strs[a] EXCEPT !.size = n])
        /\ UNCHANGED strBlocks

(* rcutils_string_array_fini: nothing to do without data *)
FiniStrings(a) ==
  /\ ~strs[a].null
  /\ With(a, [strs[a] EXCEPT !.null = TRUE, !.data = <<>>, !.size = 0])
  /\ strBlocks' = strBlocks - BlocksOf(strs[a])

\* The caller stores a copy of a string in an empty entry.
StoreString(a, i, s) ==
  /\ ~strs[a].null /\ i \in 1 .. strs[a].size /\ strs[a].data[i] = NOSTRING
  /\ strs' = [strs EXCEPT ![a].data[i] = s]
  /\ strBlocks' = strBlocks + 1

(* rcutils_string_array_resize: the strings that are cut off are stashed in  *)
(* an array of their own, which is finalized when the rest has succeeded.    *)
(* Callers do not resize an array whose initialization has failed.           *)
\* Mutant: the cut off strings are freed even if the array stays as it is.
ReclaimedAnyway(r, n, ok) == IF n < r.size THEN StringsIn(r) - StringsIn([r EXCEPT !.size = n]) ELSE 0
Reclaimed(r, n, ok) == IF ok /\ n < r.size THEN StringsIn(r) - StringsIn([r EXCEPT !.size = n]) ELSE 0
\* Mutant: the new entries are not set.
CutOrUnset(r, n) == [i \in 1 .. n |-> IF i <= r.size THEN r.data[i] ELSE CHOOSE s \in String : TRUE]
CutOrExtended(r, n) == [i \in 1 .. n |-> IF i <= r.size THEN r.data[i] ELSE NOSTRING]
ResizeStrings(a, n) ==
  LET r == strs[a]
      Reallocated(null) ==   \* reallocate to size zero may free the data and yield NULL
        /\ With(a, [r EXCEPT !.null = null, !.data = CutOrExtended(r, n), !.size = n])
        /\ strBlocks' = strBlocks + (IF null THEN 0 ELSE 1) - (IF r.null THEN 0 ELSE 1) - Reclaimed(r, n, TRUE)
  IN /\ n # r.size /\ r.valid /\ (r.null => r.size = 0)
     /\ \/ Reallocated(FALSE)
        \/ n = 0 /\ Reallocated(TRUE)
        \/ /\ n > 0 \/ r.size > 0   \* the stash or the data cannot be allocated
           /\ strBlocks' = strBlocks - Reclaimed(r, n, FALSE)
           /\ UNCHANGED strs
\* An equal size is accepted as it is; without a valid allocator the call is refused.
ResizeIgnored(a, n) == (n = strs[a].size \/ ~strs[a].valid) /\ UNCHANGED strVars

(* rcutils_string_array_sort_compare, the order rcutils_qsort sorts by: NULL last *)
NotAfter(s, t) == IF s = NOSTRING \/ t = NOSTRING THEN t = NOSTRING ELSE s <= t
Count(d, s) == Cardinality({i \in DOMAIN d : d[i] = s})
Sort(a) ==
  /\ ~strs[a].null
  /\ \E d \in [1 .. strs[a].size -> String \union {NOSTRING}] :
       /\ \A i, j \in DOMAIN d : i < j => NotAfter(d[i], d[j])
       /\ \A s \in String \union {NOSTRING} : Count(d, s) = Count(strs[a].data, s)
       /\ strs' = [strs EXCEPT ![a].data = d]
  /\ UNCHANGED strBlocks

StrNext ==
  \E a \in Array :
    \/ FiniStrings(a) \/ Sort(a)
    \/ \E n \in Sizes : InitStrings(a, n) \/ ResizeStrings(a, n) \/ ResizeIgnored(a, n)
    \/ \E i \in 1 .. strs[a].size, s \in String : StoreString(a, i, s)
StrSpec == StrInit /\ [][StrNext]_strVars

-----------------------------------------------------------------------------
(* rcutils_string_array_cmp: the sign of its result, or the error it returns *)
Least(m, n) == IF m < n THEN m ELSE n
\* Mutant: the strings are compared up to the size of the left array.
ComparedUpToFirst(l, r) == l.size
Compared(l, r) == Least(l.size, r.size)
FirstStop(l, r) ==   \* the first index with a missing or a different string
  LET stops == {i \in 1 .. Compared(l, r) : l.data[i] = NOSTRING \/ r.data[i] = NOSTRING \/ l.data[i] # r.data[i]}
  IN IF stops = {} THEN 0 ELSE CHOOSE i \in stops : \A j \in stops : i <= j
Cmp(l, r) ==
  LET i == FirstStop(l, r)
  IN IF Compared(l, r) > 0 /\ (l.null \/ r.null) THEN "INVALID_ARGUMENT"
     ELSE IF i = 0 THEN (IF l.size < r.size THEN "less" ELSE IF l.size > r.size THEN "greater" ELSE "equal")
     ELSE IF l.data[i] = NOSTRING \/ r.data[i] = NOSTRING THEN "ERROR"
     ELSE IF l.data[i] < r.data[i] THEN "less" ELSE "greater"

(* Every string and every array is held by exactly the array it is in:       *)
(* nothing leaks or is freed twice when an array is cut, extended or         *)
(* finalized, or when one of the allocations of a resize fails.              *)
HeldBy(r) == IF r.null THEN {} ELSE {0} \union Filled(r)   \* 0: the data itself
StringBlocksAreAccounted ==
  strBlocks = Cardinality(UNION {{<<a, b>> : b \in HeldBy(strs[a])} : a \in Array})

(* Comparing arrays is an order: whichever is called the left one, the same  *)
(* array is the smaller one and the same error is reported; arrays are equal *)
(* when their strings are; and no entry behind the end of one is read.       *)
Mirrored == [r \in {"less", "greater", "equal", "ERROR", "INVALID_ARGUMENT"} |->
               CASE r = "less" -> "greater" [] r = "greater" -> "less" [] OTHER -> r]
CmpIsAnOrder ==
  \A a, b \in Array :
    /\ Cmp(strs[b], strs[a]) = Mirrored[Cmp(strs[a], strs[b])]
    /\ Cmp(strs[a], strs[b]) = "equal" <=>
         /\ strs[a].size = strs[b].size /\ strs[a].data = strs[b].data
         /\ Count(strs[a].data, NOSTRING) = 0 /\ Len(strs[a].data) = strs[a].size
=============================================================================
