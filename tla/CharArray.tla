----------------------------- MODULE CharArray -----------------------------
(***************************************************************************)
(* src/char_array.c with rcutils_reallocf of src/allocator.c: a buffer for *)
(* text that grows as needed.  The array owns its buffer, or borrows one   *)
(* of the caller (owns_buffer is false) and moves to a block of its own    *)
(* when it needs another size.  Every allocation may fail.                 *)
(*                                                                         *)
(* An operation on an array value yields the set of its outcomes, so that  *)
(* the code that formats log messages can be built from the same           *)
(* operators.  Callers use an array between init and fini.                 *)
(***************************************************************************)
EXTENDS Integers, Sequences

CONSTANTS
  Strings,       \* what callers write and append
  Capacities,    \* the sizes callers ask for
  MaxBuffer,     \* bound: a larger block cannot be allocated
  NUL,           \* the terminating character
  UNSET          \* a byte that was allocated and not written

ASSUME CharsAssumption ==
  /\ Strings \subseteq Seq(UNION {{s[i] : i \in DOMAIN s} : s \in Strings})
  /\ Capacities \subseteq Nat /\ MaxBuffer \in Nat

VARIABLES
  chars,    \* the rcutils_char_array_t and the bytes it points to
  text      \* history: the string the calls so far amount to

charVars == <<chars, text>>

AtMost(m, n) == IF m < n THEN m ELSE n
Unwritten(n) == [i \in 1 .. n |-> UNSET]
Prefix(s, n) == SubSeq(s, 1, AtMost(n, Len(s)))
\* memcpy into the buffer, at an offset
Overwrite(bytes, at, s) ==
  [i \in DOMAIN bytes |-> IF i \in at + 1 .. at + Len(s) THEN s[i - at] ELSE bytes[i]]

(* buffer is "null", "caller" (borrowed), "heap" (a block of the array), or  *)
(* "dangling" (a block that has been freed); "freed_twice" ends the story.   *)
\* rcutils_get_zero_initialized_char_array
ZeroChars == [buffer |-> "null", owns |-> FALSE, length |-> 0, capacity |-> 0,
              bytes |-> <<>>, blocks |-> 0]
Outcome(ret, a) == [ret |-> ret, arr |-> a]

(* rcutils_char_array_init *)
Initialized(a, n) ==
  LET b == [a EXCEPT !.owns = TRUE, !.length = 0, !.capacity = n]
  IN IF n = 0 THEN {Outcome("OK", b)}
     ELSE {Outcome("OK", [b EXCEPT !.buffer = "heap", !.blocks = @ + 1,
                                   !.bytes = <<NUL>> \o Unwritten(n - 1)]) : m \in {n} \intersect 1 .. MaxBuffer}
          \union {Outcome("BAD_ALLOC", [b EXCEPT !.buffer = "null", !.capacity = 0, !.bytes = <<>>])}

(* rcutils_char_array_fini: the buffer is deallocated if it is owned *)
\* Mutant: a borrowed buffer is deallocated, too.
FinalizedBorrowed(a) == [ZeroChars EXCEPT !.blocks = IF a.buffer = "null" THEN a.blocks ELSE a.blocks - 1]
Finalized(a) ==
  [a EXCEPT !.buffer = IF @ = "dangling" THEN "freed_twice" ELSE "null",
            !.blocks = IF a.owns /\ a.buffer = "heap" THEN @ - 1 ELSE @,
            !.length = 0, !.capacity = 0, !.bytes = <<>>]

(* rcutils_reallocf: a block that cannot be enlarged is freed *)
Reallocated(a, n) ==
  {Outcome("OK", [a EXCEPT !.buffer = "heap", !.blocks = IF a.buffer = "heap" THEN @ ELSE @ + 1,
                           !.bytes = Prefix(@, n) \o Unwritten(n - AtMost(n, Len(@)))])
     : m \in {n} \intersect 1 .. MaxBuffer}
  \union {Outcome("BAD_ALLOC", [a EXCEPT !.buffer = IF @ = "heap" THEN "dangling" ELSE @,
                                         !.blocks = IF a.buffer = "heap" THEN @ - 1 ELSE @])}

(* rcutils_char_array_resize: a borrowed buffer is copied and terminated *)
\* Mutant: the end is not written.
CopiedWithoutEnd(a, b, n) == Overwrite(b.bytes, 0, Prefix(a.bytes, n))
CopiedFrom(a, b, n) ==
  LET copied == Overwrite(b.bytes, 0, Prefix(a.bytes, n))
  IN [copied EXCEPT ![AtMost(n, a.capacity)] = NUL]
Moved(a, n) ==
  {IF o.ret = "OK" THEN [o EXCEPT !.arr.bytes = CopiedFrom(a, o.arr, n)] ELSE o : o \in Initialized(a, n)}
Resized(a, n) ==
  IF n = 0 THEN {Outcome("INVALID_ARGUMENT", a)}
  ELSE IF n = a.capacity THEN {Outcome("OK", a)}
  ELSE {IF o.ret = "OK" THEN [o EXCEPT !.arr.capacity = n, !.arr.length = AtMost(n, a.length)] ELSE o
          : o \in IF a.owns THEN Reallocated(a, n) ELSE Moved(a, n)}

(* rcutils_char_array_expand_as_needed: by half of the old capacity at least *)
NewCapacity(a, n) == LET least == a.capacity + a.capacity \div 2 IN IF n < least THEN least ELSE n
\* Mutant: the terminating character is not counted.
ExpandedOneShort(a, n) == IF n <= a.capacity + 1 THEN {Outcome("OK", a)} ELSE Resized(a, NewCapacity(a, n))
Expanded(a, n) == IF n <= a.capacity THEN {Outcome("OK", a)} ELSE Resized(a, NewCapacity(a, n))

\* The bytes s written at an offset, once there is room; length bytes are then in use.
WrittenAt(a, at, s) ==
  {IF o.ret = "OK" THEN [o EXCEPT !.arr.bytes = Overwrite(@, at, s), !.arr.length = at + Len(s)] ELSE o
     : o \in Expanded(a, at + Len(s))}

(* rcutils_char_array_memcpy, _strcpy, _strncat and _strcat *)
Memcpyed(a, s) == WrittenAt(a, 0, s)
Strcpyed(a, s) == Memcpyed(a, Append(s, NUL))
\* Mutant: text is appended behind the terminating character.
StrlenWithNul(a) == a.length
CurrentStrlen(a) == IF a.length = 0 THEN 0 ELSE a.length - 1
Strcatted(a, s) == WrittenAt(a, CurrentStrlen(a), Append(s, NUL))

(* rcutils_char_array_vsprintf: formats what fits, and again once there is   *)
(* room.  The first attempt may fail, having written or not; should the      *)
(* second one differ, the array is finalized.                                *)
Fitting(a, s) == IF a.capacity = 0 THEN a
                 ELSE [a EXCEPT !.bytes = Overwrite(@, 0, Append(Prefix(s, a.capacity - 1), NUL))]
Formatted(a, s) ==
  LET first == Fitting(a, s)
      needed == Len(s) + 1
      FormatAgain(o) == IF o.ret = "OK"
                        THEN {Outcome("OK", [Fitting(o.arr, s) EXCEPT !.length = needed]),
                              Outcome("ERROR", Finalized(o.arr))}
                        ELSE {o}
  IN {Outcome("ERROR", a), Outcome("ERROR", first)} \union
     IF needed > a.capacity THEN UNION {FormatAgain(o) : o \in Expanded(first, needed)}
     ELSE {Outcome("OK", [first EXCEPT !.length = needed])}
-----------------------------------------------------------------------------
NoString == <<UNSET>>
CharInit == chars = ZeroChars /\ text = <<>>

InUse == chars.buffer \in {"caller", "heap"} \/ (chars.buffer = "null" /\ chars.owns)
\* A call takes one of its outcomes; s is the string it should leave behind if
\* it succeeds.  A call that is refused leaves the string that was there.
Call(outcomes, s) ==
  \E o \in outcomes :
    /\ chars' = o.arr
    /\ text' = CASE o.ret = "OK" -> s
                [] o.ret # "OK" /\ o.arr = chars -> text
                [] OTHER -> IF o.arr.length = 0 THEN <<>> ELSE NoString

InitChars(n) == chars.buffer = "null" /\ Call(Initialized(chars, n), <<>>)
\* The caller fills in the struct with a buffer of its own, as the console
\* output handler does.
BorrowChars(n) ==
  /\ chars.buffer = "null" /\ n > 0
  /\ Call({Outcome("OK", [ZeroChars EXCEPT !.buffer = "caller", !.capacity = n, !.bytes = Unwritten(n)])}, <<>>)
FiniChars ==
  /\ InUse \/ chars.buffer = "dangling"
  /\ Call({Outcome("OK", Finalized(chars))}, <<>>)
\* The end of a string that is cut off leaves no string, unless it is copied.
ResizeChars(n) ==
  /\ InUse
  /\ Call(Resized(chars, n), IF n >= chars.length THEN text
                             ELSE IF chars.owns \/ text = NoString THEN NoString ELSE Prefix(text, n - 1))
MemcpyChars(s) == InUse /\ Call(Memcpyed(chars, s), IF s = <<>> THEN <<>> ELSE NoString)
StrcpyChars(s) == InUse /\ Call(Strcpyed(chars, s), s)
StrncatChars(s, n) ==
  InUse /\ Call(Strcatted(chars, Prefix(s, n)), IF text = NoString THEN NoString ELSE text \o Prefix(s, n))
VsprintfChars(s) == InUse /\ Call(Formatted(chars, s), s)

CharNext ==
  \/ \E n \in Capacities : InitChars(n) \/ BorrowChars(n) \/ ResizeChars(n)
  \/ FiniChars
  \/ \E s \in Strings : \/ MemcpyChars(s) \/ StrcpyChars(s) \/ VsprintfChars(s)
                        \/ \E n \in 0 .. Len(s) : StrncatChars(s, n)
CharSpec == CharInit /\ [][CharNext]_charVars

-----------------------------------------------------------------------------
(* What was copied, formatted and appended so far is in the buffer, followed *)
(* by the terminating character: through growth, the move from a borrowed    *)
(* buffer to one of the array's own, and calls that fail.  Strings the       *)
(* caller cuts off and raw bytes are not meant.                              *)
StringIsKept ==
  /\ chars.length <= chars.capacity
  /\ (text # NoString /\ chars.length > 0) =>
       SubSeq(chars.bytes, 1, chars.length) = Append(text, NUL)

(* char_array.h:34 says of the buffer "A pointer to the allocated memory for *)
(* this char array.": it never points to memory that has been freed.         *)
BufferIsAllocated == chars.buffer \notin {"dangling", "freed_twice"}

(* A block is held exactly while the array has a buffer of its own, and the  *)
(* caller's buffer is never freed.  That is not said of an array whose own   *)
(* buffer could not be enlarged: rcutils_reallocf has freed the buffer, the  *)
(* array still points to it, and fini frees it again (BufferIsAllocated is   *)
(* what fails then).                                                         *)
CharBlocksAreAccounted ==
  BufferIsAllocated => /\ chars.blocks = IF chars.buffer = "heap" THEN 1 ELSE 0
                       /\ chars.buffer = "heap" => chars.owns
=============================================================================
