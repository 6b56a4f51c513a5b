------------------------------- MODULE Split -------------------------------
(***************************************************************************)
(* src/split.c: rcutils_split cuts a string into tokens, one action per    *)
(* iteration of its loop; rcutils_split_last cuts it in two, in one action *)
(* with its three allocations.  Strings are sequences of characters;       *)
(* offsets count from 0, as in C.  Every allocation may fail.              *)
(***************************************************************************)
EXTENDS Integers, Sequences, FiniteSets

CONSTANTS
  Inputs,      \* the strings to split
  DELIMITER,   \* the character to split at
  ABSENT,      \* an entry that is NULL
  UNWRITTEN    \* a token that was allocated and not written

Characters == UNION {{s[k] : k \in DOMAIN s} : s \in Inputs}
ASSUME SplitAssumption == Inputs \subseteq Seq(Characters) /\ ABSENT \notin Seq(Characters)

VARIABLES
  input,         \* str
  splitStage,    \* "idle", "loop", "OK" or "BAD_ALLOC": as rcutils_split returned;
                 \* "last": rcutils_split_last returned RCUTILS_RET_OK
  lhs, rhs,      \* where the token starts and where the loop is
  counter,       \* token_counter
  tokens,        \* the rcutils_string_array_t; size entries count
  splitBlocks    \* blocks allocated and not freed

splitVars == <<input, splitStage, lhs, rhs, counter, tokens, splitBlocks>>

NoTokens == [size |-> 0, data |-> <<>>]
\* rcutils_string_array_init sets the size before it fails to allocate.
OnlySize(n) == [size |-> n, data |-> <<>>]
SplitInit ==
  /\ input = <<>> /\ splitStage = "idle"
  /\ lhs = 0 /\ rhs = 0 /\ counter = 0
  /\ tokens = NoTokens /\ splitBlocks = 0

-----------------------------------------------------------------------------
DelimiterAt(s, k) == s[k + 1] = DELIMITER
LhsOffset(s) == IF DelimiterAt(s, 0) THEN 1 ELSE 0
RhsOffset(s) == IF DelimiterAt(s, Len(s) - 1) THEN 1 ELSE 0
EndOf(s) == Len(s) - RhsOffset(s)
Delimiters(s) == {k \in LhsOffset(s) .. EndOf(s) - 1 : DelimiterAt(s, k)}
ArraySize(s) == 1 + Cardinality(Delimiters(s))
\* snprintf of n bytes, the terminating NUL included; of none, nothing is written.
Snprintf(s, from, n) ==
  IF n = 0 THEN UNWRITTEN ELSE SubSeq(s, from + 1, IF from + n - 1 < Len(s) THEN from + n - 1 ELSE Len(s))
Entries(n) == [size |-> n, data |-> [j \in 1 .. n |-> ABSENT]]

(* goto fail: rcutils_string_array_fini frees the first size entries *)
Stored(t) == Cardinality({j \in 1 .. t.size : t.data[j] # ABSENT})
FailSplit(t) ==
  /\ splitStage' = "BAD_ALLOC" /\ tokens' = NoTokens
  /\ splitBlocks' = splitBlocks - 1 - Stored(t)
  /\ UNCHANGED <<input, lhs, rhs, counter>>

StartSplit(s) ==
  /\ splitStage = "idle" /\ input' = s
  /\ IF s = <<>> THEN splitStage' = "OK" /\ UNCHANGED <<lhs, rhs, counter, tokens, splitBlocks>>
     ELSE /\ lhs' = LhsOffset(s) /\ rhs' = LhsOffset(s) /\ UNCHANGED counter
          /\ \/ splitStage' = "loop" /\ tokens' = Entries(ArraySize(s)) /\ splitBlocks' = splitBlocks + 1
             \/ splitStage' = "BAD_ALLOC" /\ tokens' = OnlySize(ArraySize(s)) /\ UNCHANGED splitBlocks

(* Between two consecutive delimiters there is no token: the array is        *)
(* diminished.                                                               *)
\* Mutant: the array keeps the size the delimiters suggest.
DropNothing == tokens' = tokens /\ UNCHANGED <<counter, splitBlocks>>
DropEntry ==
  /\ tokens' = [tokens EXCEPT !.size = @ - 1, !.data[tokens.size] = ABSENT]
  /\ UNCHANGED <<counter, splitBlocks>>
StoreToken ==
  /\ tokens' = [tokens EXCEPT !.data[counter + 1] = Snprintf(input, lhs, rhs - lhs + 1)]
  /\ counter' = counter + 1 /\ splitBlocks' = splitBlocks + 1
CutOrDrop == IF rhs - lhs < 1 THEN DropEntry ELSE StoreToken

NextCharacter ==
  /\ splitStage = "loop" /\ rhs < EndOf(input) /\ ~DelimiterAt(input, rhs)
  /\ rhs' = rhs + 1
  /\ UNCHANGED <<input, splitStage, lhs, counter, tokens, splitBlocks>>
AtDelimiter ==
  /\ splitStage = "loop" /\ rhs < EndOf(input) /\ DelimiterAt(input, rhs)
  /\ CutOrDrop
  /\ lhs' = rhs + 1 /\ rhs' = rhs + 1
  /\ UNCHANGED <<input, splitStage>>
AtDelimiterFails ==
  /\ splitStage = "loop" /\ rhs < EndOf(input) /\ DelimiterAt(input, rhs) /\ rhs - lhs >= 1
  /\ FailSplit([tokens EXCEPT !.size = counter])
TrailingToken ==
  /\ splitStage = "loop" /\ rhs >= EndOf(input)
  /\ CutOrDrop
  /\ splitStage' = "OK"
  /\ UNCHANGED <<input, lhs, rhs>>
TrailingTokenFails ==
  /\ splitStage = "loop" /\ rhs >= EndOf(input) /\ rhs - lhs >= 1
  /\ FailSplit(tokens)

(* rcutils_split_last: up to and behind the last delimiter; the delimiter    *)
(* before it is left out, too                                                *)
FoundLast(s) == IF Delimiters(s) = {} THEN Len(s) ELSE CHOOSE k \in Delimiters(s) : \A j \in Delimiters(s) : j <= k
InnerRhsOffset(s) == IF DelimiterAt(s, FoundLast(s) - 1) THEN 1 ELSE 0
Parts(s) ==
  IF FoundLast(s) = Len(s) THEN << Snprintf(s, LhsOffset(s), Len(s) - LhsOffset(s) + 1) >>
  ELSE << Snprintf(s, LhsOffset(s), FoundLast(s) + 1 - LhsOffset(s) - InnerRhsOffset(s)),
          Snprintf(s, FoundLast(s) + 1, Len(s) - FoundLast(s) - RhsOffset(s)) >>
SplitLast(s) ==
  /\ splitStage = "idle" /\ input' = s
  /\ \/ s = <<>> /\ splitStage' = "last" /\ UNCHANGED <<tokens, splitBlocks>>
     \/ /\ s # <<>> /\ splitStage' = "last"
        /\ tokens' = [size |-> Len(Parts(s)), data |-> Parts(s)]
        /\ splitBlocks' = splitBlocks + 1 + Len(Parts(s))
     \/ /\ s # <<>> /\ splitStage' = "BAD_ALLOC"
        /\ tokens' \in {OnlySize(Len(Parts(s))), NoTokens}
        /\ UNCHANGED splitBlocks
  /\ UNCHANGED <<lhs, rhs, counter>>

SplitNext ==
  \/ \E s \in Inputs : StartSplit(s) \/ SplitLast(s)
  \/ NextCharacter \/ AtDelimiter \/ AtDelimiterFails \/ TrailingToken \/ TrailingTokenFails
SplitSpec == SplitInit /\ [][SplitNext]_splitVars

-----------------------------------------------------------------------------
(* The tokens are the longest parts of the string without a delimiter, in    *)
(* order and none of them empty, however many delimiters there are in a row  *)
(* or at the ends; they and the array are all that is allocated, and nothing *)
(* is after a failure.                                                       *)
FreeOf(s, l, r) == \A k \in l .. r : s[k] # DELIMITER
RunEnds(s) == {r \in DOMAIN s : FreeOf(s, r, r) /\ (r < Len(s) => ~FreeOf(s, r + 1, r + 1))}
RunsUpTo(s, r) == Cardinality({q \in RunEnds(s) : q <= r})
NthEnd(s, n) == CHOOSE r \in RunEnds(s) : RunsUpTo(s, r) = n
StartOf(s, r) == CHOOSE l \in 1 .. r : FreeOf(s, l, r) /\ (l > 1 => ~FreeOf(s, l - 1, l - 1))
Runs(s) == [n \in 1 .. RunsUpTo(s, Len(s)) |-> SubSeq(s, StartOf(s, NthEnd(s, n)), NthEnd(s, n))]
TokensAreTheRuns ==
  /\ splitStage = "OK" => /\ SubSeq(tokens.data, 1, tokens.size) = Runs(input)
                          /\ splitBlocks = IF input = <<>> THEN 0 ELSE 1 + tokens.size
  /\ splitStage = "BAD_ALLOC" => splitBlocks = 0

(* split.h:48 says "Split a given string on the last occurrence of the       *)
(* specified delimiter": both parts are parts of the string.                 *)
LastPartsAreWritten == splitStage = "last" => \A j \in 1 .. tokens.size : tokens.data[j] # UNWRITTEN
=============================================================================
