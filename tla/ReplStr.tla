------------------------------ MODULE ReplStr ------------------------------
(***************************************************************************)
(* src/repl_str.c: rcutils_repl_str replaces every occurrence of a string  *)
(* by another.  It first collects the positions of the occurrences in a    *)
(* cache that grows as needed, then allocates the result and copies, one   *)
(* action per iteration of either loop.  Every allocation may fail.        *)
(***************************************************************************)
EXTENDS Integers, Sequences

CONSTANTS
  Subjects, Patterns, Replacements,  \* the arguments str, from and to
  CacheInc,                          \* cache_sz_inc, to begin with
  CacheIncFactor, CacheIncMax        \* cache_sz_inc_factor and cache_sz_inc_max

\* repl_str.h: the caller sees to it that the pattern is not empty
Texts == Subjects \union Patterns \union Replacements
TextChars == UNION {{s[k] : k \in DOMAIN s} : s \in Texts}
ASSUME PatternAssumption == Texts \subseteq Seq(TextChars) /\ <<>> \notin Patterns
ASSUME CacheAssumption ==
  CacheInc \in Nat \ {0} /\ CacheIncFactor \in Nat \ {0} /\ CacheIncMax \in Nat /\ CacheIncMax >= CacheInc

VARIABLES
  subject, pattern, replacement,
  replStage,     \* "idle", "search", "copy", "done" or "NULL" (the result)
  pstr,          \* the offset where the search goes on
  posCache,      \* the positions found
  cacheSize, cacheInc,
  copied,        \* the occurrences that have been replaced
  result,        \* the bytes written to the result so far
  retlen,        \* the length the result was allocated for
  replBlocks     \* blocks allocated and not freed

replVars == <<subject, pattern, replacement, replStage, pstr, posCache, cacheSize, cacheInc,
              copied, result, retlen, replBlocks>>

ReplInit ==
  /\ subject = <<>> /\ pattern = <<>> /\ replacement = <<>>
  /\ replStage = "idle" /\ pstr = 0 /\ posCache = <<>> /\ cacheSize = 0 /\ cacheInc = CacheInc
  /\ copied = 0 /\ result = <<>> /\ retlen = 0 /\ replBlocks = 0

\* strstr: the first occurrence of p in s at an offset or behind it
OccursAt(s, p, k) == k + Len(p) <= Len(s) /\ SubSeq(s, k + 1, k + Len(p)) = p
Matches(s, p, from) == {k \in from .. Len(s) : OccursAt(s, p, k)}
Strstr(s, p, from) == CHOOSE k \in Matches(s, p, from) : \A j \in Matches(s, p, from) : k <= j

StartReplace(s, p, t) ==
  /\ replStage = "idle" /\ replStage' = "search"
  /\ subject' = s /\ pattern' = p /\ replacement' = t
  /\ UNCHANGED <<pstr, posCache, cacheSize, cacheInc, copied, result, retlen, replBlocks>>

\* The cache is freed, if there is one, and what has been allocated is returned.
CacheBlocks == IF cacheSize > 0 THEN 1 ELSE 0
CacheIsFull == cacheSize < Len(posCache) + 1
\* Mutant: the search goes on behind the first character of the occurrence.
ResumeInside(found) == found + 1
Resume(found) == found + Len(pattern)
FindMatch ==
  /\ replStage = "search" /\ Matches(subject, pattern, pstr) # {}
  /\ LET found == Strstr(subject, pattern, pstr)
     IN posCache' = Append(posCache, found) /\ pstr' = Resume(found)
  /\ IF CacheIsFull
     THEN /\ cacheSize' = cacheSize + cacheInc
          /\ cacheInc' = IF cacheInc * CacheIncFactor > CacheIncMax THEN CacheIncMax ELSE cacheInc * CacheIncFactor
          /\ replBlocks' = replBlocks + 1 - CacheBlocks
     ELSE UNCHANGED <<cacheSize, cacheInc, replBlocks>>
  /\ UNCHANGED <<subject, pattern, replacement, replStage, copied, result, retlen>>
FindMatchFails ==
  /\ replStage = "search" /\ Matches(subject, pattern, pstr) # {} /\ CacheIsFull
  /\ replStage' = "NULL" /\ replBlocks' = replBlocks - CacheBlocks
  /\ UNCHANGED <<subject, pattern, replacement, pstr, posCache, cacheSize, cacheInc, copied, result, retlen>>

\* Without a match the string is copied as it is.
ResultLength == Len(subject) + (Len(replacement) - Len(pattern)) * Len(posCache)
AllocateResult ==
  /\ replStage = "search" /\ Matches(subject, pattern, pstr) = {}
  /\ retlen' = ResultLength
  /\ IF posCache = <<>>
     THEN replStage' = "done" /\ result' = subject /\ replBlocks' = replBlocks + 1
     ELSE replStage' = "copy" /\ result' = SubSeq(subject, 1, posCache[1]) /\ replBlocks' = replBlocks + 1
  /\ UNCHANGED <<subject, pattern, replacement, pstr, posCache, cacheSize, cacheInc, copied>>
AllocateResultFails ==
  /\ replStage = "search" /\ Matches(subject, pattern, pstr) = {}
  /\ replStage' = "NULL" /\ replBlocks' = replBlocks - CacheBlocks
  /\ UNCHANGED <<subject, pattern, replacement, pstr, posCache, cacheSize, cacheInc, copied, result, retlen>>

\* The replacement, and what is between this occurrence and the next one
ReplaceMatch ==
  /\ replStage = "copy" /\ copied < Len(posCache)
  /\ LET from == posCache[copied + 1] + Len(pattern)
         to == IF copied + 1 = Len(posCache) THEN Len(subject) ELSE posCache[copied + 2]
     IN result' = result \o replacement \o SubSeq(subject, from + 1, to)
  /\ copied' = copied + 1
  /\ UNCHANGED <<subject, pattern, replacement, replStage, pstr, posCache, cacheSize, cacheInc, retlen, replBlocks>>
ReturnResult ==
  /\ replStage = "copy" /\ copied = Len(posCache)
  /\ replStage' = "done" /\ replBlocks' = replBlocks - CacheBlocks
  /\ UNCHANGED <<subject, pattern, replacement, pstr, posCache, cacheSize, cacheInc, copied, result, retlen>>

ReplNext ==
  \/ \E s \in Subjects, p \in Patterns, t \in Replacements : StartReplace(s, p, t)
  \/ FindMatch \/ FindMatchFails \/ AllocateResult \/ AllocateResultFails
  \/ ReplaceMatch \/ ReturnResult
ReplSpec == ReplInit /\ [][ReplNext]_replVars

-----------------------------------------------------------------------------
(* What is left of the string from an offset on, with every occurrence       *)
(* replaced, found from left to right.                                       *)
Replaced[from \in 0 .. Len(subject)] ==
  IF Matches(subject, pattern, from) = {} THEN SubSeq(subject, from + 1, Len(subject))
  ELSE LET k == Strstr(subject, pattern, from)
       IN SubSeq(subject, from + 1, k) \o replacement \o Replaced[k + Len(pattern)]
(* The result is the string with every occurrence replaced; the search ends, *)
(* as it finds no more of them than the string has characters; the result    *)
(* never takes more than was allocated for it, the positions never more than *)
(* their cache has room for, and in the end the result is all that is        *)
(* allocated, or nothing is.                                                 *)
EveryMatchIsReplaced ==
  /\ Len(posCache) <= Len(subject)
  /\ Len(posCache) <= cacheSize
  /\ replStage \in {"copy", "done"} => Len(result) <= retlen
  /\ replStage = "done" => /\ result = Replaced[0]
                           /\ Len(result) = retlen /\ replBlocks = 1
  /\ replStage = "NULL" => replBlocks = 0
=============================================================================
