--------------------------- MODULE UtilitiesProofs --------------------------
(***************************************************************************)
(* What the utilities compute, for every input.                            *)
(***************************************************************************)
EXTENDS Split, ReplStr, TimeString, DirectorySize, LogFormat,
        FiniteSetTheorems, SequenceTheorems, WellFoundedInduction, TLAPS

(* rcutils_split.  Where the runs of a string end, and how many end before   *)
(* a position.                                                               *)
LEMMA RunEndsType ==
  ASSUME NEW s \in Seq(Characters)
  PROVE  RunEnds(s) \subseteq 1 .. Len(s) /\ Len(s) \in Nat /\ RunEnds(s) \subseteq Int
BY DEF RunEnds

LEMMA RunsUpToType ==
  ASSUME NEW s \in Seq(Characters), NEW r \in Int
  PROVE  IsFiniteSet({q \in RunEnds(s) : q <= r}) /\ RunsUpTo(s, r) \in Nat
<1>1. RunEnds(s) \subseteq 1 .. Len(s) /\ Len(s) \in Nat
  BY RunEndsType
<1>2. IsFiniteSet(1 .. Len(s))
  BY <1>1, FS_Interval
<1>3. IsFiniteSet({q \in RunEnds(s) : q <= r})
  BY <1>1, <1>2, FS_Subset
<1>4. QED
  BY <1>1, <1>3, FS_CardinalityType DEF RunsUpTo

LEMMA RunsAreCounted ==
  ASSUME NEW s \in Seq(Characters)
  PROVE  \A r \in Int : RunsUpTo(s, r) \in Nat
BY RunsUpToType

LEMMA NoRunBetween ==
  ASSUME NEW s \in Seq(Characters), NEW a \in Int, NEW b \in Int, a <= b,
         \A q \in RunEnds(s) : ~(a < q /\ q <= b)
  PROVE  RunsUpTo(s, b) = RunsUpTo(s, a)
<1>1. RunEnds(s) \subseteq Int
  BY RunEndsType
<1>2. {q \in RunEnds(s) : q <= b} = {q \in RunEnds(s) : q <= a}
  BY <1>1
<1>3. QED
  BY <1>2 DEF RunsUpTo

LEMMA OneRunMore ==
  ASSUME NEW s \in Seq(Characters), NEW a \in Int, NEW b \in RunEnds(s), a < b,
         \A q \in RunEnds(s) : a < q => b <= q
  PROVE  RunsUpTo(s, b) = RunsUpTo(s, a) + 1
<1>1. RunEnds(s) \subseteq Int
  BY RunEndsType
<1> DEFINE A == {q \in RunEnds(s) : q <= a}
<1>2. {q \in RunEnds(s) : q <= b} = A \union {b} /\ b \notin A
  BY <1>1
<1>3. IsFiniteSet(A)
  BY RunsUpToType
<1> HIDE DEF A
<1>4. Cardinality(A \union {b}) = Cardinality(A) + 1
  BY <1>2, <1>3, FS_AddElement
<1>5. QED
  BY <1>2, <1>4 DEF RunsUpTo, A

LEMMA RunsAreOrdered ==
  ASSUME NEW s \in Seq(Characters), NEW a \in Int, NEW b \in RunEnds(s), a < b
  PROVE  RunsUpTo(s, a) < RunsUpTo(s, b)
<1>1. RunEnds(s) \subseteq Int
  BY RunEndsType
<1> DEFINE A == {q \in RunEnds(s) : q <= a}
           B == {q \in RunEnds(s) : q <= b}
<1>2. A \union {b} \subseteq B /\ b \notin A
  BY <1>1
<1>3. IsFiniteSet(A) /\ IsFiniteSet(B) /\ Cardinality(A) \in Nat /\ Cardinality(B) \in Nat
  <2>1. b \in Int
    BY <1>1
  <2>2. QED
    BY <2>1, RunsUpToType, FS_CardinalityType
<1> HIDE DEF A, B
<1>4. Cardinality(A \union {b}) = Cardinality(A) + 1
  BY <1>2, <1>3, FS_AddElement
<1>5. Cardinality(A \union {b}) <= Cardinality(B)
  BY <1>2, <1>3, FS_Subset
<1>6. QED
  BY <1>3, <1>4, <1>5 DEF RunsUpTo, A, B

\* The run that ends at r is the one from l, if there is no delimiter between the
\* two and none could be added in front.
LEMMA RunEndingAt ==
  ASSUME NEW s \in Seq(Characters), NEW r \in RunEnds(s), NEW l \in 1 .. r,
         FreeOf(s, l, r), l > 1 => ~FreeOf(s, l - 1, l - 1)
  PROVE  RunsUpTo(s, r) \in DOMAIN Runs(s) /\ Runs(s)[RunsUpTo(s, r)] = SubSeq(s, l, r)
<1>1. r \in 1 .. Len(s) /\ r \in Int /\ Len(s) \in Nat /\ RunEnds(s) \subseteq Int
  BY RunEndsType
<1> DEFINE n == RunsUpTo(s, r)
<1>2. n \in Nat /\ RunsUpTo(s, Len(s)) \in Nat /\ RunsUpTo(s, 0) \in Nat
  BY <1>1, RunsAreCounted
<1>3. 1 <= n
  <2>1. 0 \in Int /\ 0 < r
    BY <1>1
  <2>2. RunsUpTo(s, 0) < RunsUpTo(s, r)
    BY ONLY s \in Seq(Characters), r \in RunEnds(s), <2>1, RunsAreOrdered
  <2>3. QED
    BY <1>2, <2>2
<1>4. n <= RunsUpTo(s, Len(s))
  <2>1. CASE \A q \in RunEnds(s) : ~(r < q /\ q <= Len(s))
    BY <1>1, <1>2, <2>1, NoRunBetween, SMTT(30)
  <2>2. CASE \E q \in RunEnds(s) : r < q /\ q <= Len(s)
    <3>1. PICK q \in RunEnds(s) : r < q /\ q <= Len(s)
      BY <2>2
    <3>2. {x \in RunEnds(s) : x <= r} \subseteq {x \in RunEnds(s) : x <= Len(s)}
      BY <1>1
    <3>3. IsFiniteSet({x \in RunEnds(s) : x <= Len(s)})
      BY <1>1, RunsUpToType
    <3>4. Cardinality({x \in RunEnds(s) : x <= r}) <= Cardinality({x \in RunEnds(s) : x <= Len(s)})
      BY ONLY <3>2, <3>3, FS_Subset
    <3>5. QED
      BY <3>4 DEF RunsUpTo
  <2>3. QED
    BY <2>1, <2>2
<1>5. \A q \in RunEnds(s) : RunsUpTo(s, q) = n => q = r
  <2> SUFFICES ASSUME NEW q \in RunEnds(s), q # r PROVE RunsUpTo(s, q) # n
    OBVIOUS
  <2>1. q \in Int /\ (q < r \/ r < q) /\ RunsUpTo(s, q) \in Nat
    BY <1>1, RunsAreCounted
  <2>2. q < r => RunsUpTo(s, q) < n
    BY <2>1, RunsAreOrdered
  <2>3. r < q => n < RunsUpTo(s, q)
    BY <1>1, RunsAreOrdered
  <2>4. QED
    BY <1>2, <2>1, <2>2, <2>3
<1>6. NthEnd(s, n) = r
  BY <1>5 DEF NthEnd
<1>7. StartOf(s, r) = l
  <2>1. ASSUME NEW m \in 1 .. r, FreeOf(s, m, r), m > 1 => ~FreeOf(s, m - 1, m - 1) PROVE m = l
    <3>1. CASE m < l
      <4>1. l - 1 \in m .. r /\ l > 1
        BY <1>1, <3>1
      <4>2. FreeOf(s, l - 1, l - 1)
        BY <2>1, <4>1 DEF FreeOf
      <4>3. QED
        BY <4>1, <4>2
    <3>2. CASE l < m
      <4>1. m - 1 \in l .. r /\ m > 1
        BY <1>1, <3>2
      <4>2. FreeOf(s, m - 1, m - 1)
        BY <4>1 DEF FreeOf
      <4>3. QED
        BY <2>1, <4>1, <4>2
    <3>3. QED
      BY <1>1, <3>1, <3>2
  <2>2. QED
    BY <2>1 DEF StartOf
<1> HIDE DEF n
<1>8. n \in 1 .. RunsUpTo(s, Len(s))
  BY <1>2, <1>3, <1>4
<1>9. QED
  BY <1>6, <1>7, <1>8 DEF Runs, n

\* The delimiters the loop has still to come to.
Left(s, k) == Cardinality({d \in Delimiters(s) : k <= d})

LEMMA OffsetsFit ==
  ASSUME NEW length \in Nat, length >= 1, NEW l \in {0, 1}, NEW r \in {0, 1}
  PROVE  /\ length - r \in Nat /\ length - r <= length /\ l <= length
         /\ l > length - r => length = 1
OBVIOUS

LEMMA OffsetFacts ==
  ASSUME NEW s \in Seq(Characters), s # <<>>
  PROVE  /\ Len(s) \in Nat /\ Len(s) >= 1 /\ LhsOffset(s) \in {0, 1} /\ RhsOffset(s) \in {0, 1}
         /\ EndOf(s) \in Nat /\ EndOf(s) <= Len(s) /\ LhsOffset(s) <= Len(s)
         /\ LhsOffset(s) = 1 => s[1] = DELIMITER
         /\ LhsOffset(s) > EndOf(s) => Len(s) = 1
         /\ \A k \in EndOf(s) + 1 .. Len(s) : s[k] = DELIMITER
<1>1. Len(s) \in Nat /\ Len(s) >= 1
  OBVIOUS
<1>2. /\ LhsOffset(s) = (IF s[1] = DELIMITER THEN 1 ELSE 0)
      /\ RhsOffset(s) = (IF s[Len(s)] = DELIMITER THEN 1 ELSE 0)
  <2>1. 0 + 1 = 1 /\ Len(s) - 1 + 1 = Len(s)
    BY <1>1
  <2>2. QED
    BY <2>1 DEF LhsOffset, RhsOffset, DelimiterAt
<1>3. EndOf(s) = Len(s) - RhsOffset(s)
  BY DEF EndOf
<1>4. ASSUME NEW k \in EndOf(s) + 1 .. Len(s) PROVE s[k] = DELIMITER
  <2>1. k = Len(s) /\ RhsOffset(s) = 1
    BY <1>1, <1>2, <1>3
  <2>2. QED
    BY <1>2, <2>1
<1>5. LhsOffset(s) \in {0, 1} /\ RhsOffset(s) \in {0, 1} /\ (LhsOffset(s) = 1 => s[1] = DELIMITER)
  BY <1>2
<1>6. /\ EndOf(s) \in Nat /\ EndOf(s) <= Len(s) /\ LhsOffset(s) <= Len(s)
      /\ LhsOffset(s) > EndOf(s) => Len(s) = 1
  BY <1>1, <1>3, <1>5, OffsetsFit
<1>7. QED
  BY <1>1, <1>4, <1>5, <1>6

LEMMA LeftFacts ==
  ASSUME NEW s \in Seq(Characters), s # <<>>
  PROVE  /\ \A k \in Nat : Left(s, k) \in Nat
         /\ ArraySize(s) = 1 + Left(s, LhsOffset(s))
         /\ \A k \in Nat : k >= EndOf(s) => Left(s, k) = 0
         /\ \A k \in Nat : k \notin Delimiters(s) => Left(s, k + 1) = Left(s, k)
         /\ \A k \in Delimiters(s) : Left(s, k) = Left(s, k + 1) + 1
<1>1. Delimiters(s) \subseteq LhsOffset(s) .. EndOf(s) - 1 /\ Delimiters(s) \subseteq Nat
  BY OffsetFacts DEF Delimiters
<1>2. LhsOffset(s) \in Int /\ EndOf(s) \in Int /\ EndOf(s) - 1 \in Int
  BY OffsetFacts
<1>3. IsFiniteSet(Delimiters(s))
  BY <1>1, <1>2, FS_Interval, FS_Subset
<1>4. \A k \in Nat : IsFiniteSet({d \in Delimiters(s) : k <= d}) /\ Left(s, k) \in Nat
  <2> SUFFICES ASSUME NEW k \in Nat PROVE IsFiniteSet({d \in Delimiters(s) : k <= d}) /\ Left(s, k) \in Nat
    OBVIOUS
  <2>1. IsFiniteSet({d \in Delimiters(s) : k <= d})
    <3>1. {d \in Delimiters(s) : k <= d} \in SUBSET Delimiters(s)
      OBVIOUS
    <3>2. QED
      BY ONLY <1>3, <3>1, FS_Subset
  <2>2. QED
    BY <2>1, FS_CardinalityType DEF Left
<1>5. ArraySize(s) = 1 + Left(s, LhsOffset(s))
  <2>1. {d \in Delimiters(s) : LhsOffset(s) <= d} = Delimiters(s)
    BY <1>1, <1>2
  <2>2. QED
    BY <2>1 DEF ArraySize, Left
<1>6. ASSUME NEW k \in Nat, k >= EndOf(s) PROVE Left(s, k) = 0
  <2>1. {d \in Delimiters(s) : k <= d} = {}
    BY <1>1, <1>2, <1>6
  <2>2. QED
    BY <2>1, FS_EmptySet DEF Left
<1>7. ASSUME NEW k \in Nat, k \notin Delimiters(s) PROVE Left(s, k + 1) = Left(s, k)
  <2>1. {d \in Delimiters(s) : k <= d} = {d \in Delimiters(s) : k + 1 <= d}
    BY <1>1, <1>7
  <2>2. QED
    BY <2>1 DEF Left
<1>8. ASSUME NEW k \in Delimiters(s) PROVE Left(s, k) = Left(s, k + 1) + 1
  <2> DEFINE A == {d \in Delimiters(s) : k + 1 <= d}
  <2>1. {d \in Delimiters(s) : k <= d} = A \union {k} /\ k \notin A /\ k + 1 \in Nat
    BY <1>1
  <2>2. IsFiniteSet(A)
    BY <1>4, <2>1, Zenon
  <2> HIDE DEF A
  <2>3. Cardinality(A \union {k}) = Cardinality(A) + 1
    BY <2>1, <2>2, FS_AddElement
  <2>4. QED
    BY <2>1, <2>3 DEF Left, A
<1>9. QED
  BY <1>4, <1>5, <1>6, <1>7, <1>8

\* The loop of rcutils_split: the token it is in has no delimiter and begins behind
\* one; the entries that are written are the runs that end before it; and there
\* is an entry left for each delimiter to come and one for the end.
TokensSoFar(t, n) ==
  /\ DOMAIN t = {"size", "data"}
  /\ t.data \in Seq(Seq(Characters) \union {ABSENT}) /\ t.size \in Nat /\ t.size <= Len(t.data)
  /\ n \in Nat /\ n <= t.size
  /\ \A j \in 1 .. n : t.data[j] = Runs(input)[j] /\ t.data[j] # ABSENT
  /\ \A j \in n + 1 .. t.size : t.data[j] = ABSENT
SplitLoop ==
  /\ input \in Seq(Characters) /\ input # <<>>
  /\ lhs \in Nat /\ rhs \in Nat /\ LhsOffset(input) <= lhs /\ lhs <= rhs /\ rhs <= Len(input)
  /\ rhs <= EndOf(input) \/ lhs = rhs
  /\ FreeOf(input, lhs + 1, rhs) /\ (lhs > 0 => input[lhs] = DELIMITER)
  /\ TokensSoFar(tokens, counter) /\ counter = RunsUpTo(input, lhs)
  /\ tokens.size = counter + 1 + Left(input, rhs)
  /\ splitBlocks = 1 + counter
SplitInv ==
  /\ splitStage = "idle" => lhs = 0 /\ rhs = 0 /\ counter = 0 /\ tokens = NoTokens /\ splitBlocks = 0
  /\ splitStage = "loop" => SplitLoop
  /\ TokensAreTheRuns

\* The token that ends at a run's end is that run.
LEMMA TokenIsARun ==
  ASSUME SplitLoop, lhs < rhs, rhs \in RunEnds(input)
  PROVE  /\ RunsUpTo(input, rhs) = counter + 1
         /\ Snprintf(input, lhs, rhs - lhs + 1) = Runs(input)[counter + 1]
         /\ Snprintf(input, lhs, rhs - lhs + 1) \in Seq(Characters) \ {ABSENT}
<1>1. input \in Seq(Characters) /\ lhs \in Nat /\ rhs \in Nat /\ rhs <= Len(input) /\ Len(input) \in Nat
  BY DEF SplitLoop
<1>2. \A q \in RunEnds(input) : lhs < q => rhs <= q
  <2> SUFFICES ASSUME NEW q \in RunEnds(input), lhs < q, q < rhs PROVE FALSE
    BY <1>1, RunEndsType
  <2>1. q \in Int /\ q < Len(input) /\ q + 1 \in lhs + 1 .. rhs
    BY <1>1, RunEndsType
  <2>2. ~FreeOf(input, q + 1, q + 1)
    BY <2>1 DEF RunEnds
  <2>3. QED
    BY <2>1, <2>2 DEF FreeOf, SplitLoop
<1>3. RunsUpTo(input, rhs) = counter + 1
  BY <1>1, <1>2, OneRunMore DEF SplitLoop
<1>4. /\ lhs + 1 \in 1 .. rhs /\ FreeOf(input, lhs + 1, rhs)
      /\ lhs + 1 > 1 => ~FreeOf(input, lhs + 1 - 1, lhs + 1 - 1)
  BY <1>1 DEF SplitLoop, FreeOf
<1>5. Runs(input)[RunsUpTo(input, rhs)] = SubSeq(input, lhs + 1, rhs)
  BY <1>1, <1>4, RunEndingAt
<1>6. Snprintf(input, lhs, rhs - lhs + 1) = SubSeq(input, lhs + 1, rhs)
  <2>1. rhs - lhs + 1 # 0 /\ lhs + (rhs - lhs + 1) - 1 = rhs
    BY <1>1
  <2>2. CASE rhs < Len(input)
    BY <2>1, <2>2 DEF Snprintf
  <2>3. CASE rhs = Len(input)
    BY <2>1, <2>3 DEF Snprintf
  <2>4. QED
    BY <1>1, <2>2, <2>3
<1>7. \A k \in lhs + 1 .. rhs : input[k] \in Characters
  BY <1>1
<1>8. SubSeq(input, lhs + 1, rhs) \in Seq(Characters)
  BY <1>1, <1>4, <1>7, SubSeqProperties
<1>9. QED
  BY <1>3, <1>5, <1>6, <1>8, SplitAssumption

\* An entry is written, or the last one is given up.
LEMMA TokenStored ==
  ASSUME NEW t, NEW n, TokensSoFar(t, n), n < t.size, NEW r \in Seq(Characters) \ {ABSENT},
         r = Runs(input)[n + 1]
  PROVE  /\ TokensSoFar([t EXCEPT !.data[n + 1] = r], n + 1)
         /\ [t EXCEPT !.data[n + 1] = r].size = t.size
<1> DEFINE u == [t EXCEPT !.data[n + 1] = r]
<1>1. /\ DOMAIN t = {"size", "data"} /\ t.data \in Seq(Seq(Characters) \union {ABSENT})
      /\ t.size \in Nat /\ t.size <= Len(t.data) /\ n \in Nat /\ Len(t.data) \in Nat
      /\ \A j \in 1 .. n : t.data[j] = Runs(input)[j] /\ t.data[j] # ABSENT
      /\ \A j \in n + 1 .. t.size : t.data[j] = ABSENT
  BY DEF TokensSoFar
<1>2. DOMAIN u = {"size", "data"}
  BY <1>1
<1>3. u.size = t.size /\ u.data = [t.data EXCEPT ![n + 1] = r]
  BY <1>1
<1>4. n + 1 \in 1 .. Len(t.data)
  BY <1>1
<1>5. u.data \in Seq(Seq(Characters) \union {ABSENT}) /\ Len(u.data) = Len(t.data)
  BY <1>1, <1>3, <1>4
<1>6. u.data[n + 1] = r /\ \A j \in 1 .. Len(t.data) : j # n + 1 => u.data[j] = t.data[j]
  BY <1>1, <1>3, <1>4
<1> HIDE DEF u
<1>7. \A j \in 1 .. n + 1 : u.data[j] = Runs(input)[j] /\ u.data[j] # ABSENT
  <2> SUFFICES ASSUME NEW j \in 1 .. n + 1 PROVE u.data[j] = Runs(input)[j] /\ u.data[j] # ABSENT
    OBVIOUS
  <2>1. CASE j = n + 1
    BY <1>6, <2>1
  <2>2. CASE j # n + 1
    <3>1. j \in 1 .. n /\ j \in 1 .. Len(t.data)
      BY <1>1, <1>4, <2>2
    <3>2. QED
      BY <1>1, <1>6, <2>2, <3>1
  <2>3. QED
    BY <2>1, <2>2
<1>8. \A j \in n + 1 + 1 .. u.size : u.data[j] = ABSENT
  BY <1>1, <1>3, <1>6
<1>9. TokensSoFar(u, n + 1)
  BY <1>1, <1>2, <1>3, <1>5, <1>7, <1>8 DEF TokensSoFar
<1>10. QED
  BY <1>3, <1>9 DEF u

LEMMA EntryDropped ==
  ASSUME NEW t, NEW n, TokensSoFar(t, n), n < t.size
  PROVE  /\ TokensSoFar([t EXCEPT !.size = @ - 1, !.data[t.size] = ABSENT], n)
         /\ [t EXCEPT !.size = @ - 1, !.data[t.size] = ABSENT].size = t.size - 1
<1> DEFINE u == [t EXCEPT !.size = @ - 1, !.data[t.size] = ABSENT]
<1>1. /\ DOMAIN t = {"size", "data"} /\ t.data \in Seq(Seq(Characters) \union {ABSENT})
      /\ t.size \in Nat /\ t.size <= Len(t.data) /\ n \in Nat /\ Len(t.data) \in Nat
      /\ \A j \in 1 .. n : t.data[j] = Runs(input)[j] /\ t.data[j] # ABSENT
      /\ \A j \in n + 1 .. t.size : t.data[j] = ABSENT
  BY DEF TokensSoFar
<1>2. DOMAIN u = {"size", "data"}
  BY <1>1
<1>3. u.size = t.size - 1 /\ u.data = [t.data EXCEPT ![t.size] = ABSENT]
  BY <1>1
<1>4. t.size \in 1 .. Len(t.data)
  BY <1>1
<1>5. u.data = t.data
  BY <1>1, <1>3, <1>4
<1> HIDE DEF u
<1>6. TokensSoFar(u, n)
  BY <1>1, <1>2, <1>3, <1>5 DEF TokensSoFar
<1>7. QED
  BY <1>3, <1>6 DEF u

\* What is freed after a failure: the entries that are written.
LEMMA WrittenEntries ==
  ASSUME NEW t, NEW n, TokensSoFar(t, n)
  PROVE  Stored(t) = n /\ Stored([t EXCEPT !.size = n]) = n
<1>1. /\ DOMAIN t = {"size", "data"} /\ t.size \in Nat /\ n \in Nat /\ n <= t.size
      /\ \A j \in 1 .. n : t.data[j] # ABSENT
      /\ \A j \in n + 1 .. t.size : t.data[j] = ABSENT
  BY DEF TokensSoFar
<1>2. {j \in 1 .. t.size : t.data[j] # ABSENT} = 1 .. n
  BY <1>1
<1>3. [t EXCEPT !.size = n].size = n /\ [t EXCEPT !.size = n].data = t.data
  BY <1>1
<1>4. {j \in 1 .. n : t.data[j] # ABSENT} = 1 .. n
  BY <1>1
<1>5. Cardinality(1 .. n) = n
  <2>1. Cardinality(1 .. n) = IF 1 > n THEN 0 ELSE n - 1 + 1
    BY ONLY <1>1, 1 \in Int, n \in Int, FS_Interval
  <2>2. QED
    BY <1>1, <2>1
<1>6. QED
  BY <1>2, <1>3, <1>4, <1>5 DEF Stored

\* The step of the loop at a delimiter, or behind the last character: with the
\* token stored or the entry dropped, the entries are the runs up to rhs.
LEMMA CutOrDropStep ==
  ASSUME SplitLoop, CutOrDrop, input' = input,
         rhs = EndOf(input) \/ lhs = rhs \/ (rhs < Len(input) /\ input[rhs + 1] = DELIMITER)
  PROVE  /\ TokensSoFar(tokens', counter') /\ counter' = RunsUpTo(input, rhs)
         /\ tokens'.size - counter' = tokens.size - counter - 1 /\ splitBlocks' = 1 + counter'
<1>1. /\ input \in Seq(Characters) /\ input # <<>> /\ Len(input) \in Nat
      /\ lhs \in Nat /\ rhs \in Nat /\ lhs <= rhs /\ rhs <= Len(input)
      /\ TokensSoFar(tokens, counter) /\ counter \in Nat /\ tokens.size \in Nat
      /\ counter = RunsUpTo(input, lhs) /\ splitBlocks = 1 + counter
  BY DEF SplitLoop, TokensSoFar
<1>2. counter < tokens.size
  BY <1>1, LeftFacts, SMTT(30) DEF SplitLoop
<1>3. CASE lhs = rhs
  <2>1. DropEntry
    BY <1>1, <1>3 DEF CutOrDrop
  <2>2. counter' = counter /\ splitBlocks' = splitBlocks
        /\ tokens' = [tokens EXCEPT !.size = @ - 1, !.data[tokens.size] = ABSENT]
    BY <2>1 DEF DropEntry
  <2>3. TokensSoFar([tokens EXCEPT !.size = @ - 1, !.data[tokens.size] = ABSENT], counter)
        /\ [tokens EXCEPT !.size = @ - 1, !.data[tokens.size] = ABSENT].size = tokens.size - 1
    BY <1>1, <1>2, EntryDropped
  <2>4. QED
    BY <1>1, <1>3, <2>2, <2>3
<1>4. CASE lhs < rhs
  <2> DEFINE r == Snprintf(input, lhs, rhs - lhs + 1)
  <2>1. rhs \in RunEnds(input)
    <3>1. rhs \in DOMAIN input /\ FreeOf(input, rhs, rhs)
      BY <1>1, <1>4 DEF SplitLoop, FreeOf
    <3>2. rhs < Len(input) => ~FreeOf(input, rhs + 1, rhs + 1)
      <4>1. CASE rhs = EndOf(input)
        <5> SUFFICES ASSUME rhs < Len(input) PROVE ~FreeOf(input, rhs + 1, rhs + 1)
          OBVIOUS
        <5>1. \A k \in EndOf(input) + 1 .. Len(input) : input[k] = DELIMITER
          BY <1>1, OffsetFacts
        <5>2. rhs + 1 \in EndOf(input) + 1 .. Len(input) /\ rhs + 1 \in rhs + 1 .. rhs + 1
          BY <1>1, <4>1
        <5>3. input[rhs + 1] = DELIMITER
          BY <5>1, <5>2, Zenon
        <5>4. QED
          BY <5>2, <5>3, Zenon DEF FreeOf
      <4>2. CASE rhs < Len(input) /\ input[rhs + 1] = DELIMITER
        BY <1>1, <4>2 DEF FreeOf
      <4>3. lhs # rhs
        BY <1>1, <1>4
      <4>4. QED
        BY <4>1, <4>2, <4>3
    <3>3. QED
      BY <3>1, <3>2 DEF RunEnds
  <2>2. /\ RunsUpTo(input, rhs) = counter + 1
        /\ r = Runs(input)[counter + 1] /\ r \in Seq(Characters) \ {ABSENT}
    BY <1>4, <2>1, TokenIsARun
  <2>3. StoreToken
    BY <1>1, <1>4 DEF CutOrDrop
  <2> HIDE DEF r
  <2>4. counter' = counter + 1 /\ splitBlocks' = splitBlocks + 1
        /\ tokens' = [tokens EXCEPT !.data[counter + 1] = r]
    BY <2>3 DEF StoreToken, r
  <2>5. TokensSoFar([tokens EXCEPT !.data[counter + 1] = r], counter + 1)
        /\ [tokens EXCEPT !.data[counter + 1] = r].size = tokens.size
    BY <1>1, <1>2, <2>2, TokenStored, SMTT(30)
  <2>6. QED
    BY <1>1, <2>2, <2>4, <2>5
<1>5. QED
  BY <1>1, <1>3, <1>4

\* The two ways in: nothing has been cut, and every entry is there.
LEMMA LoopStarts ==
  ASSUME NEW s \in Inputs, s # <<>>, StartSplit(s), SplitInv, splitStage' = "loop"
  PROVE  SplitLoop'
<1>1. /\ s \in Seq(Characters) /\ input' = s /\ lhs' = LhsOffset(s) /\ rhs' = LhsOffset(s)
      /\ counter' = 0 /\ tokens' = Entries(ArraySize(s)) /\ splitBlocks' = 1
  BY SplitAssumption DEF StartSplit, SplitInv
<1>2. /\ Len(s) \in Nat /\ LhsOffset(s) \in Nat /\ LhsOffset(s) <= 1 /\ LhsOffset(s) <= Len(s)
      /\ LhsOffset(s) > 0 => s[LhsOffset(s)] = DELIMITER
  BY <1>1, OffsetFacts
<1>3. ArraySize(s) = 1 + Left(s, LhsOffset(s)) /\ Left(s, LhsOffset(s)) \in Nat
  BY <1>1, <1>2, LeftFacts
<1>4. RunsUpTo(s, LhsOffset(s)) = 0
  <2>1. ASSUME NEW q \in RunEnds(s), q <= LhsOffset(s) PROVE FALSE
    <3>1. q \in 1 .. Len(s)
      BY <1>1, RunEndsType
    <3>2. q = 1 /\ LhsOffset(s) = 1
      BY <1>2, <2>1, <3>1
    <3>3. s[1] = DELIMITER
      BY <1>2, <3>2
    <3>4. s[1] # DELIMITER
      BY <3>2 DEF RunEnds, FreeOf
    <3>5. QED
      BY <3>3, <3>4
  <2>2. {q \in RunEnds(s) : q <= LhsOffset(s)} = {}
    BY <2>1
  <2>3. QED
    BY <2>2, FS_EmptySet DEF RunsUpTo
<1> DEFINE n == ArraySize(s)
<1>5. n \in Nat
  BY <1>3
<1> HIDE DEF n
<1>6. /\ tokens'.size = n /\ tokens'.data = [j \in 1 .. n |-> ABSENT]
      /\ DOMAIN tokens' = {"size", "data"}
  BY <1>1 DEF Entries, n
<1>7. /\ tokens'.data \in Seq(Seq(Characters) \union {ABSENT}) /\ Len(tokens'.data) = n
      /\ \A j \in 1 .. n : tokens'.data[j] = ABSENT
  BY <1>5, <1>6
<1>8. TokensSoFar(tokens, counter)'
  BY <1>1, <1>5, <1>6, <1>7 DEF TokensSoFar
<1>9. FreeOf(s, LhsOffset(s) + 1, LhsOffset(s))
  BY <1>2 DEF FreeOf
<1>10. n = 0 + 1 + Left(s, LhsOffset(s))
  BY <1>3 DEF n
<1>11. QED
  BY <1>1, <1>2, <1>4, <1>6, <1>8, <1>9, <1>10 DEF SplitLoop

LEMMA EmptyHasNoRuns ==
  Runs(<<>>) = <<>>
<1>1. RunEnds(<<>>) = {}
  BY DEF RunEnds
<1>2. RunsUpTo(<<>>, Len(<<>>)) = 0
  <2>1. {q \in RunEnds(<<>>) : q <= Len(<<>>)} = {}
    BY <1>1
  <2>2. QED
    BY <2>1, FS_EmptySet DEF RunsUpTo
<1>3. QED
  BY <1>2 DEF Runs

LEMMA StartSplitKeeps ==
  ASSUME NEW s \in Inputs, StartSplit(s), SplitInv
  PROVE  SplitInv'
<1>1. splitStage = "idle" /\ input' = s /\ tokens = NoTokens /\ splitBlocks = 0
  BY DEF StartSplit, SplitInv
<1>2. CASE s = <<>>
  <2>1. splitStage' = "OK" /\ tokens' = NoTokens /\ splitBlocks' = 0 /\ input' = <<>>
    BY <1>1, <1>2 DEF StartSplit
  <2>2. SubSeq(tokens'.data, 1, tokens'.size) = <<>>
    BY <2>1 DEF NoTokens
  <2>3. QED
    BY <2>1, <2>2, EmptyHasNoRuns DEF SplitInv, TokensAreTheRuns
<1>3. CASE s # <<>>
  <2>1. CASE splitStage' = "loop"
    BY <1>3, <2>1, LoopStarts DEF SplitInv, TokensAreTheRuns
  <2>2. CASE splitStage' = "BAD_ALLOC" /\ splitBlocks' = splitBlocks
    BY <1>1, <2>2 DEF SplitInv, TokensAreTheRuns
  <2>3. QED
    BY <1>3, <2>1, <2>2 DEF StartSplit
<1>4. QED
  BY <1>2, <1>3

LEMMA SplitLastKeeps ==
  ASSUME NEW s \in Inputs, SplitLast(s), SplitInv
  PROVE  SplitInv'
<1>1. splitBlocks = 0
  BY DEF SplitLast, SplitInv
<1>2. splitStage' = "last" \/ (splitStage' = "BAD_ALLOC" /\ splitBlocks' = splitBlocks)
  BY DEF SplitLast
<1>3. QED
  BY <1>1, <1>2 DEF SplitInv, TokensAreTheRuns

LEMMA NextCharacterKeeps ==
  ASSUME NextCharacter, SplitInv
  PROVE  SplitInv'
<1>1. SplitLoop /\ splitStage' = "loop" /\ rhs' = rhs + 1
      /\ input' = input /\ lhs' = lhs /\ counter' = counter /\ tokens' = tokens /\ splitBlocks' = splitBlocks
  BY DEF NextCharacter, SplitInv
<1>2. /\ input \in Seq(Characters) /\ input # <<>> /\ Len(input) \in Nat /\ EndOf(input) \in Nat
      /\ EndOf(input) <= Len(input) /\ lhs \in Nat /\ rhs \in Nat /\ lhs <= rhs /\ rhs < EndOf(input)
      /\ input[rhs + 1] # DELIMITER
  BY <1>1, OffsetFacts DEF SplitLoop, NextCharacter, DelimiterAt
<1>3. Left(input, rhs + 1) = Left(input, rhs)
  <2>1. rhs \notin Delimiters(input)
    BY <1>2 DEF Delimiters, DelimiterAt
  <2>2. QED
    BY <1>2, <2>1, LeftFacts
<1>4. FreeOf(input, lhs + 1, rhs + 1)
  <2> SUFFICES ASSUME NEW k \in lhs + 1 .. rhs + 1 PROVE input[k] # DELIMITER
    BY DEF FreeOf
  <2>1. k = rhs + 1 \/ k \in lhs + 1 .. rhs
    BY <1>2
  <2>2. QED
    BY <1>1, <1>2, <2>1 DEF SplitLoop, FreeOf
<1>5. rhs + 1 \in Nat /\ lhs <= rhs + 1 /\ rhs + 1 <= Len(input) /\ rhs + 1 <= EndOf(input)
  BY <1>2
<1>6. TokensSoFar(tokens, counter)'
  BY <1>1 DEF SplitLoop, TokensSoFar
<1>7. SplitLoop'
  BY <1>1, <1>3, <1>4, <1>5, <1>6 DEF SplitLoop
<1>8. QED
  BY <1>1, <1>7 DEF SplitInv, TokensAreTheRuns

LEMMA AtDelimiterKeeps ==
  ASSUME AtDelimiter, SplitInv
  PROVE  SplitInv'
<1>1. SplitLoop /\ splitStage' = "loop" /\ rhs' = rhs + 1 /\ lhs' = rhs + 1 /\ input' = input /\ CutOrDrop
  BY DEF AtDelimiter, SplitInv
<1>2. /\ input \in Seq(Characters) /\ input # <<>> /\ Len(input) \in Nat /\ EndOf(input) \in Nat
      /\ EndOf(input) <= Len(input) /\ lhs \in Nat /\ rhs \in Nat /\ lhs <= rhs /\ rhs < EndOf(input)
      /\ LhsOffset(input) \in {0, 1} /\ LhsOffset(input) <= lhs /\ input[rhs + 1] = DELIMITER
      /\ counter \in Nat /\ tokens.size = counter + 1 + Left(input, rhs)
  BY <1>1, OffsetFacts DEF SplitLoop, TokensSoFar, AtDelimiter, DelimiterAt
<1>3. /\ TokensSoFar(tokens', counter') /\ counter' = RunsUpTo(input, rhs)
      /\ tokens'.size - counter' = tokens.size - counter - 1 /\ splitBlocks' = 1 + counter'
  <2>1. rhs < Len(input)
    BY <1>2
  <2>2. QED
    BY <1>1, <1>2, <2>1, CutOrDropStep
<1>4. Left(input, rhs) = Left(input, rhs + 1) + 1 /\ Left(input, rhs + 1) \in Nat
  <2>1. rhs \in Delimiters(input)
    BY <1>2 DEF Delimiters, DelimiterAt
  <2>2. QED
    BY <1>2, <2>1, LeftFacts
<1>5. RunsUpTo(input, rhs + 1) = RunsUpTo(input, rhs)
  <2>1. \A q \in RunEnds(input) : ~(rhs < q /\ q <= rhs + 1)
    <3> SUFFICES ASSUME NEW q \in RunEnds(input), rhs < q, q <= rhs + 1 PROVE FALSE
      OBVIOUS
    <3>1. q = rhs + 1
      BY <1>2, RunEndsType
    <3>2. QED
      BY <1>2, <3>1 DEF RunEnds, FreeOf
  <2>2. rhs \in Int /\ rhs + 1 \in Int /\ rhs <= rhs + 1
    BY <1>2
  <2>3. QED
    BY <1>2, <2>1, <2>2, NoRunBetween
<1>6. TokensSoFar(tokens, counter)' /\ counter' \in Nat /\ tokens'.size \in Nat
  BY <1>1, <1>3 DEF TokensSoFar
<1>7. tokens'.size = counter' + 1 + Left(input, rhs + 1)
  <2> DEFINE a == tokens'.size
             b == counter'
             c == tokens.size
             d == counter
             l == Left(input, rhs + 1)
  <2>1. a \in Int /\ b \in Int /\ d \in Int /\ l \in Int /\ c = d + 1 + (l + 1) /\ a - b = c - d - 1
    BY <1>2, <1>3, <1>4, <1>6
  <2> HIDE DEF a, b, c, d, l
  <2>2. a = b + 1 + l
    BY <2>1
  <2>3. QED
    BY <2>2 DEF a, b, l
<1>8. FreeOf(input, rhs + 1 + 1, rhs + 1)
  BY <1>2 DEF FreeOf
<1>9. rhs + 1 \in Nat /\ LhsOffset(input) <= rhs + 1 /\ rhs + 1 <= Len(input) /\ rhs + 1 <= rhs + 1
  BY <1>2
<1>10. SplitLoop'
  BY <1>1, <1>2, <1>3, <1>5, <1>6, <1>7, <1>8, <1>9 DEF SplitLoop
<1>11. QED
  BY <1>1, <1>10 DEF SplitInv, TokensAreTheRuns

LEMMA TrailingTokenKeeps ==
  ASSUME TrailingToken, SplitInv
  PROVE  SplitInv'
<1>1. SplitLoop /\ splitStage' = "OK" /\ input' = input /\ CutOrDrop
  BY DEF TrailingToken, SplitInv
<1>2. /\ input \in Seq(Characters) /\ input # <<>> /\ Len(input) \in Nat /\ EndOf(input) \in Nat
      /\ rhs \in Nat /\ rhs >= EndOf(input) /\ rhs <= Len(input) /\ (rhs <= EndOf(input) \/ lhs = rhs)
      /\ counter \in Nat /\ tokens.size = counter + 1 + Left(input, rhs)
  BY <1>1, OffsetFacts DEF SplitLoop, TokensSoFar, TrailingToken
<1>3. rhs = EndOf(input) \/ lhs = rhs
  BY <1>2
<1>4. /\ TokensSoFar(tokens', counter') /\ counter' = RunsUpTo(input, rhs)
      /\ tokens'.size - counter' = tokens.size - counter - 1 /\ splitBlocks' = 1 + counter'
  BY <1>1, <1>3, CutOrDropStep
<1>5. Left(input, rhs) = 0
  BY <1>2, LeftFacts
<1>6. /\ tokens'.size \in Nat /\ counter' \in Nat /\ tokens'.size <= Len(tokens'.data)
      /\ tokens'.data \in Seq(Seq(Characters) \union {ABSENT})
      /\ \A j \in 1 .. counter' : tokens'.data[j] = Runs(input)[j]
  BY <1>4 DEF TokensSoFar
<1>7. tokens'.size = counter'
  BY <1>2, <1>4, <1>5, <1>6
<1>8. RunsUpTo(input, Len(input)) = RunsUpTo(input, rhs)
  <2>1. ASSUME NEW q \in RunEnds(input), rhs < q, q <= Len(input) PROVE FALSE
    <3>1. q \in EndOf(input) + 1 .. Len(input)
      BY <1>2, <2>1, RunEndsType
    <3>2. input[q] = DELIMITER
      BY <1>2, <3>1, OffsetFacts
    <3>3. QED
      BY <3>1, <3>2 DEF RunEnds, FreeOf
  <2>2. rhs \in Int /\ Len(input) \in Int
    BY <1>2
  <2>3. QED
    BY <1>2, <2>1, <2>2, NoRunBetween
<1>9. SubSeq(tokens'.data, 1, tokens'.size) = Runs(input)
  <2> DEFINE d == tokens'.data
             n == counter'
             R == Runs(input)
  <2>1. n \in Nat /\ d \in Seq(Seq(Characters) \union {ABSENT}) /\ n <= Len(d)
        /\ \A j \in 1 .. n : d[j] = R[j]
    BY <1>6, <1>7
  <2>2. DOMAIN R = 1 .. n /\ R = [j \in DOMAIN R |-> R[j]]
    BY <1>4, <1>8 DEF Runs
  <2> HIDE DEF d, n, R
  <2>3. SubSeq(d, 1, n) = [j \in 1 .. n |-> d[j]]
    BY <2>1
  <2>4. QED
    BY <1>7, <2>1, <2>2, <2>3 DEF d, n, R
<1>10. QED
  BY <1>1, <1>2, <1>4, <1>7, <1>9 DEF SplitInv, TokensAreTheRuns

LEMMA FailedSplitKeeps ==
  ASSUME AtDelimiterFails \/ TrailingTokenFails, SplitInv
  PROVE  SplitInv'
<1>1. SplitLoop
  BY DEF AtDelimiterFails, TrailingTokenFails, SplitInv
<1>2. Stored(tokens) = counter /\ Stored([tokens EXCEPT !.size = counter]) = counter /\ counter \in Nat
  BY <1>1, WrittenEntries DEF SplitLoop, TokensSoFar
<1>3. splitStage' = "BAD_ALLOC" /\ splitBlocks' = splitBlocks - 1 - counter
  BY <1>2 DEF AtDelimiterFails, TrailingTokenFails, FailSplit
<1>4. splitBlocks' = 0
  BY <1>1, <1>2, <1>3 DEF SplitLoop
<1>5. QED
  BY <1>3, <1>4 DEF SplitInv, TokensAreTheRuns

(* Whatever the string, and whichever allocation fails, the tokens of        *)
(* rcutils_split are the longest parts without a delimiter, in order, and    *)
(* they and the array are all that is allocated.                             *)
THEOREM SplitYieldsTheRuns == SplitSpec => []TokensAreTheRuns
<1>1. SplitInit => SplitInv
  BY DEF SplitInit, SplitInv, TokensAreTheRuns
<1>2. SplitInv /\ [SplitNext]_splitVars => SplitInv'
  <2> SUFFICES ASSUME SplitInv, [SplitNext]_splitVars PROVE SplitInv'
    OBVIOUS
  <2>1. ASSUME NEW s \in Inputs, StartSplit(s) PROVE SplitInv'
    BY <2>1, StartSplitKeeps
  <2>2. ASSUME NEW s \in Inputs, SplitLast(s) PROVE SplitInv'
    BY <2>2, SplitLastKeeps
  <2>3. CASE NextCharacter
    BY <2>3, NextCharacterKeeps
  <2>4. CASE AtDelimiter
    BY <2>4, AtDelimiterKeeps
  <2>5. CASE TrailingToken
    BY <2>5, TrailingTokenKeeps
  <2>6. CASE AtDelimiterFails \/ TrailingTokenFails
    BY <2>6, FailedSplitKeeps
  <2>7. CASE UNCHANGED splitVars
    BY <2>7 DEF splitVars, SplitInv, SplitLoop, TokensSoFar, TokensAreTheRuns
  <2>8. QED
    BY <2>1, <2>2, <2>3, <2>4, <2>5, <2>6, <2>7 DEF SplitNext
<1>3. SplitInv => TokensAreTheRuns
  BY DEF SplitInv
<1>4. QED
  BY <1>1, <1>2, <1>3, PTL DEF SplitSpec

-----------------------------------------------------------------------------
\* A set of natural numbers that is not empty has a least element.
LEMMA LeastOf ==
  ASSUME NEW S, S \subseteq Nat, S # {}
  PROVE  \E i \in S : \A j \in S : i <= j
<1> DEFINE R == OpToRel(<, Nat)
<1>1. IsWellFoundedOn(R, Nat)
  BY NatLessThanWellFounded
<1>2. \A i, j \in Nat : j < i => <<j, i>> \in R
  BY DEF OpToRel
<1> HIDE DEF R
<1>3. PICK i \in S : \A j \in S : ~(<<j, i>> \in R)
  BY <1>1, WFMin
<1>4. \A j \in S : ~(j < i)
  BY <1>2, <1>3
<1>5. \A j \in S : j \in Nat /\ i \in Nat
  OBVIOUS
<1>6. \A j \in S : i <= j
  BY <1>4, <1>5
<1>7. QED
  BY <1>6

-----------------------------------------------------------------------------
(* rcutils_calculate_directory_size_with_recursion.  The size of a set of    *)
(* files, and of one file more.                                              *)
LEMMA BytesOfAFile ==
  ASSUME NEW e \in Entry
  PROVE  IsFiniteSet({e} \X (1 .. SizeOf[e])) /\ Cardinality({e} \X (1 .. SizeOf[e])) = SizeOf[e]
<1> DEFINE n == SizeOf[e]
<1>1. n \in Nat
  BY EntryAssumption
<1> HIDE DEF n
<1>2. IsFiniteSet(1 .. n) /\ Cardinality(1 .. n) = n
  <2>1. Cardinality(1 .. n) = (IF 1 > n THEN 0 ELSE n - 1 + 1) /\ IsFiniteSet(1 .. n)
    BY ONLY <1>1, 1 \in Int, n \in Int, FS_Interval
  <2>2. QED
    BY <1>1, <2>1
<1>3. IsFiniteSet({e}) /\ Cardinality({e}) = 1
  BY FS_Singleton
<1>4. IsFiniteSet({e} \X (1 .. n)) /\ Cardinality({e} \X (1 .. n)) = 1 * n
  BY ONLY <1>2, <1>3, FS_Product, ZenonT(30)
<1>5. QED
  BY <1>1, <1>4 DEF n

LEMMA BytesAreFinite ==
  ASSUME NEW S \in SUBSET Entry
  PROVE  IsFiniteSet(Bytes(S)) /\ Cardinality(Bytes(S)) \in Nat
<1> DEFINE f == [e \in S |-> {e} \X (1 .. SizeOf[e])]
           B == {{e} \X (1 .. SizeOf[e]) : e \in S}
<1>1. IsFiniteSet(S)
  BY EntryAssumption, FS_Subset
<1>2. f \in Surjection(S, B)
  BY DEF Surjection
<1>3. \A T \in B : IsFiniteSet(T)
  BY BytesOfAFile
<1> HIDE DEF f, B
<1>4. IsFiniteSet(B)
  BY ONLY <1>1, <1>2, FS_Surjection
<1>5. IsFiniteSet(UNION B)
  BY ONLY <1>3, <1>4, FS_UNION
<1>6. QED
  BY <1>5, FS_CardinalityType DEF Bytes, B

LEMMA FewerFilesFewerBytes ==
  ASSUME NEW S \in SUBSET Entry, NEW T \in SUBSET Entry, S \subseteq T
  PROVE  Cardinality(Bytes(S)) <= Cardinality(Bytes(T))
<1>1. Bytes(S) \subseteq Bytes(T)
  BY DEF Bytes
<1>2. QED
  BY <1>1, BytesAreFinite, FS_Subset

LEMMA OneFileMore ==
  ASSUME NEW C \in SUBSET Entry, NEW e \in Entry, e \notin C
  PROVE  Cardinality(Bytes(C \union {e})) = Cardinality(Bytes(C)) + SizeOf[e]
<1> DEFINE A == Bytes(C)
           B == {e} \X (1 .. SizeOf[e])
<1>1. Bytes(C \union {e}) = A \union B
  BY DEF Bytes
<1>2. A \intersect B = {}
  BY DEF Bytes
<1>3. IsFiniteSet(A) /\ Cardinality(A) \in Nat /\ IsFiniteSet(B) /\ Cardinality(B) = SizeOf[e] /\ SizeOf[e] \in Nat
  BY BytesAreFinite, BytesOfAFile, EntryAssumption
<1> HIDE DEF A, B
<1>4. Cardinality(A \union B) = Cardinality(A) + Cardinality(B) - Cardinality(A \intersect B)
  BY <1>3, FS_Union
<1>5. Cardinality(A \intersect B) = 0
  BY <1>2, FS_EmptySet
<1>6. Cardinality(A \union B) = Cardinality(A) + SizeOf[e]
  BY <1>3, <1>4, <1>5
<1>7. QED
  BY <1>1, <1>6 DEF A

LEMMA NoFileNoByte ==
  Cardinality(Bytes({})) = 0
<1>1. Bytes({}) = {}
  BY DEF Bytes
<1>2. QED
  BY <1>1, FS_EmptySet

\* The walk's place in the list: the directory that is read is not waiting.
Active == {"open", "first", "orphan", "read"}
Finished == {"OK", "ERROR", "BAD_ALLOC"}
FirstWaiting == IF walk = "read" THEN 2 ELSE 1
Waiting == {dirList[k].dir : k \in FirstWaiting .. Len(dirList)}
Deep(k) == maxDepth # 0 /\ k > maxDepth

\* stayed: entries that have been there all the time, every file that is there
\* among them; counted: the files in the size; read: the directories that were read.
Stayed(stayed) ==
  /\ stayed \subseteq present \intersect atStart
  /\ \A e \in present : Kind[e] = "file" => e \in stayed
  /\ \A e \in stayed \ {Root} : Parent[e] \in stayed
Counted(counted) ==
  /\ counted \subseteq FilesWithin(atStart)
  /\ dirSize = Cardinality(Bytes(counted))
ListIsSound ==
  /\ dirList \in Seq([dir : Entry, depth : Nat]) /\ dirList # <<>>
  /\ \A k \in 1 .. Len(dirList) :
       /\ Kind[dirList[k].dir] = "dir" /\ dirList[k].depth = DepthOf[dirList[k].dir] + 1
       /\ ~Deep(dirList[k].depth)
  /\ \A k, m \in FirstWaiting .. Len(dirList) : dirList[k].dir = dirList[m].dir => k = m
  /\ dirBlocks = NodeBlocks * Len(dirList) + (IF walk = "open" THEN 0 ELSE IterBlocks)
\* Whatever is in a directory that was read, and stayed, has been dealt with or will
\* be; nothing is met twice, because no directory is.
EachOnce(read, counted) ==
  /\ walk = "read" => dirList[1].dir \in read
  /\ walk # "read" => unread = {}
  /\ unread \subseteq Entry \ {Root} /\ (unread \union Waiting) \intersect (read \union counted) = {}
  /\ unread \intersect Waiting = {}
  /\ \A e \in unread : Parent[e] = dirList[1].dir
  /\ \A e \in read : Kind[e] = "dir"
  /\ \A e \in Waiting \union counted \union read : e # Root => Parent[e] \in read
NothingMissed(read, counted, stayed) ==
  /\ Root \in read \union Waiting
  /\ \A e \in stayed \ {Root} : Parent[e] \in read =>
       \/ e \in unread \union counted \union read \union Waiting \/ Kind[e] = "other"
       \/ Kind[e] = "dir" /\ Deep(DepthOf[e] + 1)
WalkInv(read, counted, stayed) ==
  /\ read \subseteq Entry /\ atStart \subseteq Entry
  /\ Stayed(stayed) /\ Counted(counted)
  /\ walk \in Active => ListIsSound /\ EachOnce(read, counted) /\ NothingMissed(read, counted, stayed)
  /\ walk = "OK" => FilesWithin(stayed) \subseteq counted
DirInv ==
  /\ present \subseteq Entry /\ \A e \in present \ {Root} : Parent[e] \in present
  /\ maxDepth \in Nat
  /\ walk \in Active \union Finished \union {"idle", "undefined"}
  /\ walk = "idle" => dirSize = 0 /\ dirBlocks = 0 /\ unread = {}
  /\ walk \in Finished => dirBlocks = 0
  /\ walk \in Active \union {"OK"} =>
       \E read, counted, stayed : WalkInv(read, counted, stayed)

LEMMA DirInvImplies ==
  ASSUME DirInv
  PROVE  SizeIsOfTheTree
<1>1. walk \in {"OK", "ERROR", "BAD_ALLOC"} => dirBlocks = 0
  BY DEF DirInv, Finished
<1>2. ASSUME walk = "OK"
      PROVE  SizeWithin(atStart \intersect present) <= dirSize /\ dirSize <= SizeWithin(atStart)
  <2>1. PICK read, counted, stayed : WalkInv(read, counted, stayed)
    BY <1>2 DEF DirInv
  <2>2. /\ atStart \subseteq Entry /\ counted \subseteq FilesWithin(atStart) /\ FilesWithin(stayed) \subseteq counted
        /\ dirSize = Cardinality(Bytes(counted)) /\ \A e \in present : Kind[e] = "file" => e \in stayed
    BY <1>2, <2>1 DEF WalkInv, Stayed, Counted
  <2>3. /\ FilesWithin(atStart \intersect present) \subseteq counted
        /\ FilesWithin(atStart \intersect present) \subseteq Entry
        /\ counted \subseteq Entry /\ FilesWithin(atStart) \subseteq Entry
    BY <2>2 DEF FilesWithin
  <2>4. QED
    BY <2>2, <2>3, FewerFilesFewerBytes DEF SizeWithin
<1>3. QED
  BY <1>1, <1>2 DEF SizeIsOfTheTree

-----------------------------------------------------------------------------
LEMMA WalkStarts ==
  ASSUME DirInv, NEW depth \in MaxDepths, StartWalk(depth)
  PROVE  DirInv'
<1>1. /\ walk = "idle" /\ maxDepth' = depth /\ atStart' = present /\ present' = present /\ unread' = unread
      /\ dirSize' = dirSize /\ dirSize = 0 /\ dirBlocks = 0 /\ unread = {} /\ depth \in Nat
  BY EntryAssumption DEF StartWalk, DirInv
<1>2. CASE walk' \in {"BAD_ALLOC", "ERROR"} /\ dirBlocks' = dirBlocks
  BY <1>1, <1>2 DEF DirInv, Active, Finished
<1>3. CASE walk' = "open" /\ dirList' = <<[dir |-> Root, depth |-> 1]>> /\ dirBlocks' = NodeBlocks
  <2> DEFINE S == present
  <2>1. Stayed(S)'
    BY <1>1 DEF Stayed, DirInv
  <2>2. Counted({})'
    BY <1>1, NoFileNoByte DEF Counted
  <2>3. /\ Len(dirList') = 1 /\ dirList'[1].dir = Root /\ dirList'[1].depth = 1 /\ FirstWaiting' = 1
        /\ dirList' \in Seq([dir : Entry, depth : Nat]) /\ dirList' # <<>>
    BY <1>3, EntryAssumption DEF FirstWaiting
  <2>4. ListIsSound'
    <3>1. \A k \in 1 .. 1 : k = 1
      OBVIOUS
    <3>2. ~Deep(1)'
      BY <1>1 DEF Deep
    <3>3. 1 = DepthOf[Root] + 1 /\ Kind[Root] = "dir"
      BY EntryAssumption, TreeAssumption
    <3>4. NodeBlocks = NodeBlocks * 1 + 0
      BY DEF NodeBlocks
    <3>5. dirBlocks' = NodeBlocks * Len(dirList') + (IF walk' = "open" THEN 0 ELSE IterBlocks)
      BY <1>3, <2>3, <3>4
    <3>6. \A k \in 1 .. Len(dirList') :
            /\ Kind[dirList'[k].dir] = "dir" /\ dirList'[k].depth = DepthOf[dirList'[k].dir] + 1
            /\ ~Deep(dirList[k].depth)'
      BY <2>3, <3>1, <3>2, <3>3
    <3>7. \A k, m \in FirstWaiting' .. Len(dirList') : dirList'[k].dir = dirList'[m].dir => k = m
      BY <2>3
    <3>8. QED
      BY <2>3, <3>5, <3>6, <3>7 DEF ListIsSound
  <2>5. Waiting' = {Root}
    BY <2>3 DEF Waiting
  <2>6. EachOnce({}, {})' /\ NothingMissed({}, {}, S)'
    BY <1>1, <1>3, <2>5 DEF EachOnce, NothingMissed
  <2>7. WalkInv({}, {}, S)'
    BY <1>1, <1>3, <2>1, <2>2, <2>4, <2>6 DEF WalkInv, DirInv
  <2>8. QED
    BY <1>1, <1>3, <2>7 DEF DirInv, Active, Finished
<1>4. QED
  BY <1>2, <1>3 DEF StartWalk

\* What is left of the walk when it fails: nothing is held.
LEMMA FailedWalk ==
  ASSUME DirInv, walk \in Active, NEW ret \in {"ERROR", "BAD_ALLOC"},
         FailWalk(ret, IF walk = "open" THEN 0 ELSE IterBlocks), present' = present, maxDepth' = maxDepth
  PROVE  DirInv'
<1>1. PICK read, counted, stayed : WalkInv(read, counted, stayed)
  BY DEF DirInv
<1>2. dirBlocks = NodeBlocks * Len(dirList) + (IF walk = "open" THEN 0 ELSE IterBlocks) /\ Len(dirList) \in Nat
  BY <1>1 DEF WalkInv, ListIsSound
<1>3. NodeBlocks * Len(dirList) \in Nat /\ IterBlocks \in Nat
  BY <1>2 DEF NodeBlocks, IterBlocks
<1>4. dirBlocks' = 0
  BY <1>2, <1>3 DEF FailWalk
<1>5. walk' = ret
  BY DEF FailWalk
<1>6. QED
  BY <1>4, <1>5 DEF DirInv, Active, Finished

LEMMA DirectoryOpened ==
  ASSUME DirInv, OpenDirectory
  PROVE  DirInv'
<1>1. walk = "open" /\ present' = present /\ maxDepth' = maxDepth /\ dirSize' = dirSize /\ atStart' = atStart
  BY DEF OpenDirectory
<1>2. CASE FailWalk("ERROR", 0)
  BY <1>1, <1>2, FailedWalk DEF Active
<1>3. CASE walk' = "first" /\ dirBlocks' = dirBlocks + IterBlocks /\ dirList' = dirList /\ unread' = unread
  <2>1. PICK read, counted, stayed : WalkInv(read, counted, stayed)
    BY <1>1 DEF DirInv, Active
  <2>2. /\ Waiting' = Waiting /\ FirstWaiting' = FirstWaiting /\ \A k : Deep(k)' <=> Deep(k)
        /\ FilesWithin(atStart)' = FilesWithin(atStart)
    BY <1>1, <1>3 DEF Waiting, FirstWaiting, Deep, FilesWithin
  <2>3. ListIsSound
    BY <1>1, <2>1 DEF WalkInv, Active
  <2>4. dirBlocks' = NodeBlocks * Len(dirList) + IterBlocks
    <3>1. dirBlocks = NodeBlocks * Len(dirList) + 0 /\ Len(dirList) \in Nat
      BY <1>1, <2>3 DEF ListIsSound
    <3>2. QED
      BY <1>3, <3>1 DEF NodeBlocks, IterBlocks
  <2>5. ListIsSound'
    BY <1>1, <1>3, <2>2, <2>3, <2>4 DEF ListIsSound
  <2>6. EachOnce(read, counted)' /\ NothingMissed(read, counted, stayed)'
    BY <1>1, <1>3, <2>1, <2>2 DEF WalkInv, Active, EachOnce, NothingMissed
  <2>7. WalkInv(read, counted, stayed)'
    BY <1>1, <1>3, <2>1, <2>2, <2>5, <2>6 DEF WalkInv, Stayed, Counted
  <2>8. QED
    BY <1>1, <1>3, <2>7 DEF DirInv, Active, Finished
<1>4. QED
  BY <1>2, <1>3 DEF OpenDirectory

\* The first readdir: the directory is read, and what it holds is met for the
\* first time.
LEMMA DirectoryRead ==
  ASSUME DirInv, ReadFirst
  PROVE  DirInv'
<1>1. /\ walk \in {"first", "orphan"}
      /\ present' = present /\ maxDepth' = maxDepth /\ dirSize' = dirSize /\ atStart' = atStart
  BY DEF ReadFirst
<1>2. CASE FailWalk("ERROR", IterBlocks)
  BY <1>1, <1>2, FailedWalk DEF Active
<1>3. CASE walk' = "undefined"
  BY <1>1, <1>3 DEF DirInv, Active, Finished
<1>4. CASE walk' = "read" /\ unread' = ChildrenOf(Head(dirList).dir) /\ dirList' = dirList /\ dirBlocks' = dirBlocks
  <2>1. PICK read, counted, stayed : WalkInv(read, counted, stayed)
    BY <1>1 DEF DirInv, Active
  <2>2. /\ ListIsSound /\ EachOnce(read, counted) /\ NothingMissed(read, counted, stayed)
        /\ read \subseteq Entry /\ atStart \subseteq Entry /\ Stayed(stayed) /\ Counted(counted)
    BY <1>1, <2>1 DEF WalkInv, Active
  <2> PICK d : d = dirList[1].dir
    OBVIOUS
  <2>3. /\ Len(dirList) \in Nat /\ Len(dirList) >= 1 /\ dirList[1] = Head(dirList)
        /\ FirstWaiting = 1 /\ FirstWaiting' = 2
    BY <1>1, <1>4, <2>2 DEF ListIsSound, FirstWaiting
  <2>4. d \in Entry /\ Kind[d] = "dir" /\ d \in Waiting
    <3>1. 1 \in 1 .. Len(dirList)
      BY <2>3
    <3>2. dirList[1] \in [dir : Entry, depth : Nat]
      BY <2>2, <3>1, ElementOfSeq, Zenon DEF ListIsSound
    <3>3. QED
      BY <2>2, <2>3, <3>1, <3>2 DEF ListIsSound, Waiting
  <2>5. Waiting' = Waiting \ {d}
    <3>1. Waiting' = {dirList[k].dir : k \in 2 .. Len(dirList)}
      BY <1>4, <2>3 DEF Waiting
    <3>2. Waiting = {dirList[k].dir : k \in 1 .. Len(dirList)}
      BY <2>3 DEF Waiting
    <3>3. \A k \in 1 .. Len(dirList) : dirList[k].dir = d => k = 1
      BY <2>2, <2>3 DEF ListIsSound
    <3>4. \A k \in 1 .. Len(dirList) : k \in 2 .. Len(dirList) \/ k = 1
      OBVIOUS
    <3>5. \A k \in 2 .. Len(dirList) : k \in 1 .. Len(dirList) /\ k # 1
      BY <2>3
    <3>6. QED
      BY <3>1, <3>2, <3>3, <3>4, <3>5
  <2>6. \A k : Deep(k)' <=> Deep(k)
    BY <1>1 DEF Deep
  <2>7. FilesWithin(atStart)' = FilesWithin(atStart)
    BY <1>1 DEF FilesWithin
  <2>8. ListIsSound'
    <3>1. \A k, m \in 2 .. Len(dirList) : dirList[k].dir = dirList[m].dir => k = m
      BY <2>2, <2>3 DEF ListIsSound
    <3>2. dirBlocks = NodeBlocks * Len(dirList) + IterBlocks
      BY <1>1, <2>2 DEF ListIsSound
    <3>3. QED
      BY <1>4, <2>2, <2>3, <2>6, <3>1, <3>2 DEF ListIsSound
  <2>9. /\ unread' = {e \in present \ {Root} : Parent[e] = d} /\ unread = {}
    BY <1>1, <1>4, <2>2, <2>3 DEF ChildrenOf, EachOnce
  <2>10. d \notin read /\ d \notin counted
    BY <2>2, <2>4 DEF EachOnce
  <2>11. /\ \A e \in unread' : e \notin read \union counted \union Waiting \union {d}
         /\ unread' \subseteq Entry \ {Root}
    <3>1. ASSUME NEW e \in unread', e \in read \union counted \union Waiting \union {d} PROVE FALSE
      <4>1. e # Root /\ Parent[e] = d
        BY <2>9
      <4>2. e \in read \union counted \union Waiting => Parent[e] \in read
        BY <2>2, <4>1 DEF EachOnce
      <4>3. QED
        BY <2>4, <2>10, <3>1, <4>1, <4>2
    <3>2. QED
      BY <2>9, <3>1 DEF DirInv
  <2>12. EachOnce(read \union {d}, counted)'
    <3>1. /\ (unread' \union Waiting') \intersect ((read \union {d}) \union counted) = {}
          /\ unread' \intersect Waiting' = {}
      BY <2>2, <2>5, <2>10, <2>11 DEF EachOnce
    <3>2. \A e \in Waiting' \union counted \union (read \union {d}) : e # Root => Parent[e] \in read \union {d}
      BY <2>2, <2>4, <2>5 DEF EachOnce
    <3>3. \A e \in read \union {d} : Kind[e] = "dir"
      BY <2>2, <2>4 DEF EachOnce
    <3>4. \A e \in unread' : Parent[e] = d
      BY <2>9
    <3>5. QED
      BY <1>4, <2>11, <3>1, <3>2, <3>3, <3>4 DEF EachOnce
  <2>13. NothingMissed(read \union {d}, counted, stayed)'
    <3>1. Root \in (read \union {d}) \union Waiting'
      BY <2>2, <2>5 DEF NothingMissed
    <3>2. ASSUME NEW e \in stayed \ {Root}, Parent[e] \in read \union {d}
          PROVE  \/ e \in unread' \union counted \union (read \union {d}) \union Waiting' \/ Kind[e] = "other"
                 \/ Kind[e] = "dir" /\ Deep(DepthOf[e] + 1)
      <4>1. CASE Parent[e] = d
        BY <2>2, <2>9, <4>1 DEF Stayed
      <4>2. CASE Parent[e] \in read
        BY <2>2, <2>5, <2>9, <4>2 DEF NothingMissed
      <4>3. QED
        BY <3>2, <4>1, <4>2
    <3>3. QED
      BY <2>6, <3>1, <3>2 DEF NothingMissed
  <2>14. Stayed(stayed)' /\ Counted(counted)'
    BY <1>1, <2>2, <2>7 DEF Stayed, Counted
  <2>15. WalkInv(read \union {d}, counted, stayed)'
    BY <1>1, <1>4, <2>2, <2>4, <2>8, <2>12, <2>13, <2>14 DEF WalkInv
  <2>16. QED
    BY <1>1, <1>4, <2>15 DEF DirInv, Active, Finished
<1>5. QED
  BY <1>2, <1>3, <1>4 DEF ReadFirst

\* An entry is looked at: a directory joins the list, a file the size.
LEMMA InsertedSecond ==
  ASSUME NEW N, NEW L \in Seq(N), L # <<>>, NEW x \in N
  PROVE  LET M == <<Head(L), x>> \o Tail(L)
         IN  /\ M \in Seq(N) /\ M # <<>> /\ Len(M) = Len(L) + 1 /\ M[1] = L[1] /\ M[2] = x
             /\ \A k \in 3 .. Len(L) + 1 : M[k] = L[k - 1] /\ k - 1 \in 2 .. Len(L)
             /\ \A k \in 2 .. Len(L) : M[k + 1] = L[k] /\ k + 1 \in 3 .. Len(L) + 1
<1> DEFINE A == <<Head(L), x>>
           B == Tail(L)
<1>1. /\ A \in Seq(N) /\ Len(A) = 2 /\ A[1] = L[1] /\ A[2] = x
      /\ B \in Seq(N) /\ Len(B) = Len(L) - 1 /\ Len(L) \in Nat /\ Len(L) >= 1
      /\ \A k \in 1 .. Len(L) - 1 : B[k] = L[k + 1]
  OBVIOUS
<1> HIDE DEF A, B
<1>2. /\ A \o B \in Seq(N) /\ Len(A \o B) = Len(A) + Len(B)
      /\ \A k \in 1 .. Len(A) + Len(B) : (A \o B)[k] = IF k <= Len(A) THEN A[k] ELSE B[k - Len(A)]
  BY <1>1, ConcatProperties, Zenon
<1>3. A \o B # <<>> /\ Len(A \o B) = Len(L) + 1 /\ (A \o B)[1] = L[1] /\ (A \o B)[2] = x
  BY <1>1, <1>2
<1>4. ASSUME NEW k \in 3 .. Len(L) + 1
      PROVE  (A \o B)[k] = L[k - 1] /\ k - 1 \in 2 .. Len(L)
  <2>1. /\ k \in 1 .. Len(A) + Len(B) /\ ~(k <= Len(A)) /\ k - Len(A) \in 1 .. Len(L) - 1
        /\ k - Len(A) + 1 = k - 1 /\ k - 1 \in 2 .. Len(L)
    BY <1>1
  <2>2. (A \o B)[k] = B[k - Len(A)] /\ B[k - Len(A)] = L[k - Len(A) + 1]
    BY <1>1, <1>2, <2>1, Zenon
  <2>3. QED
    BY <2>1, <2>2, Zenon
<1>5. ASSUME NEW k \in 2 .. Len(L)
      PROVE  (A \o B)[k + 1] = L[k] /\ k + 1 \in 3 .. Len(L) + 1
  <2> PICK j : j = k + 1
    OBVIOUS
  <2>1. j \in 3 .. Len(L) + 1 /\ j - 1 = k
    BY <1>1
  <2>2. (A \o B)[j] = L[j - 1]
    BY <1>4, <2>1, Zenon
  <2>3. QED
    BY <2>1, <2>2, Zenon
<1>6. QED
  BY <1>2, <1>3, <1>4, <1>5 DEF A, B

LEMMA EntryChecked ==
  ASSUME DirInv, NEW e \in Entry, CheckEntry(e)
  PROVE  DirInv'
<1>1. /\ walk = "read" /\ walk' = "read" /\ present' = present /\ maxDepth' = maxDepth /\ atStart' = atStart
      /\ e \in unread /\ unread' = unread \ {e} /\ dirSize' = dirSize + FileSize(e)
      /\ present \subseteq Entry
  BY DEF CheckEntry, DirInv
<1>2. PICK read, counted, stayed : WalkInv(read, counted, stayed)
  BY <1>1 DEF DirInv, Active
<1>3. /\ ListIsSound /\ EachOnce(read, counted) /\ NothingMissed(read, counted, stayed)
      /\ read \subseteq Entry /\ atStart \subseteq Entry /\ Stayed(stayed) /\ Counted(counted)
  BY <1>1, <1>2 DEF WalkInv, Active
<1> PICK d : d = dirList[1].dir
  OBVIOUS
<1> PICK files : files = IF IsFile(e) THEN counted \union {e} ELSE counted
  OBVIOUS
<1> DEFINE inserted == IsDirectory(e) /\ Listed(Head(dirList).depth)
           waiting == IF inserted THEN Waiting \union {e} ELSE Waiting
<1>4. /\ dirList \in Seq([dir : Entry, depth : Nat]) /\ dirList # <<>> /\ Len(dirList) \in Nat /\ Len(dirList) >= 1
      /\ dirList[1] = Head(dirList) /\ dirList[1].depth = DepthOf[d] + 1 /\ ~Deep(dirList[1].depth)
      /\ d \in Entry /\ dirList[1].depth \in Nat /\ FirstWaiting = 2 /\ FirstWaiting' = 2
      /\ dirBlocks = NodeBlocks * Len(dirList) + IterBlocks
  <2>1. /\ dirList \in Seq([dir : Entry, depth : Nat]) /\ dirList # <<>>
        /\ \A k \in 1 .. Len(dirList) : dirList[k].depth = DepthOf[dirList[k].dir] + 1 /\ ~Deep(dirList[k].depth)
        /\ dirBlocks = NodeBlocks * Len(dirList) + IterBlocks
    BY <1>1, <1>3 DEF ListIsSound
  <2>2. 1 \in 1 .. Len(dirList) /\ Len(dirList) \in Nat /\ Len(dirList) >= 1 /\ dirList[1] = Head(dirList)
    BY <2>1
  <2>3. dirList[1] \in [dir : Entry, depth : Nat]
    BY <2>1, <2>2, ElementOfSeq, Zenon
  <2>4. QED
    BY <1>1, <2>1, <2>2, <2>3 DEF FirstWaiting
<1>5. e # Root /\ Parent[e] = d /\ DepthOf[e] = dirList[1].depth /\ DepthOf[e] \in Nat /\ maxDepth \in Nat /\ d \in read
  BY <1>1, <1>3, <1>4, TreeAssumption DEF EachOnce, DirInv
<1>6. /\ e \notin read /\ e \notin counted /\ e \notin Waiting /\ d # e
  BY <1>1, <1>3, <1>5 DEF EachOnce
<1>7. \A k : Deep(k)' <=> Deep(k)
  BY <1>1 DEF Deep
<1>8. FilesWithin(atStart)' = FilesWithin(atStart)
  BY <1>1 DEF FilesWithin
<1>9. Counted(files)'
  <2>1. CASE IsFile(e)
    <3>1. e \in stayed /\ Kind[e] = "file" /\ e \in atStart
      BY <1>3, <2>1 DEF IsFile, Stayed
    <3>2. e \in FilesWithin(atStart)
      BY <1>4, <1>5, <3>1 DEF FilesWithin, Deep
    <3>3. counted \subseteq Entry
      BY <1>3 DEF Counted, FilesWithin
    <3>4. dirSize' = Cardinality(Bytes(counted \union {e}))
      BY <1>1, <1>3, <1>6, <2>1, <3>3, OneFileMore DEF Counted, FileSize
    <3>5. QED
      BY <1>3, <1>8, <2>1, <3>2, <3>4 DEF Counted
  <2>2. CASE ~IsFile(e)
    <3>1. counted \in SUBSET Entry
      BY <1>3 DEF Counted, FilesWithin
    <3>2. Cardinality(Bytes(counted)) \in Nat
      BY <3>1, BytesAreFinite
    <3>3. dirSize' = dirSize
      BY <1>1, <1>3, <2>2, <3>2 DEF FileSize, Counted
    <3>4. QED
      BY <1>3, <1>8, <2>2, <3>3 DEF Counted
  <2>3. QED
    BY <2>1, <2>2
<1>10. ListIsSound' /\ Waiting' = waiting /\ dirList'[1] = dirList[1]
  <2>1. CASE ~inserted
    <3>1. dirList' = dirList /\ dirBlocks' = dirBlocks
      BY <2>1 DEF CheckEntry
    <3>2. QED
      BY <1>1, <1>3, <1>4, <1>7, <2>1, <3>1 DEF ListIsSound, Waiting
  <2>2. CASE inserted
    <3> DEFINE x == [dir |-> e, depth |-> Head(dirList).depth + 1]
               N == [dir : Entry, depth : Nat]
    <3>1. dirList' = <<Head(dirList), x>> \o Tail(dirList) /\ dirBlocks' = dirBlocks + NodeBlocks
      BY <2>2 DEF CheckEntry, InsertSecond
    <3>2. x \in N /\ x.dir = e /\ x.depth = DepthOf[e] + 1 /\ Kind[e] = "dir"
      BY <1>4, <1>5, <2>2 DEF IsDirectory
    <3>3. ~Deep(x.depth)
      BY <1>4, <1>5, <2>2, <3>2 DEF Listed, Deep
    <3> HIDE DEF x
    <3>4. /\ dirList' \in Seq(N) /\ dirList' # <<>> /\ Len(dirList') = Len(dirList) + 1
          /\ dirList'[1] = dirList[1] /\ dirList'[2] = x
          /\ \A k \in 3 .. Len(dirList) + 1 : dirList'[k] = dirList[k - 1] /\ k - 1 \in 2 .. Len(dirList)
          /\ \A k \in 2 .. Len(dirList) : dirList'[k + 1] = dirList[k] /\ k + 1 \in 3 .. Len(dirList) + 1
      <4> HIDE DEF N
      <4>1. dirList \in Seq(N) /\ dirList # <<>> /\ x \in N
        BY <1>4, <3>2 DEF N
      <4>2. QED
        BY <3>1, <4>1, InsertedSecond
    <3>5. \A k \in 2 .. Len(dirList) + 1 : k = 2 \/ k \in 3 .. Len(dirList) + 1
      BY <1>4
    <3>6. Waiting' = Waiting \union {e}
      <4>1. Waiting' = {dirList'[k].dir : k \in 2 .. Len(dirList) + 1}
        BY <1>4, <3>4 DEF Waiting
      <4>2. Waiting = {dirList[k].dir : k \in 2 .. Len(dirList)}
        BY <1>4 DEF Waiting
      <4>3. Waiting' \subseteq Waiting \union {e}
        <5> SUFFICES ASSUME NEW k \in 2 .. Len(dirList) + 1 PROVE dirList'[k].dir \in Waiting \union {e}
          BY <4>1
        <5>1. CASE k = 2
          BY <3>2, <3>4, <5>1
        <5>2. CASE k \in 3 .. Len(dirList) + 1
          BY <3>4, <4>2, <5>2
        <5>3. QED
          BY <3>5, <5>1, <5>2
      <4>4. \A k \in 2 .. Len(dirList) : k + 1 \in 2 .. Len(dirList) + 1
        BY <1>4
      <4>5. 2 \in 2 .. Len(dirList) + 1
        BY <1>4
      <4>6. Waiting \union {e} \subseteq Waiting'
        BY <3>2, <3>4, <4>1, <4>2, <4>4, <4>5, SMTT(30)
      <4>7. QED
        BY <4>3, <4>6
    <3>7. \A k \in 1 .. Len(dirList') :
            /\ Kind[dirList'[k].dir] = "dir" /\ dirList'[k].depth = DepthOf[dirList'[k].dir] + 1
            /\ ~Deep(dirList'[k].depth)
      <4> SUFFICES ASSUME NEW k \in 1 .. Len(dirList')
                   PROVE  /\ Kind[dirList'[k].dir] = "dir" /\ dirList'[k].depth = DepthOf[dirList'[k].dir] + 1
                          /\ ~Deep(dirList'[k].depth)
        OBVIOUS
      <4>1. k = 2 \/ \E m \in 1 .. Len(dirList) : dirList'[k] = dirList[m]
        <5>1. k = 1 \/ k = 2 \/ k \in 3 .. Len(dirList) + 1
          BY <1>4, <3>4
        <5>2. 1 \in 1 .. Len(dirList) /\ \A m \in 2 .. Len(dirList) : m \in 1 .. Len(dirList)
          BY <1>4
        <5>3. QED
          BY <3>4, <5>1, <5>2
      <4>2. QED
        BY <1>3, <3>2, <3>3, <3>4, <4>1 DEF ListIsSound
    <3>8. \A k, m \in 2 .. Len(dirList) + 1 : dirList'[k].dir = dirList'[m].dir => k = m
      <4>1. \A k \in 3 .. Len(dirList) + 1 : dirList'[k].dir \in Waiting
        BY <1>4, <3>4 DEF Waiting
      <4>2. ASSUME NEW k \in 3 .. Len(dirList) + 1, NEW m \in 3 .. Len(dirList) + 1, dirList'[k].dir = dirList'[m].dir
            PROVE  k = m
        <5>1. k - 1 = m - 1
          <6>1. \A i, j \in 2 .. Len(dirList) : dirList[i].dir = dirList[j].dir => i = j
            BY <1>3, <1>4 DEF ListIsSound
          <6>2. k - 1 \in 2 .. Len(dirList) /\ m - 1 \in 2 .. Len(dirList) /\ dirList[k - 1].dir = dirList[m - 1].dir
            BY <3>4, <4>2
          <6>3. QED
            BY <6>1, <6>2
        <5>2. QED
          BY <5>1
      <4>3. QED
        BY <1>6, <3>2, <3>4, <3>5, <4>1, <4>2
    <3>9. dirBlocks' = NodeBlocks * Len(dirList') + IterBlocks
      BY <1>4, <3>1, <3>4 DEF NodeBlocks, IterBlocks
    <3>10. ListIsSound'
      BY <1>1, <1>4, <1>7, <3>4, <3>7, <3>8, <3>9 DEF ListIsSound
    <3>11. QED
      BY <2>2, <3>4, <3>6, <3>10
  <2>3. QED
    BY <2>1, <2>2
<1> HIDE DEF inserted
<1>11. inserted => ~IsFile(e)
  BY DEF inserted, IsDirectory, IsFile
<1>12. EachOnce(read, files)'
  <2>1. d = dirList[1].dir /\ waiting \subseteq Waiting \union {e} /\ files \subseteq counted \union {e}
    OBVIOUS
  <2>2. /\ (unread' \union waiting) \intersect (read \union files) = {} /\ unread' \intersect waiting = {}
        /\ unread' \subseteq Entry \ {Root}
    BY <1>1, <1>3, <1>6, <1>11 DEF EachOnce
  <2>3. \A k \in waiting \union files \union read : k # Root => Parent[k] \in read
    BY <1>3, <1>5, <2>1 DEF EachOnce
  <2>4. /\ \A k \in unread' : Parent[k] = dirList[1].dir
        /\ \A k \in read : Kind[k] = "dir"
        /\ dirList[1].dir \in read
    BY <1>1, <1>3 DEF EachOnce
  <2> HIDE DEF waiting
  <2>5. QED
    BY <1>1, <1>10, <2>2, <2>3, <2>4 DEF EachOnce
<1>13. NothingMissed(read, files, stayed)'
  <2>1. Root \in read \union waiting
    BY <1>3 DEF NothingMissed
  <2>2. ASSUME NEW k \in stayed \ {Root}, Parent[k] \in read
        PROVE  \/ k \in unread' \union files \union read \union waiting \/ Kind[k] = "other"
               \/ Kind[k] = "dir" /\ Deep(DepthOf[k] + 1)
    <3>1. CASE k # e
      <4>1. \/ k \in unread \union counted \union read \union Waiting \/ Kind[k] = "other"
            \/ Kind[k] = "dir" /\ Deep(DepthOf[k] + 1)
        BY <1>3, <2>2 DEF NothingMissed
      <4>2. QED
        BY <1>1, <3>1, <4>1
    <3>2. CASE k = e
      <4>1. e \in present /\ Kind[e] \in {"file", "dir", "other"}
        BY <1>3, <3>2, EntryAssumption DEF Stayed
      <4>2. CASE Kind[e] = "dir" /\ ~inserted
        <5>1. ~Listed(Head(dirList).depth)
          BY <4>1, <4>2 DEF inserted, IsDirectory
        <5>2. Deep(DepthOf[e] + 1)
          BY <1>4, <1>5, <5>1 DEF Listed, Deep
        <5>3. QED
          BY <3>2, <4>2, <5>2
      <4>3. CASE Kind[e] = "file"
        BY <3>2, <4>1, <4>3 DEF IsFile
      <4>4. QED
        BY <3>2, <4>1, <4>2, <4>3
    <3>3. QED
      BY <3>1, <3>2
  <2> HIDE DEF waiting
  <2>3. QED
    BY <1>7, <1>10, <2>1, <2>2 DEF NothingMissed
<1>14. Stayed(stayed)'
  BY <1>1, <1>3 DEF Stayed
<1>15. WalkInv(read, files, stayed)'
  BY <1>1, <1>3, <1>9, <1>10, <1>12, <1>13, <1>14 DEF WalkInv
<1>16. QED
  BY <1>1, <1>15 DEF DirInv, Active, Finished

\* When nothing is waiting, the directories that stayed and are not too deep have
\* been read, down from the root, and so the files in them are in the size.
LEMMA NoneIsLeft ==
  ASSUME NEW read, NEW counted, NEW stayed, stayed \subseteq Entry, Stayed(stayed), maxDepth \in Nat,
         \A e \in read : Kind[e] = "dir", \A e \in counted : Kind[e] = "file", Root \in read,
         \A e \in stayed \ {Root} : Parent[e] \in read =>
            e \in counted \union read \/ Kind[e] = "other" \/ (Kind[e] = "dir" /\ Deep(DepthOf[e] + 1))
  PROVE  FilesWithin(stayed) \subseteq counted
<1> DEFINE B == {e \in stayed : Kind[e] = "dir" /\ ~Deep(DepthOf[e] + 1) /\ e \notin read}
           S == {DepthOf[e] : e \in B}
<1>1. \A e \in stayed \ {Root} : /\ e \in Entry \ {Root} /\ Parent[e] \in stayed /\ Kind[Parent[e]] = "dir"
                                 /\ DepthOf[e] = DepthOf[Parent[e]] + 1 /\ DepthOf[e] \in Nat
                                 /\ DepthOf[Parent[e]] \in Nat
  BY EntryAssumption, TreeAssumption DEF Stayed
<1>2. ASSUME B # {} PROVE FALSE
  <2>1. S \subseteq Nat /\ S # {}
    BY <1>2, TreeAssumption
  <2> HIDE DEF S
  <2>2. PICK m \in S : \A j \in S : m <= j
    BY <2>1, LeastOf
  <2>3. PICK e \in B : DepthOf[e] = m
    BY <2>2 DEF S
  <2> DEFINE p == Parent[e]
  <2>4. e \in stayed \ {Root} /\ ~Deep(DepthOf[e] + 1) /\ Kind[e] = "dir" /\ e \notin read
    BY <2>3
  <2>5. p \in stayed /\ Kind[p] = "dir" /\ DepthOf[e] = DepthOf[p] + 1 /\ DepthOf[p] \in Nat
    BY <1>1, <2>4
  <2>6. p \notin B
    <3>1. p \in B => DepthOf[p] \in S
      BY DEF S
    <3>2. m \in Nat
      BY <2>1, <2>2
    <3>3. QED
      BY <2>2, <2>3, <2>5, <3>1, <3>2
  <2>7. ~Deep(DepthOf[p] + 1)
    BY <2>4, <2>5 DEF Deep
  <2>8. p \in read
    BY <2>5, <2>6, <2>7
  <2>9. e \in counted \union read \/ Kind[e] = "other" \/ (Kind[e] = "dir" /\ Deep(DepthOf[e] + 1))
    BY <2>4, <2>8
  <2>10. QED
    BY <2>4, <2>9
<1>3. ASSUME NEW e \in FilesWithin(stayed) PROVE e \in counted
  <2>1. e \in stayed \ {Root} /\ Kind[e] = "file" /\ (maxDepth = 0 \/ DepthOf[e] <= maxDepth)
    BY EntryAssumption DEF FilesWithin
  <2>2. Parent[e] \in stayed /\ Kind[Parent[e]] = "dir" /\ ~Deep(DepthOf[Parent[e]] + 1)
    BY <1>1, <2>1 DEF Deep
  <2>3. Parent[e] \in read
    BY <1>2, <2>2
  <2>4. QED
    BY <2>1, <2>3
<1>4. QED
  BY <1>3

LEMMA WalkGoesOn ==
  ASSUME DirInv, NextDirectory
  PROVE  DirInv'
<1>1. /\ walk = "read" /\ unread = {} /\ dirList' = Tail(dirList) /\ dirBlocks' = dirBlocks - IterBlocks - NodeBlocks
      /\ walk' = (IF Tail(dirList) = <<>> THEN "OK" ELSE "open")
      /\ present' = present /\ maxDepth' = maxDepth /\ unread' = unread /\ dirSize' = dirSize /\ atStart' = atStart
      /\ present \subseteq Entry /\ maxDepth \in Nat
  BY DEF NextDirectory, DirInv
<1>2. PICK read, counted, stayed : WalkInv(read, counted, stayed)
  BY <1>1 DEF DirInv, Active
<1>3. /\ ListIsSound /\ EachOnce(read, counted) /\ NothingMissed(read, counted, stayed)
      /\ read \subseteq Entry /\ atStart \subseteq Entry /\ Stayed(stayed) /\ Counted(counted)
  BY <1>1, <1>2 DEF WalkInv, Active
<1> DEFINE N == [dir : Entry, depth : Nat]
<1>4. /\ dirList \in Seq(N) /\ dirList # <<>> /\ Len(dirList) \in Nat /\ Len(dirList) >= 1 /\ FirstWaiting = 2
      /\ dirBlocks = NodeBlocks * Len(dirList) + IterBlocks
  BY <1>1, <1>3 DEF ListIsSound, FirstWaiting
<1> HIDE DEF N
<1>5. /\ Tail(dirList) \in Seq(N) /\ Len(Tail(dirList)) = Len(dirList) - 1
      /\ \A k \in 1 .. Len(dirList) - 1 : Tail(dirList)[k] = dirList[k + 1]
  BY <1>4
<1>6. Waiting = {dirList[k].dir : k \in 2 .. Len(dirList)}
  BY <1>4 DEF Waiting
<1>7. \A k : Deep(k)' <=> Deep(k)
  BY <1>1 DEF Deep
<1>8. \A S : FilesWithin(S)' = FilesWithin(S)
  BY <1>1 DEF FilesWithin
<1>9. Stayed(stayed)' /\ Counted(counted)'
  <2>1. FilesWithin(atStart)' = FilesWithin(atStart)
    BY <1>1 DEF FilesWithin
  <2>2. QED
    BY <1>1, <1>3, <2>1 DEF Stayed, Counted
<1>10. dirBlocks' = NodeBlocks * (Len(dirList) - 1)
  BY <1>1, <1>4 DEF NodeBlocks, IterBlocks
<1>11. CASE Tail(dirList) = <<>>
  <2>1. Len(dirList) = 1 /\ walk' = "OK"
    <3>1. Len(Tail(dirList)) = 0
      BY <1>5, <1>11, EmptySeq, Zenon
    <3>2. QED
      BY <1>1, <1>4, <1>5, <1>11, <3>1
  <2>2. Waiting = {}
    BY <1>6, <2>1
  <2>3. Root \in read /\ \A e \in read : Kind[e] = "dir"
    BY <1>3, <2>2 DEF NothingMissed, EachOnce
  <2>4. \A e \in stayed \ {Root} : Parent[e] \in read =>
          e \in counted \union read \/ Kind[e] = "other" \/ (Kind[e] = "dir" /\ Deep(DepthOf[e] + 1))
    BY <1>1, <1>3, <2>2 DEF NothingMissed
  <2>5. stayed \subseteq Entry /\ \A e \in counted : Kind[e] = "file"
    BY <1>1, <1>3 DEF Stayed, Counted, FilesWithin
  <2>6. FilesWithin(stayed) \subseteq counted
    BY <1>1, <1>3, <2>3, <2>4, <2>5, NoneIsLeft
  <2>7. FilesWithin(stayed)' \subseteq counted
    BY <1>1, <2>6 DEF FilesWithin
  <2>8. WalkInv(read, counted, stayed)'
    BY <1>1, <1>3, <1>9, <2>1, <2>7 DEF WalkInv, Active
  <2>9. dirBlocks' = 0
    BY <1>10, <2>1 DEF NodeBlocks
  <2>10. QED
    BY <1>1, <2>1, <2>8, <2>9 DEF DirInv, Active, Finished
<1>12. CASE Tail(dirList) # <<>>
  <2>1. walk' = "open" /\ FirstWaiting' = 1
    BY <1>1, <1>12 DEF FirstWaiting
  <2>2. Waiting' = Waiting
    <3>1. Waiting' = {Tail(dirList)[k].dir : k \in 1 .. Len(dirList) - 1}
      BY <1>1, <1>5, <2>1 DEF Waiting
    <3>2. \A k \in 1 .. Len(dirList) - 1 : k + 1 \in 2 .. Len(dirList)
      BY <1>4
    <3>3. \A k \in 2 .. Len(dirList) : k - 1 \in 1 .. Len(dirList) - 1 /\ k - 1 + 1 = k
      BY <1>4
    <3>4. \A k \in 2 .. Len(dirList) : Tail(dirList)[k - 1] = dirList[k] /\ k - 1 \in 1 .. Len(dirList) - 1
      BY <1>5, <3>3
    <3>5. Waiting' \subseteq Waiting
      BY <1>5, <1>6, <3>1, <3>2
    <3>6. Waiting \subseteq Waiting'
      <4> SUFFICES ASSUME NEW k \in 2 .. Len(dirList) PROVE dirList[k].dir \in Waiting'
        BY <1>6
      <4> DEFINE m == k - 1
      <4>1. m \in 1 .. Len(dirList) - 1 /\ Tail(dirList)[m] = dirList[k]
        BY <3>4
      <4> HIDE DEF m
      <4>2. QED
        BY <3>1, <4>1
    <3>7. QED
      BY <3>5, <3>6
  <2>3. ListIsSound'
    <3>1. \A k \in 1 .. Len(Tail(dirList)) :
            /\ Kind[Tail(dirList)[k].dir] = "dir" /\ Tail(dirList)[k].depth = DepthOf[Tail(dirList)[k].dir] + 1
            /\ ~Deep(Tail(dirList)[k].depth)
      <4> SUFFICES ASSUME NEW k \in 1 .. Len(dirList) - 1
                   PROVE  /\ Kind[Tail(dirList)[k].dir] = "dir"
                          /\ Tail(dirList)[k].depth = DepthOf[Tail(dirList)[k].dir] + 1
                          /\ ~Deep(Tail(dirList)[k].depth)
        BY <1>5
      <4>1. k + 1 \in 1 .. Len(dirList) /\ Tail(dirList)[k] = dirList[k + 1]
        BY <1>4, <1>5
      <4>2. QED
        BY <1>3, <4>1 DEF ListIsSound
    <3>2. ASSUME NEW k \in 1 .. Len(Tail(dirList)), NEW m \in 1 .. Len(Tail(dirList)),
                 Tail(dirList)[k].dir = Tail(dirList)[m].dir
          PROVE  k = m
      <4>1. \A i, j \in 2 .. Len(dirList) : dirList[i].dir = dirList[j].dir => i = j
        BY <1>3, <1>4 DEF ListIsSound
      <4>2. k + 1 \in 2 .. Len(dirList) /\ m + 1 \in 2 .. Len(dirList) /\ dirList[k + 1].dir = dirList[m + 1].dir
        BY <1>4, <1>5, <3>2
      <4>3. k + 1 = m + 1
        BY <4>1, <4>2
      <4>4. QED
        BY <4>3
    <3>3. dirBlocks' = NodeBlocks * Len(Tail(dirList)) + 0
      BY <1>4, <1>5, <1>10 DEF NodeBlocks
    <3>4. Tail(dirList) \in Seq([dir : Entry, depth : Nat])
      BY <1>5 DEF N
    <3>5. QED
      BY <1>1, <1>7, <1>12, <2>1, <3>1, <3>2, <3>3, <3>4 DEF ListIsSound
  <2>4. EachOnce(read, counted)'
    BY <1>1, <1>3, <2>1, <2>2 DEF EachOnce
  <2>5. NothingMissed(read, counted, stayed)'
    BY <1>1, <1>3, <1>7, <2>2 DEF NothingMissed
  <2>6. WalkInv(read, counted, stayed)'
    BY <1>1, <1>3, <1>9, <2>1, <2>3, <2>4, <2>5 DEF WalkInv
  <2>7. QED
    BY <1>1, <2>1, <2>6 DEF DirInv, Active, Finished
<1>13. QED
  BY <1>11, <1>12

\* Others remove what is empty and make directories: what stayed, stayed in
\* directories that did.
LEMMA OthersChange ==
  ASSUME DirInv, NEW e \in Entry, RemoveEntry(e) \/ Mkdir(e)
  PROVE  DirInv'
<1>1. /\ walk' = walk \/ (walk = "first" /\ walk' = "orphan")
      /\ maxDepth' = maxDepth /\ dirList' = dirList /\ unread' = unread
      /\ dirSize' = dirSize /\ dirBlocks' = dirBlocks /\ atStart' = atStart
  BY DEF RemoveEntry, Mkdir
<1>a. /\ walk' \in Active <=> walk \in Active
      /\ walk' \in Finished <=> walk \in Finished
      /\ \A w \in {"idle", "open", "read", "OK", "undefined"} : walk' = w <=> walk = w
  BY <1>1 DEF Active, Finished
<1>2. /\ present' \subseteq Entry /\ \A x \in present' \ {Root} : Parent[x] \in present'
  BY DEF DirInv, RemoveEntry, ChildrenOf, Mkdir, IsDirectory
<1>3. ASSUME NEW read, NEW counted, NEW stayed, WalkInv(read, counted, stayed)
      PROVE  \E rest : WalkInv(read, counted, rest)'
  <2> PICK rest : rest = stayed \intersect present'
    OBVIOUS
  <2>1. Stayed(stayed) /\ Counted(counted) /\ atStart \subseteq Entry /\ read \subseteq Entry
    BY <1>3 DEF WalkInv
  <2>2. Stayed(rest)'
    <3>1. rest \subseteq present' \intersect atStart'
      BY <1>1, <2>1 DEF Stayed
    <3>2. \A x \in present' : Kind[x] = "file" => x \in rest
      BY <2>1 DEF Stayed, RemoveEntry, Mkdir
    <3>3. \A x \in rest \ {Root} : Parent[x] \in rest
      BY <1>2, <2>1 DEF Stayed
    <3>4. QED
      BY <3>1, <3>2, <3>3 DEF Stayed
  <2>3. /\ FilesWithin(atStart)' = FilesWithin(atStart) /\ FilesWithin(rest)' \subseteq FilesWithin(stayed)
        /\ Waiting' = Waiting /\ FirstWaiting' = FirstWaiting
    BY <1>1, <1>a DEF FilesWithin, Waiting, FirstWaiting
  <2>4. \A k : Deep(k)' <=> Deep(k)
    BY <1>1 DEF Deep
  <2>5. Counted(counted)'
    BY <1>1, <2>1, <2>3 DEF Counted
  <2>6. ASSUME walk \in Active PROVE ListIsSound' /\ EachOnce(read, counted)' /\ NothingMissed(read, counted, rest)'
    <3>1. ListIsSound /\ EachOnce(read, counted) /\ NothingMissed(read, counted, stayed)
      BY <1>3, <2>6 DEF WalkInv
    <3>2. ListIsSound'
      BY <1>1, <1>a, <2>3, <2>4, <3>1 DEF ListIsSound
    <3>3. EachOnce(read, counted)'
      BY <1>1, <1>a, <2>3, <3>1 DEF EachOnce
    <3>4. NothingMissed(read, counted, rest)'
      BY <1>1, <2>3, <2>4, <3>1 DEF NothingMissed
    <3>5. QED
      BY <3>2, <3>3, <3>4
  <2>7. WalkInv(read, counted, rest)'
    BY <1>1, <1>3, <1>a, <2>1, <2>2, <2>3, <2>5, <2>6 DEF WalkInv
  <2>8. QED
    BY <2>7
<1>4. QED
  BY <1>1, <1>2, <1>3, <1>a DEF DirInv

(* However entries come and go while the tree is walked, whatever fails and  *)
(* however deep it is: a size that is returned counts each file within the   *)
(* depth that stayed, none twice and none that was not there in the          *)
(* beginning; and nothing is held when the walk returns.                     *)
THEOREM DirectorySizeIsRight == DirSpec => []SizeIsOfTheTree
<1>1. DirInit => DirInv
  BY EntryAssumption DEF DirInit, DirInv, Active, Finished
<1>2. DirInv /\ [DirNext]_dirVars => DirInv'
  <2> SUFFICES ASSUME DirInv, [DirNext]_dirVars PROVE DirInv'
    OBVIOUS
  <2>1. ASSUME NEW depth \in MaxDepths, StartWalk(depth) PROVE DirInv'
    BY <2>1, WalkStarts
  <2>2. CASE OpenDirectory
    BY <2>2, DirectoryOpened
  <2>3. CASE ReadFirst
    BY <2>3, DirectoryRead
  <2>4. CASE CheckEntryFails
    BY <2>4, FailedWalk DEF CheckEntryFails, Active
  <2>5. CASE NextDirectory
    BY <2>5, WalkGoesOn
  <2>6. ASSUME NEW e \in Entry, CheckEntry(e) PROVE DirInv'
    BY <2>6, EntryChecked
  <2>7. ASSUME NEW e \in Entry, RemoveEntry(e) \/ Mkdir(e) PROVE DirInv'
    BY <2>7, OthersChange
  <2>8. CASE UNCHANGED dirVars
    <3>1. DirInv' <=> DirInv
      BY <2>8 DEF dirVars, DirInv, WalkInv, Stayed, Counted, ListIsSound, EachOnce, NothingMissed,
                  FilesWithin, Waiting, FirstWaiting, Deep
    <3>2. QED
      BY <3>1
  <2>9. QED
    BY <2>1, <2>2, <2>3, <2>4, <2>5, <2>6, <2>7, <2>8 DEF DirNext
<1>3. DirInv => SizeIsOfTheTree
  BY DirInvImplies
<1>4. QED
  BY <1>1, <1>2, <1>3, PTL DEF DirSpec

-----------------------------------------------------------------------------
(* rcutils_repl_str.  The recursion that defines the string with every       *)
(* occurrence replaced goes to larger offsets: it has a solution.            *)
Unrolled(f, a, b, g, T, l, n) == f = [k \in l .. n |-> IF k \in T THEN b[k] \o f[g[k]] ELSE a[k]]
LEMMA UnrolledExists ==
  ASSUME NEW a, NEW b, NEW g, NEW T, NEW n \in Nat,
         \A k \in 0 .. n : k \in T => g[k] \in k + 1 .. n
  PROVE  \E f : Unrolled(f, a, b, g, T, 0, n)
<1> DEFINE B == {m \in Nat : m <= n /\ ~\E f : Unrolled(f, a, b, g, T, n - m, n)}
<1> SUFFICES ASSUME B # {} PROVE FALSE
  <2>1. n \notin B => \E f : Unrolled(f, a, b, g, T, n - n, n)
    OBVIOUS
  <2>2. n - n = 0
    OBVIOUS
  <2>3. QED
    BY <2>1, <2>2
<1>1. PICK m \in B : \A j \in B : m <= j
  BY LeastOf
<1>2. m \in Nat /\ m <= n /\ ~\E f : Unrolled(f, a, b, g, T, n - m, n)
  OBVIOUS
<1> PICK l : l = n - m
  OBVIOUS
<1>3. l \in 0 .. n /\ ~\E f : Unrolled(f, a, b, g, T, l, n)
  BY <1>2
<1>4. PICK f : l < n => Unrolled(f, a, b, g, T, l + 1, n)
  <2>1. CASE l < n
    <3>1. m - 1 \in Nat /\ m - 1 <= n /\ m - 1 \notin B /\ n - (m - 1) = l + 1
      BY <1>1, <1>2, <2>1
    <3>2. \E f : Unrolled(f, a, b, g, T, n - (m - 1), n)
      BY <3>1
    <3>3. QED
      BY <3>1, <3>2
  <2>2. CASE ~(l < n)
    BY <2>2
  <2>3. QED
    BY <2>1, <2>2
<1> DEFINE h == [k \in l .. n |-> IF k = l THEN (IF k \in T THEN b[k] \o f[g[k]] ELSE a[k]) ELSE f[k]]
           r == [k \in l .. n |-> IF k \in T THEN b[k] \o h[g[k]] ELSE a[k]]
<1>5. \A k \in l + 1 .. n : f[k] = IF k \in T THEN b[k] \o f[g[k]] ELSE a[k]
  <2>1. CASE l < n
    BY <1>4, <2>1 DEF Unrolled
  <2>2. CASE ~(l < n)
    BY <1>3, <2>2
  <2>3. QED
    BY <2>1, <2>2
<1>6. \A k \in l .. n : k \in T => g[k] \in l .. n /\ g[k] # l
  BY <1>3
<1>7. ASSUME NEW k \in l .. n PROVE h[k] = r[k]
  <2>1. k \in T => h[g[k]] = f[g[k]]
    BY <1>6
  <2>2. h[k] = IF k \in T THEN b[k] \o f[g[k]] ELSE a[k]
    <3>1. CASE k = l
      BY <3>1
    <3>2. CASE k # l
      <4>1. k \in l + 1 .. n /\ h[k] = f[k]
        BY <1>3, <3>2
      <4>2. QED
        BY <1>5, <4>1, Zenon
    <3>3. QED
      BY <3>1, <3>2
  <2>3. r[k] = IF k \in T THEN b[k] \o h[g[k]] ELSE a[k]
    OBVIOUS
  <2> HIDE DEF h, r
  <2>4. QED
    BY <2>1, <2>2, <2>3, Zenon
<1>8. h = r
  <2>1. DOMAIN h = l .. n /\ DOMAIN r = l .. n
    OBVIOUS
  <2>2. QED
    BY <1>7
<1>9. Unrolled(h, a, b, g, T, l, n)
  BY <1>8 DEF Unrolled
<1>10. QED
  BY <1>3, <1>9

\* What strstr returns
LEMMA StrstrIs ==
  ASSUME NEW s, NEW p, Len(s) \in Nat, Len(p) \in Nat, NEW k \in Nat, Matches(s, p, k) # {}
  PROVE  /\ Strstr(s, p, k) \in Nat /\ k <= Strstr(s, p, k)
         /\ Strstr(s, p, k) + Len(p) <= Len(s)
<1> DEFINE S == Matches(s, p, k)
<1>1. S \subseteq Nat /\ \A j \in S : k <= j /\ j + Len(p) <= Len(s)
  BY DEF Matches, OccursAt
<1>2. Strstr(s, p, k) = CHOOSE i \in S : \A j \in S : i <= j
  BY DEF Strstr
<1> HIDE DEF S
<1>3. S # {}
  BY DEF S
<1>4. \E i \in S : \A j \in S : i <= j
  BY <1>1, <1>3, LeastOf
<1>5. Strstr(s, p, k) \in S
  BY <1>2, <1>4
<1>6. QED
  BY <1>1, <1>5

LEMMA ReplacedIs ==
  ASSUME Len(subject) \in Nat, Len(pattern) \in Nat, Len(pattern) > 0
  PROVE  \A k \in 0 .. Len(subject) :
           Replaced[k] = IF Matches(subject, pattern, k) = {} THEN SubSeq(subject, k + 1, Len(subject))
                         ELSE SubSeq(subject, k + 1, Strstr(subject, pattern, k)) \o replacement
                                \o Replaced[Strstr(subject, pattern, k) + Len(pattern)]
<1> DEFINE n == Len(subject)
           S(k) == Strstr(subject, pattern, k)
           T == {k \in 0 .. n : Matches(subject, pattern, k) # {}}
           a == [k \in 0 .. n |-> SubSeq(subject, k + 1, n)]
           b == [k \in 0 .. n |-> SubSeq(subject, k + 1, S(k)) \o replacement]
           g == [k \in 0 .. n |-> S(k) + Len(pattern)]
<1>1. ASSUME NEW k \in 0 .. n, k \in T PROVE g[k] \in k + 1 .. n
  <2>1. S(k) \in Nat /\ k <= S(k) /\ S(k) + Len(pattern) <= n
    BY <1>1, StrstrIs
  <2>2. g[k] = S(k) + Len(pattern)
    OBVIOUS
  <2> HIDE DEF S
  <2>3. S(k) + Len(pattern) \in k + 1 .. n
    BY <2>1
  <2>4. QED
    BY <2>2, <2>3
<1>2. PICK f : Unrolled(f, a, b, g, T, 0, n)
  <2> HIDE DEF T, a, b, g, n
  <2>1. n \in Nat
    BY DEF n
  <2>2. QED
    BY <1>1, <2>1, UnrolledExists
<1> DEFINE F(x) == [k \in 0 .. n |-> IF Matches(subject, pattern, k) = {} THEN SubSeq(subject, k + 1, Len(subject))
                         ELSE SubSeq(subject, k + 1, S(k)) \o replacement \o x[S(k) + Len(pattern)]]
<1>3. f = F(f)
  <2>1. f = [k \in 0 .. n |-> IF k \in T THEN b[k] \o f[g[k]] ELSE a[k]]
    BY <1>2 DEF Unrolled
  <2>2. \A k \in 0 .. n : /\ k \in T <=> Matches(subject, pattern, k) # {}
                          /\ b[k] = SubSeq(subject, k + 1, S(k)) \o replacement
                          /\ g[k] = S(k) + Len(pattern) /\ a[k] = SubSeq(subject, k + 1, Len(subject))
    OBVIOUS
  <2> HIDE DEF T, a, b, g, n, S
  <2>3. QED
    BY <2>1, <2>2
<1>4. Replaced = F(Replaced)
  BY <1>3 DEF Replaced
<1>5. QED
  BY <1>4

LEMMA ReplacedType ==
  ASSUME subject \in Seq(TextChars), replacement \in Seq(TextChars), Len(pattern) \in Nat, Len(pattern) > 0
  PROVE  \A k \in 0 .. Len(subject) : Replaced[k] \in Seq(TextChars)
<1> DEFINE n == Len(subject)
           B == {m \in Nat : m <= n /\ Replaced[n - m] \notin Seq(TextChars)}
<1>1. n \in Nat
  OBVIOUS
<1>2. ASSUME B # {} PROVE FALSE
  <2>1. PICK m \in B : \A j \in B : m <= j
    BY <1>2, LeastOf
  <2> PICK k : k = n - m
    OBVIOUS
  <2>2. k \in 0 .. n /\ k \in Nat /\ m \in Nat /\ m <= n /\ Replaced[k] \notin Seq(TextChars)
    BY <1>1
  <2>3. Replaced[k] = IF Matches(subject, pattern, k) = {} THEN SubSeq(subject, k + 1, Len(subject))
                      ELSE SubSeq(subject, k + 1, Strstr(subject, pattern, k)) \o replacement
                             \o Replaced[Strstr(subject, pattern, k) + Len(pattern)]
    BY <1>1, <2>2, ReplacedIs
  <2>4. CASE Matches(subject, pattern, k) = {}
    <3>1. SubSeq(subject, k + 1, n) \in Seq(TextChars)
      BY <2>2
    <3>2. QED
      BY <2>2, <2>3, <2>4, <3>1
  <2>5. CASE Matches(subject, pattern, k) # {}
    <3> PICK f : f = Strstr(subject, pattern, k)
      OBVIOUS
    <3> PICK g : g = f + Len(pattern)
      OBVIOUS
    <3>1. f \in Nat /\ k <= f /\ g <= n
      BY <1>1, <2>2, <2>5, StrstrIs
    <3>2. n - g \in Nat /\ n - g < m /\ n - g <= n /\ n - (n - g) = g
      BY <1>1, <2>2, <3>1
    <3>3. n - g \notin B
      BY <2>1, <2>2, <3>2
    <3>4. Replaced[g] \in Seq(TextChars)
      BY <3>2, <3>3
    <3>5. SubSeq(subject, k + 1, f) \in Seq(TextChars)
      BY <1>1, <2>2, <3>1
    <3>6. SubSeq(subject, k + 1, f) \o replacement \in Seq(TextChars)
      BY <3>5, ConcatProperties, Zenon
    <3>7. (SubSeq(subject, k + 1, f) \o replacement) \o Replaced[g] \in Seq(TextChars)
      BY <3>4, <3>6, ConcatProperties, Zenon
    <3>8. QED
      BY <2>2, <2>3, <2>5, <3>7
  <2>6. QED
    BY <2>4, <2>5
<1>3. ASSUME NEW k \in 0 .. n PROVE Replaced[k] \in Seq(TextChars)
  <2>1. n - k \notin B
    BY <1>2, Zenon
  <2>2. n - k \in Nat /\ n - k <= n /\ n - (n - k) = k
    BY <1>1
  <2>3. QED
    BY <2>1, <2>2
<1>4. QED
  BY <1>3

\* A product with one factor more, and how the length of the result is bounded
LEMMA ProductStep ==
  ASSUME NEW d \in Int, NEW n \in Int
  PROVE  d * n \in Int /\ d * (n + 1) = d * n + d /\ d * 0 = 0 /\ d * 1 = d
OBVIOUS

LEMMA Products ==
  ASSUME NEW d \in Nat, NEW n \in Nat
  PROVE  d * n \in Nat /\ (d >= 1 => n <= d * n)
OBVIOUS

LEMMA LengthBound ==
  ASSUME NEW a \in Nat, NEW b \in Nat, NEW L \in Nat, NEW t \in Nat, NEW n \in Nat, NEW c \in Nat,
         c <= n, a + L * (n - c) <= b
  PROVE  a + (t - L) * c <= b + (t - L) * n
<1> PICK e : e = n - c
  OBVIOUS
<1>1. e \in Nat /\ n = c + e
  OBVIOUS
<1>2. (t - L) * n = (t - L) * c + (t - L) * e
  BY <1>1
<1>3. (t - L) * e = t * e - L * e
  BY <1>1
<1>4. t * e \in Nat /\ L * e \in Nat /\ (t - L) * c \in Int
  BY <1>1
<1> DEFINE x == t * e
           y == L * e
           z == (t - L) * c
           w == (t - L) * n
<1>5. w = z + (x - y) /\ x \in Nat /\ y \in Nat /\ z \in Int /\ a + y <= b
  BY <1>2, <1>3, <1>4
<1> HIDE DEF x, y, z, w
<1>6. a + z <= b + w
  BY <1>5
<1>7. QED
  BY <1>6 DEF z, w

\* The positions: each is the first occurrence behind the one before it, and
\* together the occurrences from one on have room in what has been searched.
Behind(i) == IF i = 0 THEN 0 ELSE posCache[i] + Len(pattern)
Greedy ==
  /\ posCache \in Seq(Nat) /\ pstr \in Nat /\ pstr <= Len(subject) /\ pstr = Behind(Len(posCache))
  /\ \A i \in 1 .. Len(posCache) :
       /\ Matches(subject, pattern, Behind(i - 1)) # {}
       /\ posCache[i] = Strstr(subject, pattern, Behind(i - 1))
       /\ posCache[i] + Len(pattern) * (Len(posCache) - (i - 1)) <= pstr
  /\ Len(pattern) * Len(posCache) <= pstr
\* What remains to be written when some occurrences have been replaced
ToWrite(c) == IF c < Len(posCache) THEN replacement \o Replaced[Behind(c + 1)] ELSE <<>>
Copying ==
  /\ Len(posCache) > 0 /\ Matches(subject, pattern, pstr) = {}
  /\ copied \in 0 .. Len(posCache) /\ retlen = ResultLength /\ replBlocks = 2
  /\ result \in Seq(TextChars) /\ result \o ToWrite(copied) = Replaced[0]
  /\ Len(result) = (IF copied < Len(posCache) THEN posCache[copied + 1] ELSE Len(subject))
                      + (Len(replacement) - Len(pattern)) * copied
ReplInv ==
  /\ subject \in Seq(TextChars) /\ pattern \in Seq(TextChars) /\ replacement \in Seq(TextChars)
  /\ cacheSize \in Nat /\ cacheInc \in Nat /\ cacheInc >= 1
  /\ replStage # "idle" => pattern # <<>>
  /\ replStage = "idle" => posCache = <<>> /\ pstr = 0
  /\ replStage \in {"idle", "search"} => copied = 0 /\ replBlocks = CacheBlocks
  /\ Greedy /\ Len(posCache) <= cacheSize /\ (posCache = <<>> => cacheSize = 0)
  /\ replStage = "copy" => Copying
  /\ EveryMatchIsReplaced

LEMMA ReplInvInitially ==
  ASSUME ReplInit
  PROVE  ReplInv
<1>1. /\ subject = <<>> /\ pattern = <<>> /\ replacement = <<>> /\ replStage = "idle" /\ pstr = 0 /\ posCache = <<>>
      /\ cacheSize = 0 /\ cacheInc = CacheInc /\ copied = 0 /\ replBlocks = 0
  BY DEF ReplInit
<1>2. Len(<<>>) = 0 /\ <<>> \in Seq(TextChars) /\ <<>> \in Seq(Nat)
  OBVIOUS
<1>3. CacheInc \in Nat /\ CacheInc >= 1
  BY CacheAssumption
<1>4. Greedy
  BY <1>1, <1>2 DEF Greedy, Behind
<1>5. EveryMatchIsReplaced
  BY <1>1, <1>2 DEF EveryMatchIsReplaced
<1>6. CacheBlocks = 0
  BY <1>1 DEF CacheBlocks
<1>7. QED
  BY <1>1, <1>2, <1>3, <1>4, <1>5, <1>6 DEF ReplInv

LEMMA ReplaceStarted ==
  ASSUME ReplInv, NEW s \in Subjects, NEW p \in Patterns, NEW t \in Replacements, StartReplace(s, p, t)
  PROVE  ReplInv'
<1>1. /\ replStage = "idle" /\ replStage' = "search" /\ subject' = s /\ pattern' = p /\ replacement' = t
      /\ pstr' = pstr /\ posCache' = posCache /\ cacheSize' = cacheSize /\ cacheInc' = cacheInc /\ copied' = copied
      /\ replBlocks' = replBlocks
  BY DEF StartReplace
<1>2. s \in Seq(TextChars) /\ p \in Seq(TextChars) /\ t \in Seq(TextChars) /\ p # <<>>
  BY PatternAssumption DEF Texts
<1>3. /\ posCache = <<>> /\ pstr = 0 /\ copied = 0 /\ replBlocks = CacheBlocks
      /\ cacheSize \in Nat /\ cacheInc \in Nat /\ cacheInc >= 1
  BY <1>1 DEF ReplInv
<1>4. Len(<<>>) = 0 /\ <<>> \in Seq(Nat) /\ Len(s) \in Nat /\ Len(p) \in Nat
  BY <1>2
<1>5. Len(p) * 0 = 0
  BY <1>4, ProductStep
<1>6. Greedy'
  BY <1>1, <1>3, <1>4, <1>5 DEF Greedy, Behind
<1>7. EveryMatchIsReplaced'
  BY <1>1, <1>3, <1>4 DEF EveryMatchIsReplaced
<1>8. CacheBlocks' = CacheBlocks
  BY <1>1 DEF CacheBlocks
<1>9. QED
  BY <1>1, <1>2, <1>3, <1>4, <1>6, <1>7, <1>8 DEF ReplInv

LEMMA SubjectStays ==
  ASSUME subject' = subject, pattern' = pattern, replacement' = replacement
  PROVE  Replaced' = Replaced
BY DEF Replaced, Matches, OccursAt, Strstr

LEMMA MatchFound ==
  ASSUME ReplInv, FindMatch
  PROVE  ReplInv'
<1>1. /\ replStage = "search" /\ replStage' = "search" /\ Matches(subject, pattern, pstr) # {}
      /\ subject' = subject /\ pattern' = pattern /\ replacement' = replacement /\ copied' = copied
  BY DEF FindMatch
<1> PICK m : m = Strstr(subject, pattern, pstr)
  OBVIOUS
<1> PICK n : n = Len(posCache)
  OBVIOUS
<1> PICK L : L = Len(pattern)
  OBVIOUS
<1>2. posCache' = Append(posCache, m) /\ pstr' = m + L
  BY DEF FindMatch, Resume
<1>3. /\ subject \in Seq(TextChars) /\ pattern \in Seq(TextChars) /\ replacement \in Seq(TextChars) /\ pattern # <<>>
      /\ cacheSize \in Nat /\ cacheInc \in Nat /\ cacheInc >= 1 /\ copied = 0 /\ replBlocks = CacheBlocks
      /\ Greedy /\ n <= cacheSize
  BY <1>1 DEF ReplInv
<1>4. /\ posCache \in Seq(Nat) /\ pstr \in Nat /\ pstr <= Len(subject) /\ pstr = Behind(n)
      /\ \A i \in 1 .. n :
           /\ Matches(subject, pattern, Behind(i - 1)) # {} /\ posCache[i] = Strstr(subject, pattern, Behind(i - 1))
           /\ posCache[i] + L * (n - (i - 1)) <= pstr
      /\ L * n <= pstr
  BY <1>3 DEF Greedy
<1>5. Len(subject) \in Nat /\ L \in Nat /\ L >= 1 /\ n \in Nat
  BY <1>3, <1>4
<1>6. m \in Nat /\ pstr <= m /\ m + L <= Len(subject)
  BY <1>1, <1>4, <1>5, StrstrIs
<1>7. /\ posCache' \in Seq(Nat) /\ Len(posCache') = n + 1 /\ posCache'[n + 1] = m
      /\ \A i \in 1 .. n : posCache'[i] = posCache[i]
  BY <1>2, <1>4, <1>6
<1>8. Behind(n + 1)' = m + L /\ \A i \in 0 .. n : Behind(i)' = Behind(i)
  <2>1. ASSUME NEW i \in 0 .. n PROVE Behind(i)' = Behind(i)
    <3>1. i = 0 \/ i \in 1 .. n
      BY <1>5
    <3>2. QED
      BY <1>1, <1>7, <3>1 DEF Behind
  <2>2. n + 1 # 0
    BY <1>5
  <2>3. QED
    BY <1>1, <1>7, <2>1, <2>2 DEF Behind
<1>9. ASSUME NEW i \in 1 .. n + 1
      PROVE  /\ Matches(subject, pattern, Behind(i - 1)') # {} /\ posCache'[i] = Strstr(subject, pattern, Behind(i - 1)')
             /\ posCache'[i] + L * (n + 1 - (i - 1)) <= pstr'
  <2>1. CASE i = n + 1
    <3>1. i - 1 = n /\ n \in 0 .. n /\ n + 1 - (i - 1) = 1
      BY <1>5, <2>1
    <3>2. Behind(i - 1)' = pstr
      BY <1>4, <1>8, <3>1
    <3>3. L * (n + 1 - (i - 1)) = L
      BY <1>5, <3>1, ProductStep
    <3>4. posCache'[i] = m /\ m + L <= m + L
      BY <1>5, <1>6, <1>7, <2>1
    <3>5. QED
      BY <1>1, <1>2, <3>2, <3>3, <3>4
  <2>2. CASE i # n + 1
    <3>1. i \in 1 .. n /\ i - 1 \in 0 .. n /\ n - (i - 1) \in Int /\ n + 1 - (i - 1) = n - (i - 1) + 1
      BY <1>5, <2>2
    <3>2. Behind(i - 1)' = Behind(i - 1) /\ posCache'[i] = posCache[i]
      BY <1>7, <1>8, <3>1
    <3>3. L * (n + 1 - (i - 1)) = L * (n - (i - 1)) + L /\ L * (n - (i - 1)) \in Int
      BY <1>5, <3>1, ProductStep
    <3> DEFINE x == L * (n - (i - 1))
               y == L * (n + 1 - (i - 1))
               z == posCache[i]
    <3>4. z \in Nat /\ x \in Int /\ y = x + L /\ z + x <= pstr
      BY <1>4, <3>1, <3>3, ElementOfSeq
    <3> HIDE DEF x, y, z
    <3>5. z + y <= m + L
      BY <1>4, <1>5, <1>6, <3>4
    <3>6. posCache[i] + L * (n + 1 - (i - 1)) <= pstr'
      BY <1>2, <3>5 DEF x, y, z
    <3>7. QED
      BY <1>4, <3>1, <3>2, <3>6
  <2>3. QED
    BY <2>1, <2>2
<1>10. L * (n + 1) <= pstr'
  <2>1. L * (n + 1) = L * n + L /\ L * n \in Int
    BY <1>5, ProductStep
  <2> DEFINE x == L * n
             y == L * (n + 1)
  <2>2. y = x + L /\ x \in Int /\ x <= pstr
    BY <1>4, <2>1
  <2> HIDE DEF x, y
  <2>3. y <= m + L
    BY <1>4, <1>5, <1>6, <2>2
  <2>4. QED
    BY <1>2, <2>3 DEF y
<1>11. Greedy'
  <2>1. pstr' \in Nat /\ pstr' <= Len(subject') /\ pstr' = Behind(Len(posCache))'
    BY <1>1, <1>2, <1>5, <1>6, <1>7, <1>8
  <2>2. \A i \in 1 .. Len(posCache') :
           /\ Matches(subject', pattern', Behind(i - 1)') # {} /\ posCache'[i] = Strstr(subject', pattern', Behind(i - 1)')
           /\ posCache'[i] + Len(pattern') * (Len(posCache') - (i - 1)) <= pstr'
    <3>1. Len(posCache') = n + 1 /\ Len(pattern') = L /\ pattern' = pattern /\ subject' = subject
      BY <1>1, <1>7
    <3>2. TAKE i \in 1 .. Len(posCache')
    <3>3. i \in 1 .. n + 1
      BY <3>1
    <3>4. /\ Matches(subject, pattern, Behind(i - 1)') # {} /\ posCache'[i] = Strstr(subject, pattern, Behind(i - 1)')
          /\ posCache'[i] + L * (n + 1 - (i - 1)) <= pstr'
      BY <1>9, <3>3
    <3>5. QED
      BY <3>1, <3>4
  <2>3. Len(pattern') * Len(posCache') <= pstr'
    BY <1>1, <1>7, <1>10
  <2>4. QED
    BY <1>7, <2>1, <2>2, <2>3 DEF Greedy
<1>12. n + 1 <= Len(subject)
  <2>1. n + 1 <= L * (n + 1) /\ L * (n + 1) \in Nat
    BY <1>5, Products
  <2> DEFINE y == L * (n + 1)
  <2> HIDE DEF y
  <2>2. y \in Nat /\ n + 1 <= y /\ y <= m + L
    BY <1>2, <1>10, <2>1 DEF y
  <2>3. QED
    BY <1>5, <1>6, <2>2
<1>13. /\ cacheSize' \in Nat /\ cacheInc' \in Nat /\ cacheInc' >= 1 /\ n + 1 <= cacheSize'
       /\ replBlocks' = CacheBlocks'
  <2>1. CASE CacheIsFull
    <3>1. /\ cacheSize' = cacheSize + cacheInc /\ replBlocks' = replBlocks + 1 - CacheBlocks
          /\ cacheInc' = IF cacheInc * CacheIncFactor > CacheIncMax THEN CacheIncMax ELSE cacheInc * CacheIncFactor
      BY <2>1 DEF FindMatch
    <3>2. CacheIncFactor * cacheInc \in Nat /\ cacheInc <= CacheIncFactor * cacheInc /\ CacheIncMax \in Nat /\ CacheIncMax >= 1
      BY <1>3, CacheAssumption, Products
    <3>3. cacheInc * CacheIncFactor = CacheIncFactor * cacheInc
      BY <1>3, CacheAssumption
    <3>4. cacheInc' \in Nat /\ cacheInc' >= 1
      BY <1>3, <3>1, <3>2, <3>3
    <3>5. cacheSize' > 0 /\ cacheSize' \in Nat /\ n + 1 <= cacheSize'
      BY <1>3, <1>5, <3>1
    <3>6. replBlocks' = 1
      BY <1>3, <3>1 DEF CacheBlocks
    <3>7. QED
      BY <3>4, <3>5, <3>6 DEF CacheBlocks
  <2>2. CASE ~CacheIsFull
    <3>1. cacheSize' = cacheSize /\ cacheInc' = cacheInc /\ replBlocks' = replBlocks
      BY <2>2 DEF FindMatch
    <3>2. n + 1 <= cacheSize
      BY <1>3, <1>5, <2>2 DEF CacheIsFull
    <3>3. QED
      BY <1>3, <3>1, <3>2 DEF CacheBlocks
  <2>3. QED
    BY <2>1, <2>2
<1>14. EveryMatchIsReplaced' /\ posCache' # <<>>
  BY <1>1, <1>5, <1>7, <1>12, <1>13 DEF EveryMatchIsReplaced
<1>15. QED
  BY <1>1, <1>3, <1>7, <1>11, <1>13, <1>14 DEF ReplInv

LEMMA SearchStays ==
  ASSUME Greedy, subject' = subject, pattern' = pattern, pstr' = pstr, posCache' = posCache
  PROVE  Greedy' /\ \A i \in 0 .. Len(posCache) : Behind(i)' = Behind(i)
<1>1. \A i : Behind(i)' = Behind(i)
  BY DEF Behind
<1>2. ASSUME NEW i \in 1 .. Len(posCache')
      PROVE  /\ Matches(subject', pattern', Behind(i - 1)') # {}
             /\ posCache'[i] = Strstr(subject', pattern', Behind(i - 1)')
             /\ posCache'[i] + Len(pattern') * (Len(posCache') - (i - 1)) <= pstr'
  BY <1>1 DEF Greedy
<1>3. /\ posCache' \in Seq(Nat) /\ pstr' \in Nat /\ pstr' <= Len(subject') /\ pstr' = Behind(Len(posCache))'
      /\ Len(pattern') * Len(posCache') <= pstr'
  BY <1>1 DEF Greedy
<1>4. QED
  BY <1>1, <1>2, <1>3 DEF Greedy

\* The search fails to grow the cache, or to allocate the result.
LEMMA SearchFails ==
  ASSUME ReplInv, replStage = "search", replStage' = "NULL", replBlocks' = replBlocks - CacheBlocks,
         UNCHANGED <<subject, pattern, replacement, pstr, posCache, cacheSize, cacheInc, copied, result, retlen>>
  PROVE  ReplInv'
<1>1. /\ replBlocks = CacheBlocks /\ pattern # <<>> /\ Greedy /\ EveryMatchIsReplaced
  BY DEF ReplInv
<1>2. replBlocks' = 0
  BY <1>1 DEF CacheBlocks
<1>3. Greedy'
  BY <1>1, SearchStays
<1>4. EveryMatchIsReplaced'
  BY <1>1, <1>2 DEF EveryMatchIsReplaced
<1>5. QED
  BY <1>1, <1>3, <1>4 DEF ReplInv

\* What there is to replace from the end of an occurrence on
LEMMA ReplacedBehind ==
  ASSUME ReplInv, replStage # "idle", Matches(subject, pattern, pstr) = {}, NEW i \in 0 .. Len(posCache)
  PROVE  LET n == Len(posCache)
             to == IF i = n THEN Len(subject) ELSE posCache[i + 1]
         IN  /\ Behind(i) \in 0 .. Len(subject) /\ to \in Nat /\ Behind(i) <= to /\ to <= Len(subject)
             /\ SubSeq(subject, Behind(i) + 1, to) \in Seq(TextChars)
             /\ Len(SubSeq(subject, Behind(i) + 1, to)) = to - Behind(i)
             /\ Replaced[Behind(i)] = SubSeq(subject, Behind(i) + 1, to) \o ToWrite(i)
<1> PICK n : n = Len(posCache)
  OBVIOUS
<1> PICK L : L = Len(pattern)
  OBVIOUS
<1> PICK b : b = Behind(i)
  OBVIOUS
<1> PICK to : to = IF i = n THEN Len(subject) ELSE posCache[i + 1]
  OBVIOUS
<1>1. /\ subject \in Seq(TextChars) /\ pattern \in Seq(TextChars) /\ replacement \in Seq(TextChars) /\ pattern # <<>> /\ Greedy
  BY DEF ReplInv
<1>2. /\ posCache \in Seq(Nat) /\ pstr \in Nat /\ pstr <= Len(subject) /\ pstr = Behind(n)
      /\ \A j \in 1 .. n :
           /\ Matches(subject, pattern, Behind(j - 1)) # {} /\ posCache[j] = Strstr(subject, pattern, Behind(j - 1))
           /\ posCache[j] + L * (n - (j - 1)) <= pstr
  BY <1>1 DEF Greedy
<1>3. Len(subject) \in Nat /\ L \in Nat /\ L >= 1 /\ n \in Nat /\ i \in Nat /\ i <= n
  BY <1>1, <1>2
<1>4. b \in 0 .. Len(subject)
  <2>1. CASE i = 0
    BY <1>3, <2>1 DEF Behind
  <2>2. CASE i # 0
    <3>1. i \in 1 .. n /\ n - (i - 1) \in Nat /\ n - (i - 1) >= 1
      BY <1>3, <2>2
    <3> PICK e : e = n - (i - 1)
      OBVIOUS
    <3>2. L * e \in Nat /\ e * L \in Nat /\ L <= e * L /\ e * L = L * e
      BY <1>3, <3>1, Products
    <3> DEFINE x == L * e
               y == posCache[i]
    <3>3. y \in Nat /\ y + x <= pstr /\ x \in Nat /\ L <= x
      BY <1>2, <3>1, <3>2, SMTT(30)
    <3>4. b = y + L
      BY <2>2 DEF Behind
    <3> HIDE DEF x, y
    <3>5. QED
      BY <1>2, <1>3, <3>3, <3>4
  <2>3. QED
    BY <2>1, <2>2
<1>5. \A k \in 0 .. Len(subject) :
           Replaced[k] = IF Matches(subject, pattern, k) = {} THEN SubSeq(subject, k + 1, Len(subject))
                         ELSE SubSeq(subject, k + 1, Strstr(subject, pattern, k)) \o replacement
                                \o Replaced[Strstr(subject, pattern, k) + Len(pattern)]
  BY <1>3, ReplacedIs
<1>6. CASE i = n
  <2>1. Matches(subject, pattern, b) = {} /\ to = Len(subject) /\ ToWrite(i) = <<>>
    BY <1>2, <1>3, <1>6 DEF ToWrite
  <2>2. Replaced[b] = SubSeq(subject, b + 1, to)
    BY <1>4, <1>5, <2>1
  <2>3. SubSeq(subject, b + 1, to) \in Seq(TextChars) /\ Len(SubSeq(subject, b + 1, to)) = to - b
    BY <1>1, <1>3, <1>4, <2>1
  <2>4. SubSeq(subject, b + 1, to) \o <<>> = SubSeq(subject, b + 1, to)
    BY <2>3, ConcatEmptySeq, Zenon
  <2>5. to \in Nat /\ b <= to /\ to <= Len(subject)
    BY <1>3, <1>4, <2>1
  <2>6. QED
    BY <1>4, <2>1, <2>2, <2>3, <2>4, <2>5
<1>7. CASE i # n
  <2>1. i + 1 \in 1 .. n /\ i + 1 - 1 = i /\ i < n
    BY <1>3, <1>7
  <2>2. Matches(subject, pattern, b) # {} /\ to = Strstr(subject, pattern, b) /\ ToWrite(i) = replacement \o Replaced[to + L]
    <3>1. Matches(subject, pattern, Behind(i + 1 - 1)) # {} /\ posCache[i + 1] = Strstr(subject, pattern, Behind(i + 1 - 1))
      BY <1>2, <2>1
    <3>2. Behind(i + 1) = posCache[i + 1] + L /\ to = posCache[i + 1]
      BY <1>3, <1>7, <2>1 DEF Behind
    <3>3. QED
      BY <2>1, <3>1, <3>2 DEF ToWrite
  <2>3. to \in Nat /\ b <= to /\ to + L <= Len(subject) /\ to <= Len(subject)
    <3>1. to \in Nat /\ b <= to /\ to + L <= Len(subject)
      BY <1>3, <1>4, <2>2, StrstrIs
    <3>2. QED
      BY <1>3, <3>1
  <2>4. SubSeq(subject, b + 1, to) \in Seq(TextChars) /\ Len(SubSeq(subject, b + 1, to)) = to - b
    BY <1>1, <1>3, <1>4, <2>3
  <2>5. Replaced[b] = (SubSeq(subject, b + 1, to) \o replacement) \o Replaced[to + L]
    BY <1>4, <1>5, <2>2
  <2>6. QED
    <3>1. to + L \in 0 .. Len(subject)
      BY <1>3, <2>3
    <3>2. Replaced[to + L] \in Seq(TextChars)
      BY <1>1, <1>3, <3>1, ReplacedType
    <3> DEFINE x == SubSeq(subject, b + 1, to)
               y == replacement
               z == Replaced[to + L]
    <3>3. x \in Seq(TextChars) /\ y \in Seq(TextChars) /\ z \in Seq(TextChars)
      BY <1>1, <2>4, <3>2
    <3> HIDE DEF x, y, z
    <3>4. (x \o y) \o z = x \o (y \o z)
      BY ONLY <3>3, ConcatAssociative, SMTT(30)
    <3>5. Replaced[b] = SubSeq(subject, b + 1, to) \o ToWrite(i)
      BY <2>2, <2>5, <3>4 DEF x, y, z
    <3>6. QED
      BY <1>4, <2>3, <2>4, <3>5
<1>8. QED
  BY <1>6, <1>7

\* What has been written has room in the result.
ReplFits(s, p, t, positions, c) ==
  LET n == Len(positions)
      d == Len(t) - Len(p)
  IN  (IF c < n THEN positions[c + 1] ELSE Len(s)) + d * c <= Len(s) + d * n
LEMMA PositionsFit ==
  ASSUME subject \in Seq(TextChars), pattern \in Seq(TextChars), replacement \in Seq(TextChars), Greedy,
         NEW c \in 0 .. Len(posCache)
  PROVE  ReplFits(subject, pattern, replacement, posCache, c)
<1> PICK n : n = Len(posCache)
  OBVIOUS
<1> PICK L : L = Len(pattern)
  OBVIOUS
<1> PICK t : t = Len(replacement)
  OBVIOUS
<1>1. /\ posCache \in Seq(Nat) /\ pstr \in Nat /\ pstr <= Len(subject)
      /\ \A i \in 1 .. n : posCache[i] + L * (n - (i - 1)) <= pstr
  BY DEF Greedy
<1>2. n \in Nat /\ L \in Nat /\ t \in Nat /\ Len(subject) \in Nat /\ c \in Nat /\ c <= n
  BY <1>1
<1>3. CASE c < n
  <2> PICK i : i = c + 1
    OBVIOUS
  <2>1. i \in 1 .. n /\ i - 1 = c
    BY <1>2, <1>3
  <2>2. posCache[i] \in Nat /\ posCache[i] + L * (n - c) <= pstr
    BY <1>1, <2>1
  <2> DEFINE a == posCache[i]
             x == L * (n - c)
  <2>3. a \in Nat /\ a + x <= pstr /\ x \in Int
    BY <1>2, <2>2
  <2> HIDE DEF a, x
  <2>4. a + x <= Len(subject)
    BY <1>1, <1>2, <2>3
  <2>5. a + (t - L) * c <= Len(subject) + (t - L) * n
    BY <1>2, <2>3, <2>4, LengthBound DEF x
  <2>6. QED
    BY <1>3, <2>5 DEF ReplFits, a
<1>4. CASE c = n
  <2>1. (t - L) * n \in Int
    BY <1>2, ProductStep
  <2>2. Len(subject) + (t - L) * c <= Len(subject) + (t - L) * n /\ ~(c < n)
    BY <1>2, <1>4, <2>1
  <2>3. QED
    BY <2>2 DEF ReplFits
<1>5. QED
  BY <1>2, <1>3, <1>4
LEMMA ResultFits ==
  ASSUME subject \in Seq(TextChars), pattern \in Seq(TextChars), replacement \in Seq(TextChars), Greedy,
         UNCHANGED <<subject, pattern, replacement, posCache>>, Copying'
  PROVE  Len(result') <= retlen'
<1> PICK c : c = copied'
  OBVIOUS
<1>1. c \in 0 .. Len(posCache)
  BY DEF Copying
<1>2. ReplFits(subject, pattern, replacement, posCache, c)
  BY <1>1, PositionsFit
<1>3. /\ Len(result') = (IF c < Len(posCache) THEN posCache[c + 1] ELSE Len(subject))
                          + (Len(replacement) - Len(pattern)) * c
      /\ retlen' = Len(subject) + (Len(replacement) - Len(pattern)) * Len(posCache)
  BY DEF Copying, ResultLength
<1>4. QED
  BY <1>2, <1>3 DEF ReplFits

LEMMA ResultAllocated ==
  ASSUME ReplInv, AllocateResult
  PROVE  ReplInv'
<1>1. /\ replStage = "search" /\ Matches(subject, pattern, pstr) = {} /\ retlen' = ResultLength
      /\ subject' = subject /\ pattern' = pattern /\ replacement' = replacement /\ pstr' = pstr /\ posCache' = posCache
      /\ cacheSize' = cacheSize /\ cacheInc' = cacheInc /\ copied' = copied /\ replBlocks' = replBlocks + 1
  BY DEF AllocateResult
<1>2. /\ subject \in Seq(TextChars) /\ pattern \in Seq(TextChars) /\ replacement \in Seq(TextChars) /\ pattern # <<>>
      /\ cacheSize \in Nat /\ cacheInc \in Nat /\ cacheInc >= 1 /\ copied = 0 /\ replBlocks = CacheBlocks
      /\ Greedy /\ Len(posCache) <= cacheSize /\ Len(posCache) <= Len(subject)
  BY <1>1 DEF ReplInv, EveryMatchIsReplaced
<1>3. Replaced' = Replaced /\ Greedy' /\ CacheBlocks' = CacheBlocks
  BY <1>1, <1>2, SubjectStays, SearchStays DEF CacheBlocks
<1> PICK n : n = Len(posCache)
  OBVIOUS
<1> PICK d : d = Len(replacement) - Len(pattern)
  OBVIOUS
<1>4. n \in Nat /\ d \in Int /\ posCache \in Seq(Nat) /\ Len(subject) \in Nat /\ Len(replacement) \in Nat /\ Len(pattern) \in Nat
  BY <1>2 DEF Greedy
<1>5. d * 0 = 0 /\ retlen' = Len(subject) + d * n
  BY <1>1, <1>4, ProductStep DEF ResultLength
<1>6. Behind(0) = 0 /\ 0 \in 0 .. Len(posCache)
  BY <1>4 DEF Behind
<1> PICK to : to = IF 0 = n THEN Len(subject) ELSE posCache[0 + 1]
  OBVIOUS
<1>7. /\ to \in Nat /\ to <= Len(subject) /\ Len(SubSeq(subject, 1, to)) = to
      /\ SubSeq(subject, 1, to) \in Seq(TextChars) /\ Replaced[0] = SubSeq(subject, 1, to) \o ToWrite(0)
  <2>1. /\ to \in Nat /\ to <= Len(subject) /\ SubSeq(subject, Behind(0) + 1, to) \in Seq(TextChars)
        /\ Len(SubSeq(subject, Behind(0) + 1, to)) = to - Behind(0)
        /\ Replaced[Behind(0)] = SubSeq(subject, Behind(0) + 1, to) \o ToWrite(0)
    BY <1>1, <1>6, ReplacedBehind
  <2>2. 0 + 1 = 1 /\ to - 0 = to
    BY <2>1
  <2>3. QED
    BY <1>6, <2>1, <2>2
<1>8. CASE posCache = <<>>
  <2>1. replStage' = "done" /\ result' = subject
    BY <1>8 DEF AllocateResult
  <2>2. n = 0 /\ to = Len(subject) /\ ToWrite(0) = <<>>
    BY <1>8 DEF ToWrite
  <2>3. SubSeq(subject, 1, to) = subject
    BY <1>2, <2>2
  <2>4. result' = Replaced'[0]
    BY <1>2, <1>3, <1>7, <2>1, <2>2, <2>3, ConcatEmptySeq, Zenon
  <2>5. Len(result') = retlen' /\ Len(result') \in Nat
    BY <1>4, <1>5, <2>1, <2>2
  <2>6. replBlocks' = 1
    <3>1. cacheSize = 0
      BY <1>8 DEF ReplInv
    <3>2. QED
      BY <1>1, <1>2, <3>1 DEF CacheBlocks
  <2>7. EveryMatchIsReplaced'
    BY <1>1, <1>2, <2>1, <2>4, <2>5, <2>6 DEF EveryMatchIsReplaced
  <2>8. QED
    BY <1>1, <1>2, <1>3, <2>1, <2>7 DEF ReplInv
<1>9. CASE posCache # <<>>
  <2>1. replStage' = "copy" /\ result' = SubSeq(subject, 1, posCache[1])
    BY <1>9 DEF AllocateResult
  <2>2. n > 0 /\ n >= 1 /\ 1 \in 1 .. n /\ to = posCache[1]
    BY <1>4, <1>9
  <2>3. result' \in Seq(TextChars) /\ Len(result') = posCache[1] /\ posCache[1] \in Nat /\ result' \o ToWrite(0) = Replaced[0]
    BY <1>7, <2>1, <2>2
  <2>4. ToWrite(0)' = ToWrite(0)
    BY <1>1, <1>3 DEF ToWrite, Behind
  <2>5. replBlocks' = 2
    BY <1>1, <1>2, <1>4, <2>2 DEF CacheBlocks
  <2>6. posCache[1] = posCache[1] + d * 0
    BY <1>5, <2>3
  <2>7. Copying'
    <3>1. Matches(subject', pattern', pstr') = {} /\ Len(posCache') > 0 /\ copied' = 0 /\ 0 \in 0 .. Len(posCache')
      BY <1>1, <1>2, <1>4, <2>2
    <3>2. retlen' = ResultLength'
      BY <1>1 DEF ResultLength
    <3>3. result' \o ToWrite(copied)' = Replaced'[0]
      BY <1>1, <1>2, <1>3, <2>3, <2>4
    <3>4. Len(result') = (IF copied' < Len(posCache') THEN posCache'[copied' + 1] ELSE Len(subject'))
                            + (Len(replacement') - Len(pattern')) * copied'
      <4>1. copied' < Len(posCache') /\ copied' + 1 = 1 /\ copied' = 0
        BY <1>1, <1>2, <2>2
      <4>2. Len(replacement') - Len(pattern') = d
        BY <1>1
      <4>3. QED
        BY <1>1, <2>3, <2>6, <4>1, <4>2
    <3>5. QED
      BY <2>3, <2>5, <3>1, <3>2, <3>3, <3>4 DEF Copying
  <2>8. Len(result') <= retlen'
    BY <1>1, <1>2, <1>3, <2>7, ResultFits
  <2>9. EveryMatchIsReplaced'
    BY <1>1, <1>2, <2>1, <2>8 DEF EveryMatchIsReplaced
  <2>10. QED
    BY <1>1, <1>2, <1>3, <1>9, <2>1, <2>7, <2>9 DEF ReplInv
<1>10. QED
  BY <1>8, <1>9

LEMMA MatchReplaced ==
  ASSUME ReplInv, ReplaceMatch
  PROVE  ReplInv'
<1>1. /\ replStage = "copy" /\ replStage' = "copy" /\ copied < Len(posCache) /\ copied' = copied + 1
      /\ subject' = subject /\ pattern' = pattern /\ replacement' = replacement /\ pstr' = pstr /\ posCache' = posCache
      /\ cacheSize' = cacheSize /\ cacheInc' = cacheInc /\ retlen' = retlen /\ replBlocks' = replBlocks
  BY DEF ReplaceMatch
<1> PICK n : n = Len(posCache)
  OBVIOUS
<1> PICK d : d = Len(replacement) - Len(pattern)
  OBVIOUS
<1> PICK c : c = copied + 1
  OBVIOUS
<1> PICK b : b = Behind(c)
  OBVIOUS
<1> PICK to : to = IF c = n THEN Len(subject) ELSE posCache[c + 1]
  OBVIOUS
<1>2. /\ subject \in Seq(TextChars) /\ pattern \in Seq(TextChars) /\ replacement \in Seq(TextChars) /\ pattern # <<>>
      /\ cacheSize \in Nat /\ cacheInc \in Nat /\ cacheInc >= 1 /\ Greedy /\ Len(posCache) <= cacheSize
      /\ (posCache = <<>> => cacheSize = 0) /\ Len(posCache) <= Len(subject) /\ Copying
  BY <1>1 DEF ReplInv, EveryMatchIsReplaced
<1>3. /\ n > 0 /\ Matches(subject, pattern, pstr) = {} /\ copied \in 0 .. n /\ retlen = ResultLength /\ replBlocks = 2
      /\ result \in Seq(TextChars) /\ result \o ToWrite(copied) = Replaced[0] /\ Len(result) = posCache[c] + d * copied
  BY <1>1, <1>2 DEF Copying
<1>4. /\ n \in Nat /\ posCache \in Seq(Nat) /\ copied \in Nat /\ copied < n /\ c \in 1 .. n /\ c \in 0 .. n /\ c # 0 /\ c \in Nat
      /\ Len(pattern) \in Nat /\ Len(replacement) \in Nat /\ d \in Int /\ Len(subject) \in Nat
  <2>1. posCache \in Seq(Nat)
    BY <1>2 DEF Greedy
  <2>2. Len(pattern) \in Nat /\ Len(replacement) \in Nat /\ Len(subject) \in Nat /\ n \in Nat
    BY <1>2, <2>1
  <2>3. copied \in Nat /\ copied < n
    BY <1>1, <1>3
  <2>4. QED
    BY <2>1, <2>2, <2>3
<1>5. posCache[c] \in Nat /\ b = posCache[c] + Len(pattern)
  BY <1>4 DEF Behind
<1>6. result' = (result \o replacement) \o SubSeq(subject, b + 1, to)
  <2>1. to = IF copied + 1 = Len(posCache) THEN Len(subject) ELSE posCache[copied + 2]
    <3>1. c + 1 = copied + 2
      BY <1>4
    <3>2. QED
      BY <3>1
  <2>2. QED
    BY <1>5, <2>1 DEF ReplaceMatch
<1> PICK mid : mid = SubSeq(subject, b + 1, to)
  OBVIOUS
<1>7. /\ b \in 0 .. Len(subject) /\ to \in Nat /\ b <= to /\ mid \in Seq(TextChars) /\ Len(mid) = to - b
      /\ Replaced[b] = mid \o ToWrite(c)
  BY <1>1, <1>3, <1>4, ReplacedBehind
<1>8. ToWrite(copied) = replacement \o (mid \o ToWrite(c))
  BY <1>1, <1>7 DEF ToWrite
<1>9. ToWrite(c) \in Seq(TextChars)
  <2>1. CASE c < n
    <3>1. c + 1 \in 0 .. Len(posCache) /\ Behind(c + 1) \in 0 .. Len(subject)
      <4>1. c + 1 \in 0 .. Len(posCache)
        BY <1>4, <2>1
      <4>2. QED
        BY <1>1, <1>3, <4>1, ReplacedBehind
    <3>2. Replaced[Behind(c + 1)] \in Seq(TextChars)
      BY <1>2, <1>4, <3>1, ReplacedType
    <3>3. replacement \o Replaced[Behind(c + 1)] \in Seq(TextChars)
      BY <1>2, <3>2, ConcatProperties, Zenon
    <3>4. QED
      BY <2>1, <3>3 DEF ToWrite
  <2>2. CASE ~(c < n)
    BY <2>2 DEF ToWrite
  <2>3. QED
    BY <2>1, <2>2
<1>10. result' \in Seq(TextChars) /\ Len(result') = Len(result) + Len(replacement) + Len(mid)
  <2>1. result \o replacement \in Seq(TextChars) /\ Len(result \o replacement) = Len(result) + Len(replacement)
    BY <1>2, <1>3, ConcatProperties, ZenonT(30)
  <2> PICK u : u = result \o replacement
    OBVIOUS
  <2>2. u \in Seq(TextChars) /\ Len(u) = Len(result) + Len(replacement) /\ result' = u \o mid
    BY <1>6, <2>1
  <2>3. u \o mid \in Seq(TextChars) /\ Len(u \o mid) = Len(u) + Len(mid)
    BY ONLY <1>7, <2>2, ConcatProperties, Zenon
  <2>4. QED
    BY <2>2, <2>3
<1>11. result' \o ToWrite(c) = Replaced[0]
  <2> DEFINE x == result
             y == replacement
             z == mid
             w == ToWrite(c)
  <2>1. x \in Seq(TextChars) /\ y \in Seq(TextChars) /\ z \in Seq(TextChars) /\ w \in Seq(TextChars)
    BY <1>2, <1>3, <1>7, <1>9
  <2>2. result' = (x \o y) \o z /\ x \o (y \o (z \o w)) = Replaced[0]
    BY <1>3, <1>6, <1>8
  <2> HIDE DEF x, y, z, w
  <2>3. x \o y \in Seq(TextChars) /\ z \o w \in Seq(TextChars)
    BY <2>1, ConcatProperties, Zenon
  <2> PICK u : u = x \o y
    OBVIOUS
  <2> PICK v : v = z \o w
    OBVIOUS
  <2>4. u \in Seq(TextChars) /\ v \in Seq(TextChars)
    BY <2>3
  <2>5. (u \o z) \o w = u \o (z \o w)
    BY ONLY <2>1, <2>4, ConcatAssociative, SMTT(30)
  <2>6. (x \o y) \o v = x \o (y \o v)
    BY ONLY <2>1, <2>4, ConcatAssociative, SMTT(30)
  <2>7. QED
    BY <2>2, <2>5, <2>6 DEF w
<1>12. Len(result') = to + d * c
  <2>1. d * c = d * copied + d /\ d * copied \in Int
    BY <1>4, ProductStep
  <2> DEFINE x == d * copied
             y == d * c
             z == posCache[c]
  <2>2. y = x + d /\ x \in Int /\ z \in Nat /\ b = z + Len(pattern) /\ Len(result) = z + x
    BY <1>3, <1>5, <2>1
  <2> HIDE DEF x, y, z
  <2>3. Len(result') = z + x + Len(replacement) + (to - b)
    BY <1>7, <1>10, <2>2
  <2> PICK r : r = Len(replacement)
    OBVIOUS
  <2> PICK p : p = Len(pattern)
    OBVIOUS
  <2>4. z + x + r + (to - b) = to + y
    <3>1. x \in Int /\ z \in Int /\ r \in Int /\ p \in Int /\ to \in Int /\ b = z + p /\ y = x + (r - p)
      BY <1>4, <1>7, <2>2
    <3>2. QED
      BY ONLY <3>1
  <2>5. QED
    BY <2>3, <2>4 DEF y
<1>13. Replaced' = Replaced /\ Greedy' /\ ToWrite(c)' = ToWrite(c)
  <2>1. Replaced' = Replaced /\ Greedy'
    BY <1>1, <1>2, SubjectStays, SearchStays
  <2>2. QED
    BY <1>1, <2>1 DEF ToWrite, Behind
<1>14. Copying'
  <2>1. /\ Len(posCache') > 0 /\ Matches(subject', pattern', pstr') = {} /\ copied' \in 0 .. Len(posCache')
        /\ retlen' = ResultLength' /\ replBlocks' = 2
    BY <1>1, <1>3, <1>4 DEF ResultLength
  <2>2. result' \o ToWrite(copied)' = Replaced'[0]
    BY <1>1, <1>11, <1>13
  <2>3. Len(result') = (IF copied' < Len(posCache') THEN posCache'[copied' + 1] ELSE Len(subject'))
                            + (Len(replacement') - Len(pattern')) * copied'
    <3>1. copied' = c /\ posCache' = posCache /\ Len(replacement') - Len(pattern') = d /\ subject' = subject
      BY <1>1
    <3>2. to = IF c < n THEN posCache[c + 1] ELSE Len(subject)
      BY <1>4
    <3>3. QED
      BY <1>12, <3>1, <3>2
  <2>4. QED
    BY <1>10, <2>1, <2>2, <2>3 DEF Copying
<1>15. Len(result') <= retlen'
  BY <1>1, <1>2, <1>14, ResultFits
<1>16. EveryMatchIsReplaced'
  BY <1>1, <1>2, <1>15 DEF EveryMatchIsReplaced
<1>17. QED
  BY <1>1, <1>2, <1>13, <1>14, <1>16 DEF ReplInv

LEMMA ResultReturned ==
  ASSUME ReplInv, ReturnResult
  PROVE  ReplInv'
<1>1. /\ replStage = "copy" /\ replStage' = "done" /\ copied = Len(posCache) /\ replBlocks' = replBlocks - CacheBlocks
      /\ subject' = subject /\ pattern' = pattern /\ replacement' = replacement /\ pstr' = pstr /\ posCache' = posCache
      /\ cacheSize' = cacheSize /\ cacheInc' = cacheInc /\ copied' = copied /\ retlen' = retlen /\ result' = result
  BY DEF ReturnResult
<1>2. Copying /\ Greedy /\ EveryMatchIsReplaced /\ pattern # <<>> /\ Len(posCache) <= cacheSize /\ cacheSize \in Nat
  BY <1>1 DEF ReplInv
<1>3. Len(posCache) \in Nat /\ Len(posCache) > 0 /\ replBlocks = 2 /\ result \in Seq(TextChars) /\ retlen = ResultLength
  BY <1>1, <1>2 DEF Copying, Greedy
<1>4. replBlocks' = 1
  BY <1>1, <1>2, <1>3 DEF CacheBlocks
<1>5. ~(copied < Len(posCache))
  BY <1>1, <1>3
<1>6. result \o <<>> = Replaced[0] /\ Len(result) = retlen
  BY <1>1, <1>2, <1>3, <1>5 DEF Copying, ToWrite, ResultLength
<1>7. result = Replaced[0]
  BY <1>3, <1>6, ConcatEmptySeq, Zenon
<1>8. Replaced' = Replaced /\ Greedy'
  BY <1>1, <1>2, SubjectStays, SearchStays
<1>9. EveryMatchIsReplaced'
  BY <1>1, <1>2, <1>4, <1>6, <1>7, <1>8 DEF EveryMatchIsReplaced
<1>10. QED
  BY <1>1, <1>2, <1>8, <1>9 DEF ReplInv

(* For every string, pattern and replacement, whichever allocation fails:    *)
(* the result of rcutils_repl_str is the string with every occurrence        *)
(* replaced, it has room in what was allocated, and nothing else is left.    *)
THEOREM MatchesAreReplaced == ReplSpec => []EveryMatchIsReplaced
<1>1. ReplInit => ReplInv
  BY ReplInvInitially
<1>2. ReplInv /\ [ReplNext]_replVars => ReplInv'
  <2> SUFFICES ASSUME ReplInv, [ReplNext]_replVars PROVE ReplInv'
    OBVIOUS
  <2>1. CASE \E s \in Subjects, p \in Patterns, t \in Replacements : StartReplace(s, p, t)
    BY <2>1, ReplaceStarted
  <2>2. CASE FindMatch
    BY <2>2, MatchFound
  <2>3. CASE FindMatchFails
    BY <2>3, SearchFails DEF FindMatchFails
  <2>4. CASE AllocateResult
    BY <2>4, ResultAllocated
  <2>5. CASE AllocateResultFails
    BY <2>5, SearchFails DEF AllocateResultFails
  <2>6. CASE ReplaceMatch
    BY <2>6, MatchReplaced
  <2>7. CASE ReturnResult
    BY <2>7, ResultReturned
  <2>8. CASE UNCHANGED replVars
    <3>1. /\ subject' = subject /\ pattern' = pattern /\ replacement' = replacement /\ replStage' = replStage
          /\ pstr' = pstr /\ posCache' = posCache /\ cacheSize' = cacheSize /\ cacheInc' = cacheInc
          /\ copied' = copied /\ result' = result /\ retlen' = retlen /\ replBlocks' = replBlocks
      BY <2>8 DEF replVars
    <3>2. Replaced' = Replaced /\ Greedy'
      BY <3>1, SubjectStays, SearchStays DEF ReplInv
    <3>3. EveryMatchIsReplaced'
      BY <3>1, <3>2 DEF ReplInv, EveryMatchIsReplaced
    <3>4. Copying => Copying'
      BY <3>1, <3>2 DEF Copying, ToWrite, Behind, ResultLength
    <3>5. QED
      BY <3>1, <3>2, <3>3, <3>4 DEF ReplInv, CacheBlocks
  <2>9. QED
    BY <2>1, <2>2, <2>3, <2>4, <2>5, <2>6, <2>7, <2>8 DEF ReplNext
<1>3. ReplInv => EveryMatchIsReplaced
  BY DEF ReplInv
<1>4. QED
  BY <1>1, <1>2, <1>3, PTL DEF ReplSpec

-----------------------------------------------------------------------------
(* rcutils_time_point_value_as_..._string.  Recursions that multiply and add *)
(* have a solution.                                                          *)
Linear(f, z, a, b, n) == f \in [0 .. n -> Int] /\ f[0] = z /\ \A k \in 1 .. n : f[k] = a[k] * f[k - 1] + b[k]
LEMMA LinearExists ==
  ASSUME NEW n \in Nat, NEW z \in Int, NEW a, NEW b, \A k \in 1 .. n : a[k] \in Int /\ b[k] \in Int
  PROVE  \E f : Linear(f, z, a, b, n)
<1> DEFINE B == {m \in Nat : m <= n /\ ~\E f : Linear(f, z, a, b, m)}
<1> SUFFICES ASSUME B # {} PROVE FALSE
  OBVIOUS
<1>1. PICK m \in B : \A j \in B : m <= j
  BY LeastOf
<1>2. m \in Nat /\ m <= n /\ ~\E f : Linear(f, z, a, b, m)
  OBVIOUS
<1>3. CASE m = 0
  <2> DEFINE f == [k \in 0 .. 0 |-> z]
  <2>1. f \in [0 .. 0 -> Int] /\ f[0] = z /\ \A k \in 1 .. 0 : f[k] = a[k] * f[k - 1] + b[k]
    OBVIOUS
  <2>2. QED
    BY <1>2, <1>3, <2>1 DEF Linear
<1>4. CASE m # 0
  <2>1. m - 1 \in Nat /\ m - 1 <= n /\ m - 1 \notin B
    BY <1>1, <1>2, <1>4
  <2>2. PICK f : Linear(f, z, a, b, m - 1)
    BY <2>1
  <2>3. f \in [0 .. m - 1 -> Int] /\ f[0] = z /\ \A k \in 1 .. m - 1 : f[k] = a[k] * f[k - 1] + b[k]
    BY <2>2 DEF Linear
  <2> PICK x : x = a[m] * f[m - 1] + b[m]
    OBVIOUS
  <2>4. x \in Int
    <3>1. a[m] \in Int /\ b[m] \in Int /\ f[m - 1] \in Int
      <4>1. m \in 1 .. n /\ m - 1 \in 0 .. m - 1
        BY <1>2, <1>4
      <4>2. QED
        BY <2>3, <4>1
    <3>2. QED
      BY <3>1
  <2> DEFINE g == [k \in 0 .. m |-> IF k = m THEN x ELSE f[k]]
  <2>5. g \in [0 .. m -> Int] /\ g[0] = z
    BY <1>2, <1>4, <2>3, <2>4
  <2>6. ASSUME NEW k \in 1 .. m PROVE g[k] = a[k] * g[k - 1] + b[k]
    <3>1. k - 1 \in 0 .. m /\ k - 1 # m
      BY <1>2
    <3>2. g[k - 1] = f[k - 1]
      BY <3>1
    <3>3. CASE k = m
      BY <3>2, <3>3
    <3>4. CASE k # m
      <4>1. k \in 1 .. m - 1 /\ g[k] = f[k]
        BY <1>2, <3>4
      <4>2. f[k] = a[k] * f[k - 1] + b[k]
        BY <2>3, <4>1
      <4>3. QED
        BY <3>2, <4>1, <4>2
    <3>5. QED
      BY <3>3, <3>4
  <2>7. Linear(g, z, a, b, m)
    BY <2>5, <2>6 DEF Linear
  <2>8. QED
    BY <1>2, <2>7
<1>5. QED
  BY <1>3, <1>4

\* The powers of ten
LEMMA TimeDigitsType ==
  /\ SecondDigits \in Nat /\ SecondDigits >= 1 /\ NanoDigits \in Nat /\ NanoDigits >= 1
  /\ TimeDigits \in Nat /\ TimeDigits = SecondDigits + NanoDigits
BY TimeAssumption DEF TimeDigits

LEMMA PowersAre ==
  /\ Power10[0] = 1
  /\ \A k \in 1 .. TimeDigits : Power10[k] = 10 * Power10[k - 1]
<1> PICK n : n = TimeDigits
  OBVIOUS
<1> DEFINE a == [k \in 1 .. n |-> 10]
           b == [k \in 1 .. n |-> 0]
<1>1. n \in Nat
  BY TimeDigitsType
<1>2. PICK f : Linear(f, 1, a, b, n)
  <2>1. \A k \in 1 .. n : a[k] \in Int /\ b[k] \in Int
    OBVIOUS
  <2> HIDE DEF a, b
  <2>2. QED
    BY <1>1, <2>1, LinearExists
<1>3. f \in [0 .. n -> Int] /\ f[0] = 1 /\ \A k \in 1 .. n : f[k] = a[k] * f[k - 1] + b[k]
  BY <1>2 DEF Linear
<1>4. ASSUME NEW k \in 0 .. n PROVE f[k] = IF k = 0 THEN 1 ELSE 10 * f[k - 1]
  <2>1. CASE k = 0
    BY <1>3, <2>1
  <2>2. CASE k # 0
    <3>1. k \in 1 .. n /\ k - 1 \in 0 .. n
      BY <1>1, <2>2
    <3>2. f[k] = a[k] * f[k - 1] + b[k] /\ f[k - 1] \in Int /\ a[k] = 10 /\ b[k] = 0
      BY <1>3, <3>1
    <3>3. QED
      BY <2>2, <3>2
  <2>3. QED
    BY <2>1, <2>2
<1>5. f = [k \in 0 .. TimeDigits |-> IF k = 0 THEN 1 ELSE 10 * f[k - 1]]
  <2>1. f = [k \in 0 .. n |-> f[k]]
    BY <1>3
  <2>2. QED
    BY <1>4, <2>1
<1>6. Power10 = [k \in 0 .. TimeDigits |-> IF k = 0 THEN 1 ELSE 10 * Power10[k - 1]]
  BY <1>5 DEF Power10
<1>7. \A k \in 0 .. n : Power10[k] = IF k = 0 THEN 1 ELSE 10 * Power10[k - 1]
  BY <1>6
<1>8. 0 \in 0 .. n /\ \A k \in 1 .. n : k \in 0 .. n /\ k # 0
  BY <1>1
<1>9. QED
  BY <1>7, <1>8

LEMMA PowersArePositive == \A k \in 0 .. TimeDigits : Power10[k] \in Nat /\ Power10[k] > 0
<1> PICK n : n = TimeDigits
  OBVIOUS
<1> DEFINE B == {k \in Nat : k <= n /\ ~(Power10[k] \in Nat /\ Power10[k] > 0)}
<1>1. n \in Nat
  BY TimeDigitsType
<1>2. ASSUME B # {} PROVE FALSE
  <2>1. PICK k \in B : \A j \in B : k <= j
    BY <1>2, LeastOf
  <2>2. k \in Nat /\ k <= n /\ ~(Power10[k] \in Nat /\ Power10[k] > 0)
    OBVIOUS
  <2>3. k # 0
    BY <2>2, PowersAre
  <2>4. k - 1 \in Nat /\ k - 1 <= n /\ k - 1 \notin B /\ k \in 1 .. n
    BY <1>1, <2>1, <2>2, <2>3
  <2> PICK p : p = Power10[k - 1]
    OBVIOUS
  <2>5. p \in Nat /\ p > 0 /\ Power10[k] = 10 * p
    BY <2>4, PowersAre
  <2>6. QED
    BY <2>2, <2>5
<1>3. QED
  BY <1>1, <1>2

LEMMA PowersGrow ==
  ASSUME NEW j \in 0 .. TimeDigits, NEW k \in 0 .. TimeDigits, j <= k
  PROVE  Power10[j] <= Power10[k]
<1> PICK n : n = TimeDigits
  OBVIOUS
<1> DEFINE B == {i \in Nat : j <= i /\ i <= n /\ ~(Power10[j] <= Power10[i])}
<1>1. n \in Nat /\ j \in Nat
  BY TimeDigitsType
<1>2. ASSUME B # {} PROVE FALSE
  <2>1. PICK i \in B : \A l \in B : i <= l
    BY <1>2, LeastOf
  <2>2. i \in Nat /\ j <= i /\ i <= n /\ ~(Power10[j] <= Power10[i])
    OBVIOUS
  <2>3. Power10[j] \in Nat
    BY PowersArePositive
  <2>4. i # j /\ i # 0
    BY <1>1, <2>2, <2>3
  <2>5. i - 1 \in Nat /\ j <= i - 1 /\ i - 1 <= n /\ i - 1 \notin B /\ i \in 1 .. n /\ i - 1 \in 0 .. n
    BY <1>1, <2>1, <2>2, <2>4
  <2> PICK p : p = Power10[i - 1]
    OBVIOUS
  <2>6. Power10[j] <= p /\ p \in Nat /\ Power10[i] = 10 * p
    BY <2>5, PowersAre, PowersArePositive
  <2>7. QED
    BY <2>2, <2>3, <2>6
<1>3. QED
  BY <1>1, <1>2

LEMMA TenTimes ==
  ASSUME NEW p \in Nat, NEW x \in Nat
  PROVE  p * x \in Nat /\ 10 * (p * x) = p * (10 * x)
OBVIOUS

LEMMA PowersMultiply ==
  ASSUME NEW j \in Nat, NEW k \in Nat, j + k <= TimeDigits
  PROVE  Power10[j + k] = Power10[j] * Power10[k]
<1> PICK n : n = TimeDigits
  OBVIOUS
<1> PICK p : p = Power10[j]
  OBVIOUS
<1> DEFINE B == {i \in Nat : j + i <= n /\ Power10[j + i] # p * Power10[i]}
<1>1. n \in Nat /\ p \in Nat
  BY TimeDigitsType, PowersArePositive
<1>2. ASSUME B # {} PROVE FALSE
  <2>1. PICK i \in B : \A l \in B : i <= l
    BY <1>2, LeastOf
  <2>2. i \in Nat /\ j + i <= n /\ Power10[j + i] # p * Power10[i]
    OBVIOUS
  <2>3. i # 0
    <3>1. j + 0 = j /\ p * 1 = p
      BY <1>1
    <3>2. QED
      BY <2>2, <3>1, PowersAre
  <2> PICK h : h = i - 1
    OBVIOUS
  <2> PICK e : e = j + h
    OBVIOUS
  <2>4. h \in Nat /\ e <= n /\ h \notin B /\ e \in 0 .. n /\ h \in 0 .. n /\ i = h + 1 /\ j + i = e + 1 /\ i \in 1 .. n /\ j + i \in 1 .. n
    BY <1>1, <2>1, <2>2, <2>3
  <2> PICK x : x = Power10[h]
    OBVIOUS
  <2>5. Power10[e] = p * x /\ x \in Nat
    BY <2>4, PowersArePositive
  <2>6. Power10[i] = 10 * x /\ Power10[j + i] = 10 * (p * x)
    <3>1. Power10[i] = 10 * Power10[i - 1] /\ Power10[j + i] = 10 * Power10[j + i - 1] /\ j + i - 1 = e
      BY <2>4, PowersAre
    <3>2. QED
      BY <2>5, <3>1
  <2>7. 10 * (p * x) = p * (10 * x)
    BY <1>1, <2>5, TenTimes
  <2>8. QED
    BY <2>2, <2>6, <2>7
<1>3. QED
  BY <1>2

\* A number written with a certain width
LEMMA DecimalIs ==
  ASSUME NEW n \in Nat, NEW w \in 1 .. TimeDigits, n < Power10[w]
  PROVE  /\ Decimal(n, w) = [k \in 1 .. w |-> (n \div Power10[w - k]) % 10]
         /\ Decimal(n, w) \in Seq(0 .. 9) /\ Len(Decimal(n, w)) = w
<1> DEFINE B == {u \in Nat : u >= 1 /\ u <= w /\ n < Power10[u]}
<1>1. w \in Nat /\ w >= 1 /\ TimeDigits \in Nat /\ w <= TimeDigits
  BY TimeDigitsType
<1>2. w \in B
  BY <1>1
<1>3. PICK u \in B : \A l \in B : u <= l
  BY <1>2, LeastOf
<1>4. u \in 1 .. TimeDigits /\ n < Power10[u] /\ (u > 1 => Power10[u - 1] <= n)
  <2>1. u \in 1 .. TimeDigits /\ n < Power10[u]
    BY <1>1
  <2>2. ASSUME u > 1 PROVE Power10[u - 1] <= n
    <3>1. u - 1 \in Nat /\ u - 1 >= 1 /\ u - 1 <= w /\ u - 1 \notin B /\ u - 1 \in 0 .. TimeDigits
      BY <1>1, <1>3, <2>1, <2>2
    <3>2. ~(n < Power10[u - 1]) /\ Power10[u - 1] \in Nat
      BY <3>1, PowersArePositive
    <3>3. QED
      BY <3>2
  <2>3. QED
    BY <2>1, <2>2
<1> PICK d : d = DigitsOf(n)
  OBVIOUS
<1>5. d \in 1 .. TimeDigits /\ n < Power10[d] /\ (d > 1 => Power10[d - 1] <= n)
  BY <1>4 DEF DigitsOf
<1>6. d <= w
  <2> SUFFICES ASSUME d > w PROVE FALSE
    BY <1>1, <1>5
  <2>1. d > 1 /\ d - 1 \in 0 .. TimeDigits /\ w \in 0 .. TimeDigits /\ w <= d - 1
    BY <1>1, <1>5
  <2>2. Power10[w] <= Power10[d - 1] /\ Power10[d - 1] <= n
    BY <1>5, <2>1, PowersGrow
  <2>3. Power10[w] \in Nat /\ Power10[d - 1] \in Nat
    BY <2>1, PowersArePositive
  <2>4. QED
    BY <2>2, <2>3
<1>7. (IF d < w THEN w ELSE d) = w
  BY <1>1, <1>5, <1>6
<1> DEFINE row == [k \in 1 .. w |-> (n \div Power10[w - k]) % 10]
<1>8. Decimal(n, w) = row
  BY <1>7, Zenon DEF Decimal
<1>9. ASSUME NEW k \in 1 .. w PROVE (n \div Power10[w - k]) % 10 \in 0 .. 9
  <2> PICK p : p = Power10[w - k]
    OBVIOUS
  <2>1. w - k \in 0 .. TimeDigits
    BY <1>1
  <2>2. p \in Nat /\ p > 0
    BY <2>1, PowersArePositive
  <2> PICK q : q = n \div p
    OBVIOUS
  <2>3. q \in Nat
    BY <2>2
  <2>4. q % 10 \in 0 .. 9
    BY <2>3
  <2>5. QED
    BY <2>4
<1>10. row \in [1 .. w -> 0 .. 9]
  BY <1>9
<1> HIDE DEF row
<1>11. row \in Seq(0 .. 9) /\ Len(row) = w
  BY <1>1, <1>10
<1>12. QED
  BY <1>8, <1>11 DEF row

\* What is read from a string, one symbol after the other
Reading(v, s) ==
  v[0] = 0 /\ \A k \in 1 .. Len(s) : v[k] = IF s[k] < 0 THEN v[k - 1] ELSE 10 * v[k - 1] + s[k]
LEMMA ReadBackIs ==
  ASSUME NEW s \in Seq(Int)
  PROVE  \E v : Reading(v, s) /\ ReadBack(s) = v[Len(s)]
<1> PICK n : n = Len(s)
  OBVIOUS
<1> DEFINE a == [k \in 1 .. n |-> IF s[k] < 0 THEN 1 ELSE 10]
           b == [k \in 1 .. n |-> IF s[k] < 0 THEN 0 ELSE s[k]]
<1>1. n \in Nat /\ \A k \in 1 .. n : s[k] \in Int
  OBVIOUS
<1>2. PICK f : Linear(f, 0, a, b, n)
  <2>1. \A k \in 1 .. n : a[k] \in Int /\ b[k] \in Int
    BY <1>1
  <2> HIDE DEF a, b
  <2>2. n \in Nat /\ 0 \in Int
    BY <1>1
  <2>3. QED
    BY ONLY <2>1, <2>2, LinearExists
<1>3. f \in [0 .. n -> Int] /\ f[0] = 0 /\ \A k \in 1 .. n : f[k] = a[k] * f[k - 1] + b[k]
  BY <1>2 DEF Linear
<1> DEFINE Step(v, k) == IF k = 0 THEN 0 ELSE IF s[k] < 0 THEN v[k - 1] ELSE 10 * v[k - 1] + s[k]
<1>4. ASSUME NEW k \in 0 .. n PROVE f[k] = Step(f, k)
  <2>1. CASE k = 0
    BY <1>3, <2>1
  <2>2. CASE k # 0
    <3>1. k \in 1 .. n /\ k - 1 \in 0 .. n
      BY <1>1, <2>2
    <3> PICK x : x = f[k - 1]
      OBVIOUS
    <3>2. f[k] = a[k] * x + b[k] /\ x \in Int /\ s[k] \in Int
      BY <1>1, <1>3, <3>1
    <3>3. CASE s[k] < 0
      <4>1. a[k] = 1 /\ b[k] = 0
        BY <3>1, <3>3
      <4>2. f[k] = x
        BY <3>2, <4>1
      <4>3. QED
        BY <2>2, <3>3, <4>2
    <3>4. CASE ~(s[k] < 0)
      <4>1. a[k] = 10 /\ b[k] = s[k]
        BY <3>1, <3>4
      <4>2. f[k] = 10 * x + s[k]
        BY <3>2, <4>1
      <4>3. QED
        BY <2>2, <3>4, <4>2
    <3>5. QED
      BY <3>3, <3>4
  <2>3. QED
    BY <2>1, <2>2
<1>5. f = [k \in 0 .. Len(s) |-> Step(f, k)]
  <2>1. f = [k \in 0 .. n |-> f[k]]
    BY <1>3
  <2>2. QED
    BY <1>4, <2>1
<1>6. PICK v : v = [k \in 0 .. Len(s) |-> Step(v, k)] /\ ReadBack(s) = v[Len(s)]
  BY <1>5 DEF ReadBack
<1>7. \A k \in 0 .. n : v[k] = Step(v, k)
  BY <1>6
<1>8. 0 \in 0 .. n /\ \A k \in 1 .. n : k \in 0 .. n /\ k # 0
  BY <1>1
<1>9. Reading(v, s)
  BY <1>7, <1>8 DEF Reading
<1>10. QED
  BY <1>6, <1>9

LEMMA QuotientOfQuotient ==
  ASSUME NEW n \in Nat, NEW p \in Nat, p > 0
  PROVE  n \div (10 * p) = (n \div p) \div 10 /\ n \div p \in Nat
OBVIOUS

LEMMA NothingLeft ==
  ASSUME NEW n \in Nat, NEW p \in Nat, n < p
  PROVE  n \div p = 0
OBVIOUS

\* A row of digits in a string multiplies what has been read, and adds to it.
RowAt(s, v, l, w, n, x) ==
  /\ s \in Seq(Int) /\ Reading(v, s) /\ l \in Nat /\ w \in 1 .. TimeDigits /\ l + w <= Len(s)
  /\ n \in Nat /\ n < Power10[w] /\ x \in Nat /\ v[l] = x
  /\ \A k \in 1 .. w : s[l + k] = (n \div Power10[w - k]) % 10
LEMMA RowIsRead ==
  ASSUME NEW s, NEW v, NEW l, NEW w, NEW n, NEW x, RowAt(s, v, l, w, n, x)
  PROVE  v[l + w] = x * Power10[w] + n
<1> USE DEF RowAt
<1> DEFINE Right(k) == v[l + k] = x * Power10[k] + (n \div Power10[w - k])
           B == {k \in Nat : k <= w /\ ~Right(k)}
<1>1. TimeDigits \in Nat /\ w \in Nat /\ w >= 1 /\ w <= TimeDigits /\ Len(s) \in Nat
  BY TimeDigitsType
<1>2. Right(0)
  <2> PICK p : p = Power10[w]
    OBVIOUS
  <2>1. w - 0 = w /\ l + 0 = l /\ w \in 0 .. TimeDigits /\ x * 1 + 0 = x
    BY <1>1
  <2>2. p \in Nat /\ n < p
    BY <2>1, PowersArePositive
  <2>3. n \div p = 0
    BY <2>2, NothingLeft
  <2>4. QED
    BY <2>1, <2>3, PowersAre
<1>3. ASSUME NEW k \in Nat, k < w, Right(k) PROVE Right(k + 1)
  <2> PICK i : i = w - (k + 1)
    OBVIOUS
  <2> PICK j : j = l + (k + 1)
    OBVIOUS
  <2> PICK p : p = Power10[i]
    OBVIOUS
  <2> PICK y : y = Power10[k]
    OBVIOUS
  <2>1. /\ i \in 0 .. TimeDigits /\ i + 1 \in 1 .. TimeDigits /\ i + 1 - 1 = i /\ w - k = i + 1
        /\ k \in 0 .. TimeDigits /\ k + 1 \in 1 .. TimeDigits /\ k + 1 - 1 = k /\ k + 1 \in 1 .. w
        /\ j \in 1 .. Len(s) /\ j - 1 = l + k
    BY <1>1, <1>3
  <2>2. p \in Nat /\ p > 0 /\ y \in Nat
    BY <2>1, PowersArePositive
  <2>3. Power10[w - k] = 10 * p /\ Power10[k + 1] = 10 * y
    <3>1. Power10[i + 1] = 10 * Power10[i + 1 - 1] /\ Power10[k + 1] = 10 * Power10[k + 1 - 1]
      BY <2>1, PowersAre
    <3>2. QED
      BY <2>1, <3>1
  <2> PICK q : q = n \div p
    OBVIOUS
  <2> PICK r : r = n \div (10 * p)
    OBVIOUS
  <2> PICK d : d = q % 10
    OBVIOUS
  <2>4. q \in Nat /\ r \in Nat /\ q = 10 * r + d /\ d \in 0 .. 9
    <3>1. n \div (10 * p) = (n \div p) \div 10 /\ n \div p \in Nat
      BY ONLY n \in Nat, <2>2, QuotientOfQuotient
    <3>2. q \in Nat /\ r = q \div 10 /\ d = q % 10
      BY <3>1, Zenon
    <3>3. d \in 0 .. 9 /\ r \in Nat
      BY ONLY <3>2
    <3>4. q = 10 * r + d
      BY ONLY <3>2, <3>3
    <3>5. QED
      BY <3>2, <3>3, <3>4
  <2>5. s[j] = d
    BY <2>1
  <2>6. v[j] = 10 * v[l + k] + d
    <3>1. v[j] = IF s[j] < 0 THEN v[j - 1] ELSE 10 * v[j - 1] + s[j]
      BY <2>1 DEF Reading
    <3>2. ~(d < 0)
      BY <2>4
    <3>3. QED
      BY <2>1, <2>5, <3>1, <3>2
  <2>7. v[l + k] = x * y + r
    BY <1>3, <2>3
  <2>8. 10 * (x * y) = x * (10 * y) /\ x * y \in Nat
    BY <2>2, TenTimes
  <2> PICK z : z = x * y
    OBVIOUS
  <2>9. v[j] = 10 * (z + r) + d /\ z \in Nat
    BY <2>6, <2>7, <2>8
  <2>10. 10 * (z + r) + d = 10 * z + q
    BY ONLY <2>4, <2>9
  <2>11. v[j] = x * (10 * y) + q
    BY <2>8, <2>9, <2>10
  <2>12. QED
    BY <2>3, <2>11
<1> HIDE DEF Right
<1>4. ASSUME B # {} PROVE FALSE
  <2>1. PICK k \in B : \A j \in B : k <= j
    BY <1>4, LeastOf
  <2>2. k \in Nat /\ k <= w /\ ~Right(k) /\ k # 0
    BY <1>2
  <2> PICK h : h = k - 1
    OBVIOUS
  <2>3. h \in Nat /\ h <= w /\ h < w /\ h \notin B /\ h + 1 = k
    BY <1>1, <2>1, <2>2
  <2>4. Right(h)
    BY <2>3
  <2>5. QED
    BY <1>3, <2>2, <2>3, <2>4
<1>5. Right(w)
  BY <1>1, <1>4, SMTT(30)
<1>6. w - w = 0 /\ n \div 1 = n
  BY <1>1
<1>7. QED
  BY <1>5, <1>6, PowersAre DEF Right

\* The symbols of a concatenation
LEMMA Joint ==
  ASSUME NEW a \in Seq(Int), NEW b \in Seq(Int)
  PROVE  /\ a \o b \in Seq(Int) /\ Len(a) \in Nat /\ Len(b) \in Nat /\ Len(a \o b) = Len(a) + Len(b)
         /\ \A k \in 1 .. Len(a) : (a \o b)[k] = a[k]
         /\ \A k \in 1 .. Len(b) : (a \o b)[Len(a) + k] = b[k]
<1> PICK c : c = a \o b
  OBVIOUS
<1>1. Len(a) \in Nat /\ Len(b) \in Nat
  OBVIOUS
<1>2. /\ a \o b \in Seq(Int) /\ Len(a \o b) = Len(a) + Len(b)
      /\ \A k \in 1 .. Len(a) + Len(b) : (a \o b)[k] = IF k <= Len(a) THEN a[k] ELSE b[k - Len(a)]
  BY ConcatProperties, Zenon
<1>3. ASSUME NEW k \in 1 .. Len(a) PROVE c[k] = a[k]
  <2>1. k \in 1 .. Len(a) + Len(b) /\ k <= Len(a)
    BY <1>1
  <2>2. QED
    BY <1>2, <2>1
<1>4. ASSUME NEW k \in 1 .. Len(b) PROVE c[Len(a) + k] = b[k]
  <2>1. Len(a) + k \in 1 .. Len(a) + Len(b) /\ ~(Len(a) + k <= Len(a)) /\ Len(a) + k - Len(a) = k
    BY <1>1
  <2>2. QED
    BY <1>2, <2>1
<1>5. QED
  BY <1>1, <1>2, <1>3, <1>4

LEMMA SignIs ==
  ASSUME timePoint \in Int
  PROVE  /\ Sign \in Seq(Int) /\ Len(Sign) = IF timePoint < 0 THEN 1 ELSE 0
         /\ timePoint < 0 => Sign[1] = MINUS
<1>1. MINUS \in Int /\ <<MINUS>> \in Seq(Int) /\ Len(<<MINUS>>) = 1 /\ <<MINUS>>[1] = MINUS /\ Len(<<>>) = 0 /\ <<>> \in Seq(Int)
  BY DEF MINUS
<1>2. CASE timePoint < 0
  <2>1. Sign = <<MINUS>>
    BY <1>2 DEF Sign
  <2>2. QED
    BY <1>1, <1>2, <2>1
<1>3. CASE ~(timePoint < 0)
  <2>1. Sign = <<>>
    BY <1>3 DEF Sign
  <2>2. QED
    BY <1>1, <1>3, <2>1
<1>4. QED
  BY <1>2, <1>3

\* After the sign nothing has been read.
Signed(s, v, d, t) ==
  /\ timePoint \in Int /\ d \in Seq(0 .. 9) /\ Len(d) >= 1 /\ t \in Seq(Int)
  /\ s = (Sign \o d) \o t /\ Reading(v, s)
LEMMA SignIsSkipped ==
  ASSUME NEW s, NEW v, NEW d, NEW t, Signed(s, v, d, t)
  PROVE  /\ s \in Seq(Int) /\ Len(Sign) \in Nat /\ Len(s) = Len(Sign) + Len(d) + Len(t)
         /\ v[Len(Sign)] = 0 /\ (timePoint < 0 <=> s[1] = MINUS)
         /\ \A k \in 1 .. Len(d) : s[Len(Sign) + k] = d[k]
         /\ \A k \in 1 .. Len(t) : s[Len(Sign) + Len(d) + k] = t[k]
<1> USE DEF Signed
<1> PICK g : g = Sign
  OBVIOUS
<1> PICK u : u = g \o d
  OBVIOUS
<1>1. g \in Seq(Int) /\ Len(g) = (IF timePoint < 0 THEN 1 ELSE 0) /\ (timePoint < 0 => g[1] = MINUS)
  BY SignIs
<1>2. d \in Seq(Int)
  <2>1. 0 .. 9 \subseteq Int
    OBVIOUS
  <2>2. QED
    BY <2>1, SeqMonotonic
<1>3. /\ u \in Seq(Int) /\ Len(g) \in Nat /\ Len(d) \in Nat /\ Len(u) = Len(g) + Len(d)
      /\ \A k \in 1 .. Len(g) : u[k] = g[k]
      /\ \A k \in 1 .. Len(d) : u[Len(g) + k] = d[k]
  <2>1. g \in Seq(Int) /\ d \in Seq(Int) /\ u = g \o d
    BY <1>1, <1>2
  <2>2. QED
    BY ONLY <2>1, Joint
<1>4. /\ s \in Seq(Int) /\ Len(u) \in Nat /\ Len(t) \in Nat /\ Len(s) = Len(u) + Len(t)
      /\ \A k \in 1 .. Len(u) : s[k] = u[k]
      /\ \A k \in 1 .. Len(t) : s[Len(u) + k] = t[k]
  <2>1. u \in Seq(Int) /\ t \in Seq(Int) /\ s = u \o t
    BY <1>3
  <2>2. QED
    BY ONLY <2>1, Joint
<1>5. ASSUME NEW k \in 1 .. Len(d) PROVE s[Len(g) + k] = d[k]
  <2>1. Len(g) + k \in 1 .. Len(u)
    BY <1>3
  <2>2. QED
    BY <1>3, <1>4, <2>1
<1>6. \A k \in 1 .. Len(t) : s[Len(g) + Len(d) + k] = t[k]
  BY <1>3, <1>4
<1>7. v[0] = 0 /\ \A k \in 1 .. Len(s) : v[k] = IF s[k] < 0 THEN v[k - 1] ELSE 10 * v[k - 1] + s[k]
  BY DEF Reading
<1>8. CASE timePoint < 0
  <2>1. Len(g) = 1 /\ g[1] = MINUS
    BY <1>1, <1>8
  <2>2. 1 \in 1 .. Len(g) /\ 1 \in 1 .. Len(u) /\ 1 \in 1 .. Len(s)
    BY <1>3, <1>4, <2>1
  <2>3. s[1] = MINUS
    BY <1>3, <1>4, <2>1, <2>2
  <2>4. MINUS < 0 /\ 1 - 1 = 0
    BY DEF MINUS
  <2>5. v[1] = 0
    BY <1>7, <2>2, <2>3, <2>4
  <2>6. QED
    BY <1>3, <1>4, <1>5, <1>6, <1>8, <2>1, <2>3, <2>5
<1>9. CASE ~(timePoint < 0)
  <2>1. Len(g) = 0
    BY <1>1, <1>9
  <2>2. 1 \in 1 .. Len(d) /\ Len(g) + 1 = 1
    BY <1>3, <2>1
  <2>3. s[1] = d[1] /\ d[1] \in 0 .. 9
    BY <1>5, <2>2
  <2>4. s[1] # MINUS
    BY <2>3 DEF MINUS
  <2>5. QED
    BY <1>3, <1>4, <1>5, <1>6, <1>7, <1>9, <2>1, <2>4
<1>10. QED
  BY <1>8, <1>9

\* The two ways to write a time point, in full
InRange == timePoint \in Int /\ -Power10[TimeDigits] < timePoint /\ timePoint < Power10[TimeDigits]
LEMMA AbsIs ==
  ASSUME InRange
  PROVE  Abs \in Nat /\ Abs < Power10[TimeDigits]
<1>1. Power10[TimeDigits] \in Nat
  BY TimeDigitsType, PowersArePositive
<1>2. QED
  BY <1>1 DEF InRange, Abs

LEMMA NanosecondsAreRead ==
  ASSUME InRange
  PROVE  /\ NanosecondsString \in Seq(Int)
         /\ Len(NanosecondsString) = TimeDigits + (IF timePoint < 0 THEN 1 ELSE 0)
         /\ ReadBack(NanosecondsString) = Abs
         /\ (timePoint < 0 <=> NanosecondsString[1] = MINUS)
<1> PICK n : n = Abs
  OBVIOUS
<1> PICK w : w = TimeDigits
  OBVIOUS
<1> PICK d : d = Decimal(n, w)
  OBVIOUS
<1> PICK s : s = NanosecondsString
  OBVIOUS
<1>1. n \in Nat /\ n < Power10[w] /\ w \in Nat /\ w \in 1 .. TimeDigits /\ timePoint \in Int
  BY AbsIs, TimeDigitsType DEF InRange
<1>2. d = [k \in 1 .. w |-> (n \div Power10[w - k]) % 10] /\ d \in Seq(0 .. 9) /\ Len(d) = w
  BY <1>1, DecimalIs
<1> PICK t : t = <<>>
  OBVIOUS
<1> PICK x : x = 0
  OBVIOUS
<1>3. t \in Seq(Int) /\ Len(t) = 0
  OBVIOUS
<1>4. Sign \in Seq(Int) /\ Len(Sign) = IF timePoint < 0 THEN 1 ELSE 0
  BY <1>1, SignIs
<1>5. s = (Sign \o d) \o t /\ s \in Seq(Int)
  <2>1. s = Sign \o d
    BY DEF NanosecondsString
  <2>2. d \in Seq(Int)
    <3>1. 0 .. 9 \subseteq Int
      OBVIOUS
    <3>2. QED
      BY <1>2, <3>1, SeqMonotonic
  <2>3. s \in Seq(Int)
    BY <1>4, <2>1, <2>2, ConcatProperties, Zenon
  <2>4. s \o <<>> = s
    BY <2>3, ConcatEmptySeq, Zenon
  <2>5. QED
    BY <2>1, <2>3, <2>4, Zenon
<1>6. PICK v : Reading(v, s) /\ ReadBack(s) = v[Len(s)]
  BY <1>5, ReadBackIs
<1>7. /\ Len(Sign) \in Nat /\ Len(s) = Len(Sign) + Len(d) + Len(t)
      /\ v[Len(Sign)] = 0 /\ (timePoint < 0 <=> s[1] = MINUS)
      /\ \A k \in 1 .. Len(d) : s[Len(Sign) + k] = d[k]
  <2>1. Len(d) >= 1
    BY <1>1, <1>2
  <2>2. Signed(s, v, d, t)
    BY <1>1, <1>2, <1>3, <1>5, <1>6, <2>1 DEF Signed
  <2>3. QED
    BY <2>2, SignIsSkipped
<1> PICK l : l = Len(Sign)
  OBVIOUS
<1>8. l \in Nat /\ Len(s) = l + w /\ v[l] = x
  BY <1>1, <1>2, <1>3, <1>7
<1>9. ReadBack(s) = n
  <2>1. \A k \in 1 .. w : s[l + k] = (n \div Power10[w - k]) % 10
    BY <1>2, <1>7
  <2>2. s \in Seq(Int) /\ l + w <= Len(s) /\ x \in Nat
    BY <1>1, <1>5, <1>8
  <2>3. v[l + w] = x * Power10[w] + n
    <3>1. RowAt(s, v, l, w, n, x)
      BY <1>1, <1>6, <1>8, <2>1, <2>2 DEF RowAt
    <3>2. QED
      BY <3>1, RowIsRead
  <2>4. Power10[w] \in Nat
    BY <1>1, PowersArePositive
  <2>5. x * Power10[w] + n = n
    BY <1>1, <2>4
  <2>6. QED
    BY <1>6, <1>8, <2>3, <2>5
<1>10. Len(s) = w + (IF timePoint < 0 THEN 1 ELSE 0)
  <2>1. l = IF timePoint < 0 THEN 1 ELSE 0
    BY <1>4
  <2>2. l + w = w + l
    BY <1>1, <1>8
  <2>3. QED
    BY <1>8, <2>1, <2>2
<1>11. QED
  BY <1>5, <1>7, <1>9, <1>10

LEMMA SecondsAre ==
  ASSUME InRange
  PROVE  /\ Seconds \in Nat /\ Seconds < Power10[SecondDigits]
         /\ Nanoseconds \in Nat /\ Nanoseconds < Power10[NanoDigits]
         /\ Abs = Seconds * Power10[NanoDigits] + Nanoseconds
<1> PICK n : n = Abs
  OBVIOUS
<1> PICK m : m = Power10[NanoDigits]
  OBVIOUS
<1> PICK a : a = Power10[SecondDigits]
  OBVIOUS
<1>1. SecondDigits \in 0 .. TimeDigits /\ NanoDigits \in 0 .. TimeDigits /\ NanoDigits \in Nat /\ SecondDigits \in Nat
  BY TimeAssumption DEF TimeDigits
<1>2. m \in Nat /\ m > 0 /\ a \in Nat /\ n \in Nat
  BY <1>1, PowersArePositive, AbsIs
<1>3. n < a * m
  <2>1. SecondDigits + NanoDigits = TimeDigits /\ SecondDigits + NanoDigits <= TimeDigits
    BY <1>1 DEF TimeDigits
  <2>2. Power10[SecondDigits + NanoDigits] = Power10[SecondDigits] * Power10[NanoDigits]
    BY <1>1, <2>1, PowersMultiply
  <2>3. QED
    BY <2>1, <2>2, AbsIs
<1> PICK q : q = n \div m
  OBVIOUS
<1> PICK r : r = n % m
  OBVIOUS
<1>4. q = n \div m /\ r = n % m
  OBVIOUS
<1>5. r \in Nat /\ r < m /\ q \in Nat
  BY ONLY <1>2, <1>4
<1>6. q < a
  BY ONLY <1>2, <1>3, <1>4
<1>7. n = q * m + r
  BY ONLY <1>2, <1>4, <1>5
<1>8. Seconds = q /\ Nanoseconds = r
  BY Zenon DEF Seconds, Nanoseconds, NanosPerSecond
<1>9. QED
  BY <1>5, <1>6, <1>7, <1>8

LEMMA SecondsAreRead ==
  ASSUME InRange
  PROVE  /\ SecondsString \in Seq(Int)
         /\ Len(SecondsString) = TimeDigits + 1 + (IF timePoint < 0 THEN 1 ELSE 0)
         /\ ReadBack(SecondsString) = Abs
         /\ (timePoint < 0 <=> SecondsString[1] = MINUS)
<1> PICK q : q = Seconds
  OBVIOUS
<1> PICK r : r = Nanoseconds
  OBVIOUS
<1> PICK w : w = SecondDigits
  OBVIOUS
<1> PICK z : z = NanoDigits
  OBVIOUS
<1> PICK d : d = Decimal(q, w)
  OBVIOUS
<1> PICK e : e = Decimal(r, z)
  OBVIOUS
<1> PICK p : p = <<POINT>>
  OBVIOUS
<1> PICK t : t = p \o e
  OBVIOUS
<1> PICK s : s = SecondsString
  OBVIOUS
<1>1. /\ w \in Nat /\ z \in Nat /\ w \in 1 .. TimeDigits /\ z \in 1 .. TimeDigits
      /\ TimeDigits = w + z /\ timePoint \in Int
  BY TimeAssumption DEF TimeDigits, InRange
<1>2. q \in Nat /\ q < Power10[w] /\ r \in Nat /\ r < Power10[z] /\ Abs = q * Power10[z] + r
  BY SecondsAre
<1>3. d = [k \in 1 .. w |-> (q \div Power10[w - k]) % 10] /\ d \in Seq(0 .. 9) /\ Len(d) = w
  BY <1>1, <1>2, DecimalIs
<1>4. e = [k \in 1 .. z |-> (r \div Power10[z - k]) % 10] /\ e \in Seq(0 .. 9) /\ Len(e) = z
  BY <1>1, <1>2, DecimalIs
<1>5. d \in Seq(Int) /\ e \in Seq(Int)
  <2>1. 0 .. 9 \subseteq Int
    OBVIOUS
  <2>2. QED
    BY <1>3, <1>4, <2>1, SeqMonotonic
<1>6. p \in Seq(Int) /\ Len(p) = 1 /\ p[1] < 0
  BY DEF POINT
<1>7. /\ t \in Seq(Int) /\ Len(t) = 1 + z
      /\ \A k \in 1 .. Len(p) : t[k] = p[k]
      /\ \A k \in 1 .. Len(e) : t[Len(p) + k] = e[k]
  <2>1. p \in Seq(Int) /\ e \in Seq(Int) /\ t = p \o e
    BY <1>5, <1>6
  <2>2. /\ t \in Seq(Int) /\ Len(t) = Len(p) + Len(e)
        /\ \A k \in 1 .. Len(p) : t[k] = p[k]
        /\ \A k \in 1 .. Len(e) : t[Len(p) + k] = e[k]
    BY ONLY <2>1, Joint
  <2>3. QED
    BY <1>4, <1>6, <2>2
<1>8. Sign \in Seq(Int) /\ Len(Sign) = IF timePoint < 0 THEN 1 ELSE 0
  BY <1>1, SignIs
<1>9. s = (Sign \o d) \o t
  <2> PICK u : u = Sign \o d
    OBVIOUS
  <2>1. u \in Seq(Int)
    BY <1>5, <1>8, ConcatProperties, Zenon
  <2>2. s = (u \o p) \o e
    BY Zenon DEF SecondsString
  <2>3. (u \o p) \o e = u \o (p \o e)
    <3>1. u \in Seq(Int) /\ p \in Seq(Int) /\ e \in Seq(Int)
      BY <1>5, <1>6, <2>1
    <3>2. QED
      BY ONLY <3>1, ConcatAssociative
  <2>4. QED
    BY <2>2, <2>3, Zenon
<1>10. s \in Seq(Int)
  <2>1. Sign \o d \in Seq(Int)
    BY <1>5, <1>8, ConcatProperties, Zenon
  <2>2. QED
    BY <1>7, <1>9, <2>1, ConcatProperties, Zenon
<1>11. PICK v : Reading(v, s) /\ ReadBack(s) = v[Len(s)]
  BY <1>10, ReadBackIs
<1>12. /\ Len(Sign) \in Nat /\ Len(s) = Len(Sign) + Len(d) + Len(t)
       /\ v[Len(Sign)] = 0 /\ (timePoint < 0 <=> s[1] = MINUS)
       /\ \A k \in 1 .. Len(d) : s[Len(Sign) + k] = d[k]
       /\ \A k \in 1 .. Len(t) : s[Len(Sign) + Len(d) + k] = t[k]
  <2>1. Len(d) >= 1
    BY <1>1, <1>3
  <2>2. Signed(s, v, d, t)
    BY <1>1, <1>3, <1>7, <1>9, <1>11, <2>1 DEF Signed
  <2>3. QED
    BY ONLY <2>2, SignIsSkipped
<1> PICK l : l = Len(Sign)
  OBVIOUS
<1> PICK i : i = l + w
  OBVIOUS
<1> PICK x : x = 0
  OBVIOUS
<1>13. l \in Nat /\ i \in Nat /\ Len(s) = i + 1 + z /\ v[l] = x /\ x \in Nat
  BY <1>1, <1>3, <1>7, <1>12
<1>14. v[i] = q
  <2>1. \A k \in 1 .. w : s[l + k] = (q \div Power10[w - k]) % 10
    <3>1. \A k \in 1 .. w : s[l + k] = d[k]
      <4>1. l = Len(Sign)
        OBVIOUS
      <4>2. QED
        BY ONLY <1>3, <1>12, <4>1
    <3>2. \A k \in 1 .. w : d[k] = (q \div Power10[w - k]) % 10
      BY <1>3
    <3>3. QED
      BY <3>1, <3>2, Zenon
  <2>2. l + w <= Len(s)
    BY <1>1, <1>13
  <2>3. RowAt(s, v, l, w, q, x)
    BY <1>1, <1>2, <1>10, <1>11, <1>13, <2>1, <2>2 DEF RowAt
  <2>4. v[l + w] = x * Power10[w] + q
    BY <2>3, RowIsRead
  <2>5. Power10[w] \in Nat
    BY <1>1, PowersArePositive
  <2>6. x * Power10[w] + q = q
    BY <1>2, <2>5
  <2>7. QED
    BY <2>4, <2>6
<1>15. \A k \in 1 .. Len(t) : s[i + k] = t[k]
  <2>1. Len(Sign) + Len(d) = i
    BY <1>3
  <2>2. QED
    BY ONLY <1>12, <2>1
<1>16. v[i + 1] = q
  <2>1. 1 \in 1 .. Len(t) /\ 1 \in 1 .. Len(p) /\ i + 1 \in 1 .. Len(s) /\ i + 1 - 1 = i
    BY <1>1, <1>6, <1>7, <1>13
  <2>2. s[i + 1] = p[1]
    BY <1>7, <1>15, <2>1
  <2>3. \A k \in 1 .. Len(s) : v[k] = IF s[k] < 0 THEN v[k - 1] ELSE 10 * v[k - 1] + s[k]
    BY <1>11 DEF Reading
  <2> PICK j : j = i + 1
    OBVIOUS
  <2>4. j \in 1 .. Len(s) /\ s[j] < 0 /\ j - 1 = i
    BY <1>6, <2>1, <2>2
  <2>5. v[j] = v[j - 1]
    BY ONLY <2>3, <2>4
  <2>6. QED
    BY <1>14, <2>4, <2>5
<1>17. ReadBack(s) = Abs
  <2> PICK j : j = i + 1
    OBVIOUS
  <2>1. \A k \in 1 .. z : s[j + k] = (r \div Power10[z - k]) % 10
    <3> TAKE k \in 1 .. z
    <3>1. k \in 1 .. Len(e) /\ 1 + k \in 1 .. Len(t) /\ i + (1 + k) = j + k
      BY <1>1, <1>4, <1>7, <1>13
    <3>2. t[1 + k] = e[k]
      BY <1>6, <1>7, <3>1
    <3>3. s[j + k] = e[k]
      BY <1>15, <3>1, <3>2
    <3>4. QED
      BY <1>4, <3>3
  <2>2. j \in Nat /\ j + z <= Len(s) /\ v[j] = q /\ Len(s) = j + z
    BY <1>1, <1>13, <1>16
  <2>3. RowAt(s, v, j, z, r, q)
    BY <1>1, <1>2, <1>10, <1>11, <2>1, <2>2 DEF RowAt
  <2>4. v[j + z] = q * Power10[z] + r
    BY <2>3, RowIsRead
  <2>5. QED
    BY <1>2, <1>11, <2>2, <2>4
<1>18. Len(s) = TimeDigits + 1 + (IF timePoint < 0 THEN 1 ELSE 0)
  <2>1. l = IF timePoint < 0 THEN 1 ELSE 0
    BY <1>8
  <2>2. Len(s) = TimeDigits + 1 + l
    BY <1>1, <1>13
  <2>3. QED
    BY <2>1, <2>2
<1>19. QED
  BY <1>10, <1>12, <1>17, <1>18

-----------------------------------------------------------------------------
LEMMA WhatFits ==
  ASSUME NEW s \in Seq(Int), NEW size \in Nat, size > 0
  PROVE  /\ Len(Fits(s, size)) = IF Len(s) < size THEN Len(s) ELSE size - 1
         /\ Len(s) < size => Fits(s, size) = s
<1> PICK n : n = IF Len(s) < size THEN Len(s) ELSE size - 1
  OBVIOUS
<1>1. Len(s) \in Nat /\ n \in Nat /\ n <= Len(s) /\ \A k \in 1 .. n : s[k] \in Int
  OBVIOUS
<1>2. Fits(s, size) = SubSeq(s, 1, n)
  BY DEF Fits
<1>3. Len(SubSeq(s, 1, n)) = n
  BY <1>1
<1>4. Len(s) < size => SubSeq(s, 1, n) = s
  BY <1>1
<1>5. QED
  BY <1>2, <1>3, <1>4

(* The inductive invariant: the time point has no more digits than a time    *)
(* point has, and what was written is that time point, cut to the buffer.    *)
TimeInv ==
  /\ InRange /\ written.size \in Nat
  /\ (written.how = "seconds" /\ written.ret = "OK" /\ written.size > 0) =>
       written.str = Fits(SecondsString, written.size)
  /\ (written.how = "nanoseconds" /\ written.ret = "OK" /\ written.size > 0) =>
       written.str = Fits(NanosecondsString, written.size)

LEMMA InvIsReadBack == TimeInv => TimeCanBeReadBack
<1> SUFFICES ASSUME TimeInv, written.how \in {"seconds", "nanoseconds"}, written.ret = "OK", written.size > 0
             PROVE  TimeCanBeReadBack
  BY Zenon DEF TimeCanBeReadBack
<1> PICK s : s = written.str
  OBVIOUS
<1> PICK size : size = written.size
  OBVIOUS
<1> PICK full : full = IF written.how = "seconds" THEN SecondsString ELSE NanosecondsString
  OBVIOUS
<1> PICK width : width = TimeDigits + (IF written.how = "seconds" THEN 1 ELSE 0) + (IF timePoint < 0 THEN 1 ELSE 0)
  OBVIOUS
<1>1. InRange /\ size \in Nat /\ size > 0 /\ s = Fits(full, size) /\ TimeDigits \in Nat /\ width \in Nat
  BY TimeDigitsType DEF TimeInv, InRange
<1>2. full \in Seq(Int) /\ Len(full) = width /\ ReadBack(full) = Abs /\ (timePoint < 0 <=> full[1] = MINUS)
  <2>1. CASE written.how = "seconds"
    BY <1>1, <2>1, SecondsAreRead
  <2>2. CASE written.how # "seconds"
    BY <1>1, <2>2, NanosecondsAreRead
  <2>3. QED
    BY <2>1, <2>2
<1>3. Len(s) = (IF width < size THEN width ELSE size - 1) /\ (width < size => s = full)
  BY <1>1, <1>2, WhatFits
<1>4. Len(s) = width => s = full
  BY <1>1, <1>3
<1>5. QED
  BY <1>2, <1>3, <1>4 DEF TimeCanBeReadBack

(* rcutils_time_point_value_as_seconds_string and ..._nanoseconds_string: a  *)
(* time point of any sign and size that fits the buffer can be read back     *)
(* from its string exactly; one that does not fit is cut, never overrun.     *)
THEOREM TimesCanBeReadBack == TimeSpec => []TimeCanBeReadBack
<1>1. TimeInit => TimeInv
  <2> SUFFICES ASSUME TimeInit PROVE TimeInv
    OBVIOUS
  <2>1. Power10[TimeDigits] \in Nat /\ Power10[TimeDigits] > 0
    BY TimeDigitsType, PowersArePositive
  <2>2. InRange
    BY <2>1 DEF TimeInit, InRange
  <2>3. written.size = 0 /\ written.how = "none"
    BY DEF TimeInit, NotWritten, Written
  <2>4. QED
    BY <2>2, <2>3 DEF TimeInv
<1>2. TimeInv /\ [TimeNext]_timeVars => TimeInv'
  <2> SUFFICES ASSUME TimeInv, [TimeNext]_timeVars PROVE TimeInv'
    OBVIOUS
  <2>1. ASSUME NEW sec \in -1 .. 1, NEW nsec \in {-1, 0, NanosPerSecond - 1}, TimeNow(sec, nsec) PROVE TimeInv'
    <3>1. InRange'
      <4> PICK m : m = NanosPerSecond
        OBVIOUS
      <4> PICK a : a = Power10[TimeDigits]
        OBVIOUS
      <4>1. m \in Nat /\ a \in Nat /\ m >= 1 /\ 10 * m <= a
        <5>1. NanoDigits \in 0 .. TimeDigits /\ NanoDigits + 1 \in 1 .. TimeDigits /\ TimeDigits \in 0 .. TimeDigits
              /\ NanoDigits + 1 \in 0 .. TimeDigits /\ NanoDigits + 1 <= TimeDigits /\ NanoDigits + 1 - 1 = NanoDigits
          BY TimeAssumption DEF TimeDigits
        <5>2. m \in Nat /\ m > 0 /\ a \in Nat
          BY <5>1, PowersArePositive DEF NanosPerSecond
        <5>3. Power10[NanoDigits + 1] = 10 * Power10[NanoDigits + 1 - 1]
          BY <5>1, PowersAre
        <5>4. Power10[NanoDigits + 1] = 10 * m
          BY <5>1, <5>3 DEF NanosPerSecond
        <5>5. Power10[NanoDigits + 1] <= Power10[TimeDigits]
          BY <5>1, PowersGrow
        <5>6. QED
          BY <5>2, <5>4, <5>5
      <4>2. sec * m \in {-m, 0, m}
        <5>1. sec = -1 \/ sec = 0 \/ sec = 1
          OBVIOUS
        <5>2. QED
          BY <4>1, <5>1
      <4>3. nsec \in Int /\ nsec >= -1 /\ nsec <= m - 1
        BY <4>1
      <4>4. timePoint' = timePoint \/ timePoint' = sec * m + nsec
        BY <2>1 DEF TimeNow
      <4>5. CASE timePoint' = timePoint
        BY <4>5 DEF TimeInv, InRange
      <4>6. CASE timePoint' = sec * m + nsec
        <5> PICK y : y = sec * m
          OBVIOUS
        <5>1. y \in Int /\ y >= -m /\ y <= m /\ timePoint' = y + nsec
          BY <4>1, <4>2, <4>6
        <5>2. timePoint' \in Int /\ timePoint' < a /\ -m - 1 <= timePoint'
          BY <4>1, <4>3, <5>1
        <5>3. -a < timePoint'
          BY <4>1, <5>2
        <5>4. QED
          BY <5>2, <5>3 DEF InRange
      <4>7. QED
        BY <4>4, <4>5, <4>6
    <3>2. written'.size = 0 /\ written'.how = "none"
      BY <2>1 DEF TimeNow, NotWritten, Written
    <3>3. QED
      BY <3>1, <3>2 DEF TimeInv
  <2>2. ASSUME NEW t \in TimePoints, UseTimePoint(t) PROVE TimeInv'
    <3>1. InRange'
      BY <2>2, TimeAssumption DEF UseTimePoint, InRange
    <3>2. written'.size = 0 /\ written'.how = "none"
      BY <2>2 DEF UseTimePoint, NotWritten, Written
    <3>3. QED
      BY <3>1, <3>2 DEF TimeInv
  <2>3. ASSUME NEW size \in BufferSizes, AsNanosecondsString(size) \/ AsSecondsString(size) \/ AsDateString(size)
        PROVE  TimeInv'
    <3>1. timePoint' = timePoint /\ size \in Nat
      BY <2>3, TimeAssumption DEF AsNanosecondsString, AsSecondsString, AsDateString, WritesOrFails
    <3>2. SecondsString' = SecondsString /\ NanosecondsString' = NanosecondsString
      BY <3>1, Zenon DEF SecondsString, NanosecondsString, Sign, Seconds, Nanoseconds, Abs
    <3>3. InRange'
      BY <3>1 DEF TimeInv, InRange
    <3>4. /\ written'.size = size
          /\ (written'.how = "seconds" /\ written'.ret = "OK" /\ size > 0) =>
               written'.str = Fits(SecondsString, size)
          /\ (written'.how = "nanoseconds" /\ written'.ret = "OK" /\ size > 0) =>
               written'.str = Fits(NanosecondsString, size)
      BY <2>3, <3>1 DEF AsNanosecondsString, AsSecondsString, AsDateString, WritesOrFails, Written
    <3>5. QED
      BY <3>1, <3>2, <3>3, <3>4 DEF TimeInv
  <2>4. CASE UNCHANGED timeVars
    <3>1. timePoint' = timePoint /\ written' = written
      BY <2>4 DEF timeVars
    <3>2. SecondsString' = SecondsString /\ NanosecondsString' = NanosecondsString
      BY <3>1, Zenon DEF SecondsString, NanosecondsString, Sign, Seconds, Nanoseconds, Abs
    <3>3. QED
      BY <3>1, <3>2 DEF TimeInv, InRange
  <2>5. QED
    BY <2>1, <2>2, <2>3, <2>4 DEF TimeNext
<1>3. QED
  BY <1>1, <1>2, InvIsReadBack, PTL DEF TimeSpec
-----------------------------------------------------------------------------
(* create_format_string and parse_and_create_handlers_list.  Sequences that  *)
(* are put together from the front, and from the back.                       *)
AllChars == FormatChars \union {EOS, NAME, "ESC", "BEL", "BS", "NL", "CR", "TAB"}

LEMMA JoinedIs ==
  ASSUME NEW S, NEW a \in Seq(S), NEW b \in Seq(S), NEW c, c = a \o b
  PROVE  /\ c \in Seq(S) /\ Len(a) \in Nat /\ Len(b) \in Nat /\ Len(c) = Len(a) + Len(b)
         /\ \A k \in 1 .. Len(a) : c[k] = a[k]
         /\ \A k \in 1 .. Len(b) : c[Len(a) + k] = b[k]
<1>1. Len(a) \in Nat /\ Len(b) \in Nat
  OBVIOUS
<1>2. /\ a \o b \in Seq(S) /\ Len(a \o b) = Len(a) + Len(b)
      /\ \A k \in 1 .. Len(a) + Len(b) : (a \o b)[k] = IF k <= Len(a) THEN a[k] ELSE b[k - Len(a)]
  BY ConcatProperties, Zenon
<1>3. ASSUME NEW k \in 1 .. Len(a) PROVE c[k] = a[k]
  <2>1. k \in 1 .. Len(a) + Len(b) /\ k <= Len(a)
    BY <1>1
  <2>2. QED
    BY <1>2, <2>1
<1>4. ASSUME NEW k \in 1 .. Len(b) PROVE c[Len(a) + k] = b[k]
  <2>1. Len(a) + k \in 1 .. Len(a) + Len(b) /\ ~(Len(a) + k <= Len(a)) /\ Len(a) + k - Len(a) = k
    BY <1>1
  <2>2. QED
    BY <1>2, <2>1
<1>5. QED
  BY <1>1, <1>2, <1>3, <1>4

\* A text that is taken apart character by character, up to an offset
Row(c, a, b) == [m \in 1 .. b - a |-> c[a + m - 1]]
Chunk(D, c, S, a, b) ==
  /\ a \in Nat /\ b \in Nat /\ a <= b
  /\ \A k \in a .. b : D[k] \in Seq(S)
  /\ \A k \in a .. b - 1 : c[k] \in S /\ D[k] = <<c[k]>> \o D[k + 1]
LEMMA RowIs ==
  ASSUME NEW D, NEW c, NEW S, NEW a, NEW b, Chunk(D, c, S, a, b), NEW k \in a .. b
  PROVE  /\ Row(c, k, b) \in Seq(S) /\ Len(Row(c, k, b)) = b - k
         /\ \A m \in 1 .. b - k : Row(c, k, b)[m] = c[k + m - 1]
<1>1. k \in Nat /\ b - k \in Nat /\ \A m \in 1 .. b - k : k + m - 1 \in a .. b - 1
  BY DEF Chunk
<1>2. \A m \in 1 .. b - k : c[k + m - 1] \in S
  BY <1>1 DEF Chunk
<1> DEFINE r == Row(c, k, b)
<1>3. r \in [1 .. b - k -> S] /\ \A m \in 1 .. b - k : r[m] = c[k + m - 1]
  BY <1>2 DEF Row
<1> HIDE DEF r
<1>4. r \in Seq(S) /\ Len(r) = b - k
  BY <1>1, <1>3
<1>5. QED
  BY <1>3, <1>4 DEF r

LEMMA ChunkIs ==
  ASSUME NEW D, NEW c, NEW S, NEW a, NEW b, Chunk(D, c, S, a, b)
  PROVE  D[a] = Row(c, a, b) \o D[b] /\ Row(c, a, b) \in Seq(S) /\ Len(Row(c, a, b)) = b - a
<1> DEFINE Good(k) == D[k] = Row(c, k, b) \o D[b]
           B == {m \in Nat : b - m >= a /\ ~Good(b - m)}
<1> HIDE DEF Good
<1>1. a \in Nat /\ b \in Nat /\ a <= b
  BY DEF Chunk
<1>2. ASSUME B # {} PROVE FALSE
  <2>1. PICK m \in B : \A j \in B : m <= j
    BY <1>2, LeastOf
  <2> PICK k : k = b - m
    OBVIOUS
  <2>2. m \in Nat /\ k \in a .. b /\ ~Good(k) /\ k = b - m
    BY <1>1
  <2>3. D[b] \in Seq(S) /\ D[k] \in Seq(S)
    BY <1>1, <2>2 DEF Chunk
  <2>4. CASE k = b
    <3>1. Row(c, k, b) = <<>>
      <4>1. Row(c, k, b) \in Seq(S) /\ Len(Row(c, k, b)) = b - k
        BY <2>2, RowIs
      <4>2. b - k = 0
        BY <1>1, <2>4
      <4>3. QED
        BY <4>1, <4>2
    <3>2. <<>> \o D[b] = D[b]
      BY <2>3, ConcatEmptySeq, Zenon
    <3>3. QED
      BY <2>2, <2>4, <3>1, <3>2 DEF Good
  <2>5. CASE k # b
    <3> PICK l : l = k + 1
      OBVIOUS
    <3> PICK h : h = m - 1
      OBVIOUS
    <3>1. k \in a .. b - 1 /\ l \in a .. b /\ l = b - h /\ h \in Nat /\ h < m /\ b - h >= a
      BY <1>1, <2>2, <2>5
    <3>2. h \notin B
      BY <2>1, <3>1
    <3>3. D[l] = Row(c, l, b) \o D[b]
      BY <3>1, <3>2 DEF Good
    <3> PICK x : x = <<c[k]>>
      OBVIOUS
    <3> PICK y : y = Row(c, l, b)
      OBVIOUS
    <3> PICK z : z = D[b]
      OBVIOUS
    <3>4. c[k] \in S /\ D[k] = <<c[k]>> \o D[k + 1]
      BY <3>1 DEF Chunk
    <3>5. x \in Seq(S) /\ Len(x) = 1 /\ x[1] = c[k]
      BY <3>4
    <3>6. y \in Seq(S) /\ Len(y) = b - l /\ \A i \in 1 .. b - l : y[i] = c[l + i - 1]
      BY <3>1, RowIs
    <3>7. z \in Seq(S)
      BY <2>3
    <3>8. D[k] = x \o (y \o z)
      BY <3>3, <3>4
    <3>9. (x \o y) \o z = x \o (y \o z)
      BY ONLY <3>5, <3>6, <3>7, ConcatAssociative, SMTT(30)
    <3> PICK r : r = Row(c, k, b)
      OBVIOUS
    <3> PICK w : w = x \o y
      OBVIOUS
    <3>10. r \in Seq(S) /\ Len(r) = b - k /\ \A i \in 1 .. b - k : r[i] = c[k + i - 1]
      BY <2>2, RowIs
    <3>11. /\ w \in Seq(S) /\ Len(w) = Len(x) + Len(y)
           /\ \A i \in 1 .. Len(x) : w[i] = x[i]
           /\ \A i \in 1 .. Len(y) : w[Len(x) + i] = y[i]
      <4>1. x \in Seq(S) /\ y \in Seq(S) /\ w = x \o y
        BY <3>5, <3>6
      <4>2. QED
        BY ONLY <4>1, JoinedIs
    <3>12. w = r
      <4>1. Len(w) = Len(r) /\ Len(r) = b - k /\ b - k \in Nat
        BY <1>1, <2>2, <3>1, <3>5, <3>6, <3>10, <3>11
      <4>2. ASSUME NEW i \in 1 .. b - k PROVE w[i] = r[i]
        <5>1. CASE i = 1
          <6>1. r[1] = c[k + 1 - 1] /\ k + 1 - 1 = k
            BY <1>1, <2>2, <3>10, <4>2, <5>1
          <6>2. w[1] = x[1]
            BY <3>5, <3>11
          <6>3. QED
            BY <3>5, <5>1, <6>1, <6>2
        <5>2. CASE i # 1
          <6> PICK j : j = i - 1
            OBVIOUS
          <6>1. j \in 1 .. b - l /\ Len(x) + j = i /\ l + j - 1 = k + i - 1 /\ j \in 1 .. Len(y)
            BY <1>1, <2>2, <3>1, <3>5, <3>6, <4>2, <5>2
          <6>2. w[i] = y[j]
            BY <3>11, <6>1
          <6>3. y[j] = c[k + i - 1]
            BY <3>6, <6>1
          <6>4. QED
            BY <3>10, <6>2, <6>3
        <5>3. QED
          BY <5>1, <5>2
      <4>3. QED
        <5>1. w \in Seq(S) /\ r \in Seq(S) /\ Len(w) = Len(r) /\ \A i \in 1 .. Len(w) : w[i] = r[i]
          BY <3>10, <3>11, <4>1, <4>2
        <5>2. QED
          BY ONLY <5>1, SeqEqual
    <3>13. QED
      BY <2>2, <3>8, <3>9, <3>12 DEF Good
  <2>6. QED
    BY <2>4, <2>5
<1>3. D[a] = Row(c, a, b) \o D[b]
  <2> PICK d : d = b - a
    OBVIOUS
  <2>1. d \in Nat /\ b - d = a /\ b - d >= a
    BY <1>1
  <2>2. d \notin B
    BY <1>2
  <2>3. Good(b - d)
    BY <2>1, <2>2
  <2>4. QED
    BY <2>1, <2>3 DEF Good
<1>4. a \in a .. b
  BY <1>1
<1>5. QED
  BY <1>3, <1>4, RowIs

\* Sequences one behind the other
Joined(f, b, n) == f = [k \in 0 .. n |-> IF k = 0 THEN <<>> ELSE f[k - 1] \o b[k]]
LEMMA JoinedExists ==
  ASSUME NEW b, NEW n \in Nat
  PROVE  \E f : Joined(f, b, n)
<1> DEFINE B == {m \in Nat : ~\E f : Joined(f, b, m)}
<1> SUFFICES ASSUME B # {} PROVE FALSE
  OBVIOUS
<1>1. PICK m \in B : \A j \in B : m <= j
  BY LeastOf
<1>2. m \in Nat /\ ~\E f : Joined(f, b, m)
  OBVIOUS
<1>3. PICK f : m # 0 => Joined(f, b, m - 1)
  <2>1. CASE m = 0
    BY <2>1
  <2>2. CASE m # 0
    <3>1. m - 1 \in Nat /\ m - 1 \notin B
      BY <1>1, <1>2, <2>2
    <3>2. QED
      BY <3>1
  <2>3. QED
    BY <2>1, <2>2
<1> DEFINE h == [k \in 0 .. m |-> IF k = 0 THEN <<>> ELSE IF k = m THEN f[m - 1] \o b[m] ELSE f[k]]
           r == [k \in 0 .. m |-> IF k = 0 THEN <<>> ELSE h[k - 1] \o b[k]]
<1>4. \A k \in 0 .. m - 1 : f[k] = IF k = 0 THEN <<>> ELSE f[k - 1] \o b[k]
  <2>1. CASE m = 0
    BY <2>1
  <2>2. CASE m # 0
    BY <1>3, <2>2 DEF Joined
  <2>3. QED
    BY <2>1, <2>2
<1>5. \A k \in 0 .. m - 1 : h[k] = f[k]
  <2> TAKE k \in 0 .. m - 1
  <2>1. k \in 0 .. m /\ k # m
    BY <1>2
  <2>2. CASE k = 0
    BY <1>4, <2>1, <2>2
  <2>3. CASE k # 0
    BY <2>1, <2>3
  <2>4. QED
    BY <2>2, <2>3
<1>6. ASSUME NEW k \in 0 .. m PROVE h[k] = r[k]
  <2>1. CASE k = 0
    BY <2>1
  <2>2. CASE k # 0
    <3>1. k - 1 \in 0 .. m - 1
      BY <1>2, <2>2
    <3>2. h[k - 1] = f[k - 1]
      BY <1>5, <3>1
    <3>3. r[k] = h[k - 1] \o b[k]
      BY <2>2
    <3>4. h[k] = f[k - 1] \o b[k]
      <4>1. CASE k = m
        BY <2>2, <4>1
      <4>2. CASE k # m
        <5>1. h[k] = f[k] /\ k \in 0 .. m - 1
          BY <1>2, <2>2, <4>2
        <5>2. QED
          BY <1>4, <2>2, <5>1
      <4>3. QED
        BY <4>1, <4>2
    <3> HIDE DEF h, r
    <3>5. QED
      BY <3>2, <3>3, <3>4, Zenon
  <2>3. QED
    BY <2>1, <2>2
<1>7. h = r
  <2>1. DOMAIN h = 0 .. m /\ DOMAIN r = 0 .. m
    OBVIOUS
  <2>2. QED
    BY <1>6
<1>8. Joined(h, b, m)
  BY <1>7 DEF Joined
<1>9. QED
  BY <1>2, <1>8

\* Two that join the same sequences agree as far as they do.
LEMMA JoinedAgree ==
  ASSUME NEW f, NEW b, NEW n \in Nat, Joined(f, b, n), NEW g, NEW c, NEW m \in Nat, Joined(g, c, m), n <= m,
         \A k \in 1 .. n : b[k] = c[k]
  PROVE  f[n] = g[n]
<1> DEFINE B == {k \in Nat : k <= n /\ f[k] # g[k]}
<1>1. \A k \in 0 .. n : f[k] = IF k = 0 THEN <<>> ELSE f[k - 1] \o b[k]
  BY DEF Joined
<1>2. \A k \in 0 .. n : g[k] = IF k = 0 THEN <<>> ELSE g[k - 1] \o c[k]
  <2>1. \A k \in 0 .. m : g[k] = IF k = 0 THEN <<>> ELSE g[k - 1] \o c[k]
    BY DEF Joined
  <2>2. \A k \in 0 .. n : k \in 0 .. m
    OBVIOUS
  <2>3. QED
    BY <2>1, <2>2, Zenon
<1>3. ASSUME B # {} PROVE FALSE
  <2>1. PICK k \in B : \A j \in B : k <= j
    BY <1>3, LeastOf
  <2>2. k \in 0 .. n /\ f[k] # g[k]
    OBVIOUS
  <2>3. k # 0
    BY <1>1, <1>2, <2>2
  <2>4. k - 1 \in Nat /\ k - 1 <= n /\ k - 1 \notin B /\ k \in 1 .. n
    BY <2>1, <2>2, <2>3
  <2>5. f[k - 1] = g[k - 1] /\ b[k] = c[k]
    BY <2>4
  <2>6. QED
    BY <1>1, <1>2, <2>2, <2>3, <2>5
<1>4. QED
  BY <1>3

-----------------------------------------------------------------------------
(* Characters, and where a character is first                                *)
LEMMA CharIs ==
  ASSUME NEW S, NEW s \in Seq(S), NEW k \in Int
  PROVE  /\ k < 0 => CharAt(s, k) = NAME
         /\ k \in 0 .. Len(s) - 1 => CharAt(s, k) = s[k + 1] /\ s[k + 1] \in S
         /\ k >= Len(s) => CharAt(s, k) = EOS
<1>1. Len(s) \in Nat
  OBVIOUS
<1>2. CASE k < 0
  BY <1>1, <1>2 DEF CharAt
<1>3. CASE k \in 0 .. Len(s) - 1
  <2>1. ~(k < 0) /\ k + 1 \in 1 .. Len(s) /\ ~(k >= Len(s))
    BY <1>1, <1>3
  <2>2. QED
    BY <1>3, <2>1 DEF CharAt
<1>4. CASE k >= Len(s)
  BY <1>1, <1>4 DEF CharAt
<1>5. QED
  BY <1>1, <1>2, <1>3, <1>4

LEMMA FirstIs ==
  ASSUME NEW K, K \subseteq Nat, K # {}
  PROVE  First(K) \in K /\ \A j \in K : First(K) <= j
BY LeastOf DEF First

LEMMA FormatCharIs ==
  ASSUME format \in Seq(FormatChars), NEW k \in Int
  PROVE  /\ CharAt(format, k) \in AllChars
         /\ k \in 0 .. Len(format) - 1 => CharAt(format, k) # EOS /\ CharAt(format, k) \in FormatChars
         /\ k \notin 0 .. Len(format) - 1 => CharAt(format, k) \in {NAME, EOS}
<1>1. Len(format) \in Nat /\ EOS \notin FormatChars
  BY FormatAssumption
<1>2. CASE k \in 0 .. Len(format) - 1
  BY <1>1, <1>2, CharIs DEF AllChars
<1>3. CASE k < 0
  BY <1>1, <1>3, CharIs DEF AllChars
<1>4. CASE k >= Len(format)
  BY <1>1, <1>4, CharIs DEF AllChars
<1>5. QED
  BY <1>1, <1>2, <1>3, <1>4

\* A known escape is within the format, and stands for one character.
LEMMA EscapeIs ==
  ASSUME format \in Seq(FormatChars), NEW k \in Nat, IsKnown(format, k)
  PROVE  /\ Meaning(format, k) \in AllChars /\ Meaning(format, k) # EOS
         /\ SkipChars(format, k) \in {0, 2} /\ k + 2 + SkipChars(format, k) <= Len(format)
<1> PICK n : n = Len(format)
  OBVIOUS
<1>1. n \in Nat /\ k + 1 \in Int /\ k + 3 \in Int
  OBVIOUS
<1>2. EOS \notin {"b", "a", "n", "r", "t"} /\ NAME \notin {"b", "a", "n", "r", "t"}
  BY DEF EOS, NAME
<1>3. CASE IsX1b(format, k)
  <2>1. CharAt(format, k + 3) = "b"
    BY <1>3 DEF IsX1b
  <2>2. k + 3 \in 0 .. n - 1
    BY <1>1, <1>2, <2>1, FormatCharIs
  <2>3. SkipChars(format, k) = 2 /\ Meaning(format, k) = "ESC"
    BY <1>3 DEF SkipChars, Meaning
  <2>4. QED
    BY <1>1, <2>2, <2>3 DEF AllChars, EOS
<1>4. CASE ~IsX1b(format, k)
  <2> PICK c : c = CharAt(format, k + 1)
    OBVIOUS
  <2>1. c \in {"a", "b", "n", "r", "t"}
    BY <1>4 DEF IsKnown, Letters
  <2>2. k + 1 \in 0 .. n - 1
    BY <1>1, <1>2, <2>1, FormatCharIs
  <2>3. SkipChars(format, k) = 0 /\ Meaning(format, k) = Letters[c]
    BY <1>4 DEF SkipChars, Meaning
  <2>4. Letters[c] \in {"BEL", "BS", "NL", "CR", "TAB"}
    BY <2>1 DEF Letters
  <2>5. QED
    BY <1>1, <2>2, <2>3, <2>4 DEF AllChars, EOS
<1>5. QED
  BY <1>3, <1>4

-----------------------------------------------------------------------------
(* What a format means                                                       *)
LEMMA PartIs ==
  ASSUME format \in Seq(FormatChars), NEW k \in 0 .. Len(format) - 1
  PROVE  /\ PartLength(format, k) \in {1, 2, 4} /\ PartAt(format, k) \in AllChars
         /\ CharAt(format, k) # BACKSLASH => PartAt(format, k) = CharAt(format, k) /\ PartLength(format, k) = 1
         /\ IsEscape(format, k) =>
              PartAt(format, k) = Meaning(format, k) /\ PartLength(format, k) = 2 + SkipChars(format, k)
<1>1. k \in Nat
  OBVIOUS
<1>2. CASE IsEscape(format, k)
  <2>1. Meaning(format, k) \in AllChars /\ SkipChars(format, k) \in {0, 2}
    BY <1>1, <1>2, EscapeIs DEF IsEscape
  <2>2. PartAt(format, k) = Meaning(format, k) /\ PartLength(format, k) = 2 + SkipChars(format, k)
    BY <1>2 DEF PartLength, PartAt
  <2>3. QED
    BY <1>2, <2>1, <2>2 DEF IsEscape
<1>3. CASE ~IsEscape(format, k)
  <2>1. CharAt(format, k) \in AllChars
    BY <1>1, FormatCharIs
  <2>2. QED
    BY <1>3, <2>1 DEF PartLength, PartAt, IsEscape
<1>4. QED
  BY <1>2, <1>3

LEMMA DecodedIs ==
  ASSUME format \in Seq(FormatChars), NEW k \in 0 .. Len(format) + 3
  PROVE  Decoded[k] = IF k >= Len(format) THEN <<>>
                      ELSE <<PartAt(format, k)>> \o Decoded[k + PartLength(format, k)]
<1> DEFINE n == Len(format) + 3
           L(i) == PartLength(format, i)
           P(i) == PartAt(format, i)
           T == {i \in 0 .. n : ~(i >= Len(format))}
           a == [i \in 0 .. n |-> <<>>]
           b == [i \in 0 .. n |-> <<P(i)>>]
           g == [i \in 0 .. n |-> i + L(i)]
<1>1. ASSUME NEW i \in 0 .. n, i \in T PROVE g[i] \in i + 1 .. n
  <2>1. i \in 0 .. Len(format) - 1 /\ Len(format) \in Nat
    BY <1>1
  <2>2. L(i) \in {1, 2, 4}
    BY <2>1, PartIs
  <2>3. g[i] = i + L(i)
    OBVIOUS
  <2> HIDE DEF L
  <2>4. i + L(i) \in i + 1 .. n
    BY <2>1, <2>2
  <2>5. QED
    BY <2>3, <2>4
<1>2. PICK f : Unrolled(f, a, b, g, T, 0, n)
  <2>1. n \in Nat
    OBVIOUS
  <2> HIDE DEF T, a, b, g, n
  <2>2. QED
    BY <1>1, <2>1, UnrolledExists
<1> DEFINE F(x) == [i \in 0 .. n |-> IF i >= Len(format) THEN <<>> ELSE <<P(i)>> \o x[i + L(i)]]
<1>3. f = F(f)
  <2>1. f = [i \in 0 .. n |-> IF i \in T THEN b[i] \o f[g[i]] ELSE a[i]]
    BY <1>2 DEF Unrolled
  <2>2. \A i \in 0 .. n : /\ i \in T <=> ~(i >= Len(format))
                          /\ b[i] = <<P(i)>> /\ g[i] = i + L(i) /\ a[i] = <<>>
    OBVIOUS
  <2> HIDE DEF T, a, b, g, n, L, P
  <2>3. QED
    BY <2>1, <2>2
<1>4. Decoded = F(Decoded)
  BY <1>3 DEF Decoded
<1>5. QED
  BY <1>4

LEMMA DecodedType ==
  ASSUME format \in Seq(FormatChars), NEW k \in 0 .. Len(format) + 3
  PROVE  Decoded[k] \in Seq(AllChars)
<1> DEFINE n == Len(format) + 3
           B == {m \in Nat : m <= n /\ Decoded[n - m] \notin Seq(AllChars)}
<1>1. n \in Nat /\ Len(format) \in Nat
  OBVIOUS
<1> HIDE DEF n
<1>2. ASSUME B # {} PROVE FALSE
  <2>1. PICK m \in B : \A j \in B : m <= j
    BY <1>2, LeastOf
  <2> PICK i : i = n - m
    OBVIOUS
  <2>2. m \in Nat /\ m <= n /\ i \in 0 .. n /\ Decoded[i] \notin Seq(AllChars)
    BY <1>1
  <2>3. Decoded[i] = IF i >= Len(format) THEN <<>> ELSE <<PartAt(format, i)>> \o Decoded[i + PartLength(format, i)]
    BY <2>2, DecodedIs DEF n
  <2>4. CASE i >= Len(format)
    BY <2>2, <2>3, <2>4
  <2>5. CASE ~(i >= Len(format))
    <3>1. i \in 0 .. Len(format) - 1 /\ n = Len(format) + 3
      BY <1>1, <2>2, <2>5 DEF n
    <3> PICK l : l = PartLength(format, i)
      OBVIOUS
    <3> PICK h : h = m - l
      OBVIOUS
    <3> PICK p : p = PartAt(format, i)
      OBVIOUS
    <3>2. l \in {1, 2, 4} /\ p \in AllChars
      BY <3>1, PartIs
    <3>3. h \in Nat /\ h <= n /\ n - h = i + l /\ h < m
      <4>1. m \in Nat /\ m <= n /\ i = n - m /\ h = m - l
        BY <2>2
      <4>2. QED
        BY ONLY <1>1, <3>1, <3>2, <4>1
    <3>4. h \notin B
      BY <2>1, <2>2, <3>3
    <3>5. Decoded[i + l] \in Seq(AllChars)
      BY <3>3, <3>4
    <3>6. <<p>> \in Seq(AllChars)
      BY <3>2
    <3>7. <<p>> \o Decoded[i + l] \in Seq(AllChars)
      BY <3>5, <3>6, ConcatProperties, Zenon
    <3>8. QED
      BY <2>2, <2>3, <2>5, <3>7
  <2>6. QED
    BY <2>4, <2>5
<1>3. n - k \in Nat /\ n - k <= n /\ n - (n - k) = k
  BY <1>1 DEF n
<1>4. n - k \notin B
  BY <1>2
<1>5. QED
  BY <1>3, <1>4

(* Text without a backslash means itself.                                    *)
LEMMA PlainIsItself ==
  ASSUME format \in Seq(FormatChars), NEW a \in Nat, NEW b \in Nat, a <= b, b <= Len(format),
         \A k \in a .. b - 1 : CharAt(format, k) # BACKSLASH
  PROVE  /\ Decoded[a] = [m \in 1 .. b - a |-> CharAt(format, a + m - 1)] \o Decoded[b]
         /\ [m \in 1 .. b - a |-> CharAt(format, a + m - 1)] \in Seq(AllChars)
<1> DEFINE c == [k \in a .. b - 1 |-> CharAt(format, k)]
<1>1. Len(format) \in Nat
  OBVIOUS
<1>2. ASSUME NEW k \in a .. b PROVE Decoded[k] \in Seq(AllChars)
  <2>1. k \in 0 .. Len(format) + 3
    BY <1>1
  <2>2. QED
    BY <2>1, DecodedType
<1>3. ASSUME NEW k \in a .. b - 1 PROVE c[k] \in AllChars /\ Decoded[k] = <<c[k]>> \o Decoded[k + 1]
  <2>1. k \in 0 .. Len(format) + 3 /\ ~(k >= Len(format)) /\ k \in 0 .. Len(format) - 1 /\ k \in Int
    BY <1>1
  <2>2. Decoded[k] = <<PartAt(format, k)>> \o Decoded[k + PartLength(format, k)]
    BY <2>1, DecodedIs
  <2>3. PartAt(format, k) = c[k] /\ PartLength(format, k) = 1 /\ c[k] \in AllChars
    BY <2>1, PartIs
  <2>4. QED
    BY <2>2, <2>3, Zenon
<1>4. Chunk(Decoded, c, AllChars, a, b)
  <2> HIDE DEF c
  <2>1. QED
    BY <1>2, <1>3 DEF Chunk
<1>5. Row(c, a, b) = [m \in 1 .. b - a |-> CharAt(format, a + m - 1)]
  <2>1. \A m \in 1 .. b - a : a + m - 1 \in a .. b - 1
    OBVIOUS
  <2>2. \A m \in 1 .. b - a : c[a + m - 1] = CharAt(format, a + m - 1)
    BY <2>1
  <2> HIDE DEF c
  <2>3. QED
    BY <2>2 DEF Row
<1> HIDE DEF c
<1>6. Decoded[a] = Row(c, a, b) \o Decoded[b] /\ Row(c, a, b) \in Seq(AllChars)
  BY <1>4, ChunkIs
<1>7. QED
  BY <1>5, <1>6

-----------------------------------------------------------------------------
(* What a text means: tokens and characters                                  *)
Piece == {[token |-> t] : t \in Tokens} \union {[char |-> c] : c \in AllChars}

LEMMA TextIs ==
  ASSUME buffer \in [0 .. MaxLen - 1 -> AllChars], IsText(buffer)
  PROVE  /\ Text(buffer) \in Seq(AllChars) /\ Len(Text(buffer)) = Size /\ Size \in 0 .. MaxLen - 1 /\ Size \in Nat
         /\ buffer[Size] = EOS /\ \A k \in 0 .. Size - 1 : buffer[k] # EOS
         /\ \A k \in 0 .. Size - 1 : CharAt(Text(buffer), k) = buffer[k] /\ buffer[k] \in AllChars
         /\ \A k \in 1 .. Size : Text(buffer)[k] = buffer[k - 1]
<1> DEFINE K == {j \in DOMAIN buffer : buffer[j] = EOS}
           t == Text(buffer)
<1> PICK n : n = First(K)
  OBVIOUS
<1>1. K \subseteq 0 .. MaxLen - 1 /\ K # {} /\ MaxLen \in Nat
  BY FormatAssumption DEF IsText
<1>2. n \in K /\ \A j \in K : n <= j
  <2>1. K \subseteq Nat
    BY <1>1
  <2> HIDE DEF K
  <2>2. QED
    BY <1>1, <2>1, FirstIs
<1>3. n \in 0 .. MaxLen - 1 /\ n \in Nat /\ buffer[n] = EOS
  BY <1>1, <1>2
<1>4. t = [k \in 1 .. n |-> buffer[k - 1]]
  BY DEF Text
<1>5. \A k \in 1 .. n : k - 1 \in 0 .. MaxLen - 1
  BY <1>1, <1>3
<1>6. t \in [1 .. n -> AllChars]
  BY <1>4, <1>5
<1>7. t \in Seq(AllChars) /\ Len(t) = n
  <2> HIDE DEF t
  <2>1. n \in Nat
    BY <1>3
  <2>2. QED
    BY ONLY <2>1, <1>6
<1>8. Size = n
  BY <1>7 DEF Size
<1>9. ASSUME NEW k \in 0 .. n - 1 PROVE buffer[k] # EOS /\ CharAt(t, k) = buffer[k] /\ buffer[k] \in AllChars
  <2>1. k \in 0 .. MaxLen - 1 /\ k + 1 \in 1 .. n /\ ~(n <= k) /\ k + 1 - 1 = k /\ k \in Int /\ k \in 0 .. Len(t) - 1
    BY <1>1, <1>3, <1>7
  <2>2. buffer[k] # EOS
    BY <1>2, <2>1
  <2>3. CharAt(t, k) = t[k + 1]
    <3> HIDE DEF t
    <3>1. QED
      BY <1>7, <2>1, CharIs
  <2>4. t[k + 1] = buffer[k + 1 - 1]
    BY <1>4, <2>1
  <2>5. QED
    BY <2>1, <2>2, <2>3, <2>4
<1>10. \A k \in 1 .. n : t[k] = buffer[k - 1]
  BY <1>4
<1> HIDE DEF t
<1>11. QED
  BY <1>3, <1>7, <1>8, <1>9, <1>10 DEF t

LEMMA TokenEndIs ==
  ASSUME NEW s \in Seq(AllChars), NEW k \in 0 .. Len(s) - 1, Closes(s, k) # {}
  PROVE  First(Closes(s, k)) \in k .. Len(s) - 1
<1>1. Len(s) \in Nat /\ Closes(s, k) \subseteq k .. Len(s) - 1
  <2>1. Closes(s, k) \subseteq k .. Len(s) - 1
    BY Zenon DEF Closes, Finds
  <2>2. QED
    BY <2>1
<1>2. Closes(s, k) \subseteq Nat
  BY <1>1
<1>3. First(Closes(s, k)) \in Closes(s, k)
  BY <1>2, FirstIs
<1>4. QED
  BY <1>1, <1>3

LEMMA PieceIs ==
  ASSUME NEW s \in Seq(AllChars), NEW k \in 0 .. Len(s) - 1
  PROVE  PieceEnd(s, k) \in k + 1 .. Len(s) /\ PieceAt(s, k) \in Piece
<1>1. Len(s) \in Nat /\ k \in Int
  OBVIOUS
<1>2. CASE IsToken(s, k)
  <2> PICK e : e = First(Closes(s, k))
    OBVIOUS
  <2>1. e \in k .. Len(s) - 1 /\ PieceEnd(s, k) = 1 + e
    BY <1>2, TokenEndIs DEF IsToken, PieceEnd
  <2>2. PieceAt(s, k) \in Piece
    BY <1>2 DEF IsToken, PieceAt, Piece
  <2>3. QED
    BY <1>1, <2>1, <2>2
<1>3. CASE ~IsToken(s, k)
  <2>1. CharAt(s, k) \in AllChars
    BY <1>1, CharIs
  <2>2. PieceAt(s, k) \in Piece
    BY <1>3, <2>1 DEF PieceAt, Piece
  <2>3. PieceEnd(s, k) = 1 + k
    BY <1>3 DEF PieceEnd
  <2>4. QED
    BY <1>1, <2>2, <2>3
<1>4. QED
  BY <1>2, <1>3

LEMMA PiecesAre ==
  ASSUME buffer \in [0 .. MaxLen - 1 -> AllChars], IsText(buffer), NEW k \in 0 .. Size
  PROVE  Pieces[k] = IF k = Size THEN <<>>
                     ELSE <<PieceAt(Text(buffer), k)>> \o Pieces[PieceEnd(Text(buffer), k)]
<1> DEFINE n == Size
           s == Text(buffer)
           L(i) == PieceEnd(s, i)
           P(i) == PieceAt(s, i)
           T == {i \in 0 .. n : i # n}
           a == [i \in 0 .. n |-> <<>>]
           b == [i \in 0 .. n |-> <<P(i)>>]
           g == [i \in 0 .. n |-> L(i)]
<1>1. s \in Seq(AllChars) /\ Len(s) = n /\ n \in Nat
  BY TextIs
<1>2. ASSUME NEW i \in 0 .. n, i \in T PROVE g[i] \in i + 1 .. n
  <2> HIDE DEF s, n, L
  <2>1. i \in 0 .. Len(s) - 1
    BY <1>1, <1>2
  <2>2. L(i) \in i + 1 .. n
    BY <1>1, <2>1, PieceIs DEF L
  <2>3. g[i] = L(i)
    OBVIOUS
  <2>4. QED
    BY <2>2, <2>3
<1>3. PICK f : Unrolled(f, a, b, g, T, 0, n)
  <2> HIDE DEF T, a, b, g, n
  <2>1. QED
    BY <1>1, <1>2, UnrolledExists
<1> DEFINE F(x) == [i \in 0 .. n |-> IF i = n THEN <<>> ELSE <<P(i)>> \o x[L(i)]]
<1>4. f = F(f)
  <2>1. f = [i \in 0 .. n |-> IF i \in T THEN b[i] \o f[g[i]] ELSE a[i]]
    BY <1>3 DEF Unrolled
  <2> HIDE DEF n, L, P
  <2>2. \A i \in 0 .. n : /\ i \in T <=> i # n
                          /\ b[i] = <<P(i)>> /\ g[i] = L(i) /\ a[i] = <<>>
    OBVIOUS
  <2> HIDE DEF T, a, b, g
  <2>3. QED
    BY <2>1, <2>2
<1>5. Pieces = F(Pieces)
  BY <1>4 DEF Pieces
<1>6. QED
  BY <1>5

LEMMA PiecesType ==
  ASSUME buffer \in [0 .. MaxLen - 1 -> AllChars], IsText(buffer), NEW k \in 0 .. Size
  PROVE  Pieces[k] \in Seq(Piece)
<1> DEFINE n == Size
           B == {m \in Nat : m <= n /\ Pieces[n - m] \notin Seq(Piece)}
<1>1. n \in Nat /\ Text(buffer) \in Seq(AllChars) /\ Len(Text(buffer)) = n
  BY TextIs
<1> HIDE DEF n
<1>2. ASSUME B # {} PROVE FALSE
  <2>1. PICK m \in B : \A j \in B : m <= j
    BY <1>2, LeastOf
  <2> PICK i : i = n - m
    OBVIOUS
  <2>2. m \in Nat /\ m <= n /\ i \in 0 .. n /\ Pieces[i] \notin Seq(Piece)
    BY <1>1
  <2>3. Pieces[i] = IF i = n THEN <<>> ELSE <<PieceAt(Text(buffer), i)>> \o Pieces[PieceEnd(Text(buffer), i)]
    BY <2>2, PiecesAre DEF n
  <2>4. CASE i = n
    BY <2>2, <2>3, <2>4
  <2>5. CASE i # n
    <3>1. i \in 0 .. Len(Text(buffer)) - 1
      BY <1>1, <2>2, <2>5
    <3> PICK l : l = PieceEnd(Text(buffer), i)
      OBVIOUS
    <3> PICK h : h = n - l
      OBVIOUS
    <3> PICK p : p = PieceAt(Text(buffer), i)
      OBVIOUS
    <3>2. l \in i + 1 .. n /\ p \in Piece
      BY <1>1, <3>1, PieceIs
    <3>3. h \in Nat /\ h <= n /\ n - h = l /\ h < m
      <4>1. m \in Nat /\ m <= n /\ i = n - m /\ h = n - l /\ i \in 0 .. n
        BY <2>2
      <4>2. QED
        BY ONLY <1>1, <3>2, <4>1
    <3>4. h \notin B
      BY <2>1, <2>2, <3>3
    <3>5. Pieces[l] \in Seq(Piece)
      BY <3>3, <3>4
    <3>6. <<p>> \in Seq(Piece)
      BY <3>2
    <3>7. <<p>> \o Pieces[l] \in Seq(Piece)
      BY <3>5, <3>6, ConcatProperties, Zenon
    <3>8. QED
      BY <2>2, <2>3, <2>5, <3>7
  <2>6. QED
    BY <2>4, <2>5
<1>3. n - k \in Nat /\ n - k <= n /\ n - (n - k) = k
  BY <1>1 DEF n
<1>4. n - k \notin B
  BY <1>2
<1>5. QED
  BY <1>3, <1>4

(* Text in which no token begins means its characters.                       *)
LEMMA TextIsItself ==
  ASSUME buffer \in [0 .. MaxLen - 1 -> AllChars], IsText(buffer),
         NEW a \in Nat, NEW b \in Nat, a <= b, b <= Size,
         \A k \in a .. b - 1 : ~IsToken(Text(buffer), k)
  PROVE  Pieces[a] = [m \in 1 .. b - a |-> [char |-> buffer[a + m - 1]]] \o Pieces[b]
<1> DEFINE c == [k \in a .. b - 1 |-> [char |-> buffer[k]]]
<1> PICK n : n = Size
  OBVIOUS
<1> PICK s : s = Text(buffer)
  OBVIOUS
<1>1. /\ n \in Nat /\ s \in Seq(AllChars) /\ Len(s) = n
      /\ \A k \in 0 .. n - 1 : CharAt(s, k) = buffer[k] /\ buffer[k] \in AllChars
  BY TextIs
<1>2. ASSUME NEW k \in a .. b PROVE Pieces[k] \in Seq(Piece)
  <2>1. k \in 0 .. n
    BY <1>1
  <2>2. QED
    BY <2>1, PiecesType
<1>3. ASSUME NEW k \in a .. b - 1 PROVE c[k] \in Piece /\ Pieces[k] = <<c[k]>> \o Pieces[k + 1]
  <2>1. k \in 0 .. n /\ k # n /\ k \in 0 .. n - 1 /\ k \in Int /\ 1 + k = k + 1
    BY <1>1
  <2>2. Pieces[k] = <<PieceAt(s, k)>> \o Pieces[PieceEnd(s, k)]
    BY <2>1, PiecesAre
  <2>3. ~IsToken(s, k)
    OBVIOUS
  <2>4. PieceAt(s, k) = c[k] /\ PieceEnd(s, k) = k + 1
    <3>1. CharAt(s, k) = buffer[k]
      BY <1>1, <2>1
    <3>2. QED
      BY <2>1, <2>3, <3>1 DEF PieceAt, PieceEnd
  <2>5. PieceAt(s, k) \in Piece
    BY <1>1, <2>1, PieceIs
  <2>6. QED
    BY <2>2, <2>4, <2>5, Zenon
<1>4. Chunk(Pieces, c, Piece, a, b)
  <2> HIDE DEF c
  <2>1. QED
    BY <1>2, <1>3 DEF Chunk
<1>5. Row(c, a, b) = [m \in 1 .. b - a |-> [char |-> buffer[a + m - 1]]]
  <2>1. \A m \in 1 .. b - a : a + m - 1 \in a .. b - 1
    OBVIOUS
  <2>2. \A m \in 1 .. b - a : c[a + m - 1] = [char |-> buffer[a + m - 1]]
    BY <2>1
  <2> HIDE DEF c
  <2>3. QED
    BY <2>2 DEF Row
<1> HIDE DEF c
<1>6. Pieces[a] = Row(c, a, b) \o Pieces[b]
  BY <1>4, ChunkIs
<1>7. QED
  BY <1>5, <1>6

-----------------------------------------------------------------------------
(* What handlers add to a message                                            *)
Handler == [token : Tokens \union {<<>>}, start_offset : 0 .. MaxLen, end_offset : 0 .. MaxLen]

LEMMA SpelledIs ==
  ASSUME Len(handlers) \in Nat
  PROVE  Joined(Spelled, [k \in 1 .. Len(handlers) |-> PiecesOf(handlers[k])], Len(handlers))
<1> DEFINE n == Len(handlers)
           b == [k \in 1 .. n |-> PiecesOf(handlers[k])]
           F(x) == [k \in 0 .. n |-> IF k = 0 THEN <<>> ELSE x[k - 1] \o PiecesOf(handlers[k])]
           G(x) == [k \in 0 .. n |-> IF k = 0 THEN <<>> ELSE x[k - 1] \o b[k]]
<1>1. PICK f : Joined(f, b, n)
  <2> HIDE DEF b
  <2>1. QED
    BY JoinedExists
<1>2. ASSUME NEW x PROVE F(x) = G(x)
  <2>1. \A k \in 0 .. n : k # 0 => b[k] = PiecesOf(handlers[k])
    BY DEF PiecesOf
  <2> HIDE DEF b, n
  <2>2. QED
    BY <2>1
<1>3. f = F(f)
  BY <1>1, <1>2 DEF Joined
<1>4. Spelled = F(Spelled)
  BY <1>3 DEF Spelled
<1>5. Spelled = G(Spelled)
  BY <1>2, <1>4
<1>6. QED
  BY <1>5 DEF Joined

LEMMA SpelledIsNext ==
  ASSUME Len(handlers') \in Nat, buffer' = buffer
  PROVE  Joined(Spelled', [k \in 1 .. Len(handlers') |-> PiecesOf(handlers'[k])], Len(handlers'))
<1> PICK hs : hs = handlers'
  OBVIOUS
<1> DEFINE n == Len(hs)
           b == [k \in 1 .. n |-> PiecesOf(hs[k])]
           F(x) == [k \in 0 .. n |-> IF k = 0 THEN <<>> ELSE x[k - 1] \o PiecesOf(hs[k])]
           G(x) == [k \in 0 .. n |-> IF k = 0 THEN <<>> ELSE x[k - 1] \o b[k]]
<1>1. PICK f : Joined(f, b, n)
  <2> HIDE DEF b
  <2>1. QED
    BY JoinedExists
<1>2. ASSUME NEW x PROVE F(x) = G(x)
  <2>1. \A k \in 0 .. n : k # 0 => b[k] = PiecesOf(hs[k])
    BY DEF PiecesOf
  <2> HIDE DEF b, n
  <2>2. QED
    BY <2>1
<1>3. f = F(f)
  BY <1>1, <1>2 DEF Joined
<1>4. Spelled' = F(Spelled')
  <2>1. Spelled' = CHOOSE x : x = F(x)
    BY DEF Spelled, PiecesOf
  <2>2. QED
    BY <1>3, <2>1
<1>5. Spelled' = G(Spelled')
  BY <1>2, <1>4
<1>6. QED
  BY <1>5 DEF Joined

LEMMA OneMoreIsSpelled ==
  ASSUME handlers \in Seq(Handler), NEW h \in Handler, handlers' = Append(handlers, h), buffer' = buffer
  PROVE  /\ handlers' \in Seq(Handler) /\ Len(handlers') = Len(handlers) + 1
         /\ Spelled'[Len(handlers')] = Spelled[Len(handlers)] \o PiecesOf(h)
<1> PICK n : n = Len(handlers)
  OBVIOUS
<1> PICK b : b = [k \in 1 .. n |-> PiecesOf(handlers[k])]
  OBVIOUS
<1> PICK c : c = [k \in 1 .. n + 1 |-> PiecesOf(handlers'[k])]
  OBVIOUS
<1>1. /\ n \in Nat /\ handlers' \in Seq(Handler) /\ Len(handlers') = n + 1 /\ handlers'[n + 1] = h
      /\ \A k \in 1 .. n : handlers'[k] = handlers[k]
  OBVIOUS
<1>2. Joined(Spelled, b, n)
  BY <1>1, SpelledIs
<1>3. Joined(Spelled', c, n + 1)
  <2>1. n + 1 \in Nat
    BY <1>1
  <2>2. QED
    BY <1>1, <2>1, SpelledIsNext
<1>4. \A k \in 1 .. n : b[k] = c[k]
  <2>1. \A k \in 1 .. n : k \in 1 .. n + 1
    BY <1>1
  <2>2. QED
    BY <1>1, <2>1
<1>5. Spelled[n] = Spelled'[n]
  <2> PICK f : f = Spelled
    OBVIOUS
  <2> PICK g : g = Spelled'
    OBVIOUS
  <2>1. n \in Nat /\ Joined(f, b, n) /\ n + 1 \in Nat /\ Joined(g, c, n + 1) /\ n <= n + 1
    <3>1. n + 1 \in Nat /\ n <= n + 1
      BY <1>1
    <3>2. Joined(f, b, n) /\ Joined(g, c, n + 1)
      BY <1>2, <1>3, Zenon
    <3>3. QED
      BY <1>1, <3>1, <3>2
  <2>2. f[n] = g[n]
    BY ONLY <1>4, <2>1, JoinedAgree
  <2>3. QED
    BY <2>2
<1>6. Spelled'[n + 1] = Spelled'[n] \o c[n + 1]
  <2>1. n + 1 \in 0 .. n + 1 /\ n + 1 # 0 /\ n + 1 - 1 = n
    BY <1>1
  <2>2. \A k \in 0 .. n + 1 : Spelled'[k] = IF k = 0 THEN <<>> ELSE Spelled'[k - 1] \o c[k]
    BY <1>3 DEF Joined
  <2> PICK m : m = n + 1
    OBVIOUS
  <2>3. m \in 0 .. n + 1 /\ m # 0 /\ m - 1 = n
    BY <2>1
  <2>4. Spelled'[m] = Spelled'[m - 1] \o c[m]
    BY <2>2, <2>3
  <2>5. QED
    BY <2>3, <2>4
<1>7. c[n + 1] = PiecesOf(h)
  <2>1. n + 1 \in 1 .. n + 1
    BY <1>1
  <2>2. QED
    BY <1>1, <2>1
<1>8. QED
  BY <1>1, <1>5, <1>6, <1>7

-----------------------------------------------------------------------------
(* The inductive invariant.  While the format is decoded, what is written so *)
(* far and the meaning of the rest are the meaning of the format; while the  *)
(* text is parsed, what the handlers spell and the pieces of the rest are    *)
(* the pieces of the text.                                                   *)
FormatTypes ==
  /\ stage \in {"down", "decode", "parse", "ready", "undefined"} /\ inits \in Nat
  /\ format \in Seq(FormatChars) /\ buffer \in [0 .. MaxLen - 1 -> AllChars]
  /\ decode \in [i : Nat, dest : Nat, start : Nat, not_copied : Nat]
  /\ inits = 0 => stage = "down" /\ \A k \in 0 .. MaxLen - 1 : buffer[k] = EOS
Filled == decode.dest + (decode.i - decode.start)
WrittenTo(b, n) == [k \in 1 .. n |-> b[k - 1]]
Decoding ==
  /\ decode.not_copied = 0 /\ decode.i \in 0 .. Len(format)
  /\ decode.start \in 0 .. decode.i /\ decode.dest \in 0 .. decode.start
  /\ decode.i < Length => decode.start = decode.i
  /\ Filled < MaxLen
  /\ \A k \in 0 .. Filled - 1 : buffer[k] # EOS
  /\ inits = 1 => \A k \in Filled .. MaxLen - 1 : buffer[k] = EOS
  /\ WrittenTo(buffer, Filled) \o Decoded[decode.i] = Decoded[0]
Parsing ==
  /\ IsText(buffer) /\ at \in 0 .. Size
  /\ handlers \in Seq(Handler) /\ Len(handlers) <= MaxHandlers
  /\ stage = "ready" => at = Size \/ Len(handlers) = MaxHandlers
  /\ Spelled[Len(handlers)] \in Seq(Piece) /\ Spelled[Len(handlers)] \o Pieces[at] = Pieces[0]
FormatInv ==
  /\ FormatTypes /\ FormatIsDecoded
  /\ (stage = "decode" /\ OnlyKnownEscapes(format)) => Decoding
  /\ stage \in {"parse", "ready"} => Parsing

LEMMA MeaningIsKept ==
  ASSUME format' = format
  PROVE  Decoded' = Decoded
BY Zenon DEF Decoded

LEMMA PiecesAreKept ==
  ASSUME buffer' = buffer
  PROVE  Pieces' = Pieces /\ Size' = Size
BY Zenon DEF Pieces, Size

LEMMA HandlersAreKept ==
  ASSUME buffer' = buffer, handlers' = handlers
  PROVE  Spelled' = Spelled
BY SMT DEF Spelled, PiecesOf

LEMMA HandlerIsAdded ==
  ASSUME FormatInv, stage = "parse", NEW h \in Handler, NEW next \in 0 .. Size, PiecesOf(h) \in Seq(Piece),
         Pieces[at] = PiecesOf(h) \o Pieces[next],
         AddHandler(h, next), UNCHANGED <<inits, format, buffer, decode>>
  PROVE  FormatInv'
<1>1. FormatTypes /\ FormatIsDecoded /\ Parsing
  BY DEF FormatInv
<1>2. inits' = inits /\ format' = format /\ buffer' = buffer /\ decode' = decode
  OBVIOUS
<1>3. Decoded' = Decoded /\ Pieces' = Pieces /\ Size' = Size
  BY <1>2, MeaningIsKept, PiecesAreKept
<1>4. stage' \in {"parse", "ready"}
  BY DEF AddHandler
<1>5. FormatTypes'
  BY <1>1, <1>2, <1>4 DEF FormatTypes
<1>6. FormatIsDecoded'
  <2>1. stage' # "undefined" /\ stage # "undefined" /\ (stage' = "parse" => stage = "parse")
    BY <1>4
  <2>2. QED
    BY <1>1, <1>2, <1>3, <2>1 DEF FormatIsDecoded
<1>7. Parsing'
  <2>1. CASE Len(handlers) >= MaxHandlers
    <3>1. stage' = "ready" /\ handlers' = handlers /\ at' = at
      BY <2>1 DEF AddHandler
    <3>2. Len(handlers) = MaxHandlers
      BY <1>1, <2>1, FormatAssumption DEF Parsing
    <3>3. Spelled' = Spelled
      BY <1>2, <3>1, HandlersAreKept
    <3>4. QED
      BY <1>1, <1>2, <1>3, <3>1, <3>2, <3>3 DEF Parsing
  <2>2. CASE ~(Len(handlers) >= MaxHandlers)
    <3>1. stage' = stage /\ handlers' = Append(handlers, h) /\ at' = next
      BY <2>2 DEF AddHandler
    <3> PICK x : x = Spelled[Len(handlers)]
      OBVIOUS
    <3> PICK y : y = PiecesOf(h)
      OBVIOUS
    <3> PICK z : z = Pieces[next]
      OBVIOUS
    <3>2. /\ handlers' \in Seq(Handler) /\ Len(handlers') = Len(handlers) + 1
          /\ Spelled'[Len(handlers')] = x \o y
      BY <1>1, <1>2, <3>1, OneMoreIsSpelled DEF Parsing
    <3>3. x \in Seq(Piece) /\ y \in Seq(Piece)
      BY <1>1 DEF Parsing
    <3>4. z \in Seq(Piece)
      BY <1>1, PiecesType DEF FormatTypes, Parsing
    <3>5. (x \o y) \o z = x \o (y \o z)
      BY ONLY <3>3, <3>4, ConcatAssociative
    <3>6. x \o (y \o z) = Pieces[0]
      BY <1>1 DEF Parsing
    <3>7. x \o y \in Seq(Piece)
      BY <3>3, ConcatProperties, Zenon
    <3>8. Len(handlers') <= MaxHandlers
      <4>1. Len(handlers) \in Nat /\ MaxHandlers \in Nat
        BY <1>1, FormatAssumption DEF Parsing
      <4>2. QED
        BY <2>2, <3>2, <4>1
    <3>9. stage' = "parse" /\ IsText(buffer)' /\ at' \in 0 .. Size'
      BY <1>1, <1>2, <1>3, <3>1 DEF Parsing
    <3>10. QED
      BY <1>3, <3>1, <3>2, <3>5, <3>6, <3>7, <3>8, <3>9 DEF Parsing
  <2>3. QED
    BY <2>1, <2>2
<1>8. QED
  BY <1>4, <1>5, <1>6, <1>7 DEF FormatInv

LEMMA ParseTextKeeps ==
  ASSUME FormatInv, ParseText
  PROVE  FormatInv'
<1> DEFINE K == NextDelimiter("{")
<1> PICK s : s = Text(buffer)
  OBVIOUS
<1> PICK n : n = Size
  OBVIOUS
<1> PICK to : to = IF K = {} THEN n ELSE First(K)
  OBVIOUS
<1> PICK h : h = Literal(at, to)
  OBVIOUS
<1>1. stage = "parse" /\ at < n /\ CharAt(s, at) # "{" /\ AddHandler(h, to) /\ UNCHANGED <<inits, format, buffer, decode>>
  BY DEF ParseText
<1>2. FormatTypes /\ Parsing
  BY <1>1 DEF FormatInv
<1>3. buffer \in [0 .. MaxLen - 1 -> AllChars] /\ IsText(buffer) /\ at \in 0 .. n
  BY <1>2 DEF FormatTypes, Parsing
<1>4. s \in Seq(AllChars) /\ Len(s) = n /\ n \in 0 .. MaxLen - 1 /\ n \in Nat /\ MaxLen \in Nat
  BY <1>3, TextIs, FormatAssumption
<1>5. K = {k \in at .. n - 1 : CharAt(s, k) = "{"}
  BY Zenon DEF NextDelimiter, Finds
<1>6. K \subseteq at .. n - 1
  BY <1>5
<1> HIDE DEF K
<1>7. to \in at .. n /\ \A k \in at .. to - 1 : k \notin K
  <2>1. CASE K = {}
    BY <1>3, <1>4, <2>1
  <2>2. CASE K # {}
    <3>1. K \subseteq Nat
      BY <1>3, <1>4, <1>6
    <3>2. to \in K /\ \A j \in K : to <= j
      BY <2>2, <3>1, FirstIs
    <3>3. QED
      BY <1>3, <1>4, <1>6, <3>2
  <2>3. QED
    BY <2>1, <2>2
<1>8. \A k \in at .. to - 1 : ~IsToken(s, k)
  <2> TAKE k \in at .. to - 1
  <2>1. k \in at .. n - 1
    BY <1>3, <1>4, <1>7
  <2>2. CharAt(s, k) # "{"
    BY <1>5, <1>7, <2>1
  <2>3. QED
    BY <2>2 DEF IsToken
<1>9. /\ at \in Nat /\ to \in Nat /\ at <= to /\ to <= n /\ to \in 0 .. n
      /\ at \in 0 .. MaxLen /\ to \in 0 .. MaxLen
  BY <1>3, <1>4, <1>7
<1>10. Pieces[at] = [m \in 1 .. to - at |-> [char |-> buffer[at + m - 1]]] \o Pieces[to]
  BY <1>3, <1>8, <1>9, TextIsItself
<1>11. h \in Handler /\ h.token = <<>> /\ h.start_offset = at /\ h.end_offset = to
  BY <1>9 DEF Literal, Handler
<1>12. PiecesOf(h) = [m \in 1 .. to - at |-> [char |-> buffer[at + m - 1]]]
  BY <1>11 DEF PiecesOf
<1>13. PiecesOf(h) \in Seq(Piece)
  <2>1. \A m \in 1 .. to - at : at + m - 1 \in 0 .. MaxLen - 1
    BY ONLY <1>4, <1>9
  <2>2. \A m \in 1 .. to - at : [char |-> buffer[at + m - 1]] \in Piece
    BY <1>3, <2>1 DEF Piece
  <2>3. PiecesOf(h) \in [1 .. to - at -> Piece] /\ to - at \in Nat
    BY <1>9, <1>12, <2>2
  <2>4. QED
    BY ONLY <2>3
<1>14. QED
  BY <1>1, <1>9, <1>10, <1>11, <1>12, <1>13, HandlerIsAdded

LEMMA ParseDelimiterKeeps ==
  ASSUME FormatInv, ParseDelimiter
  PROVE  FormatInv'
<1> DEFINE K == NextDelimiter("}")
<1> PICK s : s = Text(buffer)
  OBVIOUS
<1> PICK n : n = Size
  OBVIOUS
<1> PICK end : end = First(K)
  OBVIOUS
<1>0. stage = "parse" /\ at < n /\ CharAt(s, at) = "{" /\ UNCHANGED <<inits, format, buffer, decode>>
  BY DEF ParseDelimiter
<1>1. /\ \/ K = {} /\ AddHandler(Literal(at, n), n)
         \/ K # {} /\ TokenTo(end) \in Tokens /\ AddHandler(ExpandToken(TokenTo(end)), end + 1)
         \/ K # {} /\ TokenTo(end) \notin Tokens /\ AddHandler(Literal(at, at + 1), at + 1)
  BY DEF ParseDelimiter, NotAToken
<1>2. FormatTypes /\ Parsing
  BY <1>0 DEF FormatInv
<1>3. buffer \in [0 .. MaxLen - 1 -> AllChars] /\ IsText(buffer) /\ at \in 0 .. n
  BY <1>2 DEF FormatTypes, Parsing
<1>4. s \in Seq(AllChars) /\ Len(s) = n /\ n \in 0 .. MaxLen - 1 /\ n \in Nat /\ MaxLen \in Nat
  BY <1>3, TextIs, FormatAssumption
<1>5. K = Closes(s, at) /\ at \in 0 .. Len(s) - 1 /\ at \in Nat
  <2>1. K = Finds(s, "}", at, n)
    BY DEF NextDelimiter
  <2>2. K = Closes(s, at)
    BY <1>4, <2>1 DEF Closes
  <2>3. at \in Nat /\ at \in 0 .. n - 1
    <3>1. at \in 0 .. n /\ at < n /\ n \in Nat
      BY <1>0, <1>3, <1>4
    <3>2. QED
      BY ONLY <3>1
  <2>4. QED
    BY <1>4, <2>2, <2>3
<1>6. K = {k \in at .. n - 1 : CharAt(s, k) = "}"}
  BY Zenon DEF NextDelimiter, Finds
<1> HIDE DEF K
<1>7. TokenTo(end) = TokenName(s, at)
  BY <1>5 DEF TokenTo, TokenName
<1>8. ASSUME NEW to \in Nat, at <= to, to <= n, AddHandler(Literal(at, to), to),
             \A k \in at .. to - 1 : ~IsToken(s, k)
      PROVE  FormatInv'
  <2> PICK h : h = Literal(at, to)
    OBVIOUS
  <2>1. at \in Nat /\ to \in 0 .. n /\ at \in 0 .. MaxLen /\ to \in 0 .. MaxLen /\ AddHandler(h, to)
    BY <1>3, <1>4, <1>8
  <2>2. Pieces[at] = [m \in 1 .. to - at |-> [char |-> buffer[at + m - 1]]] \o Pieces[to]
    BY <1>3, <1>8, <2>1, TextIsItself
  <2>3. h \in Handler /\ h.token = <<>> /\ h.start_offset = at /\ h.end_offset = to
    BY <2>1 DEF Literal, Handler
  <2>4. PiecesOf(h) = [m \in 1 .. to - at |-> [char |-> buffer[at + m - 1]]]
    BY <2>3 DEF PiecesOf
  <2>5. PiecesOf(h) \in Seq(Piece)
    <3>1. \A m \in 1 .. to - at : at + m - 1 \in 0 .. MaxLen - 1
      BY <1>4, <1>8, <2>1
    <3>2. \A m \in 1 .. to - at : [char |-> buffer[at + m - 1]] \in Piece
      BY <1>3, <3>1 DEF Piece
    <3>3. to - at \in Nat
      BY <1>8, <2>1
    <3>4. PiecesOf(h) \in [1 .. to - at -> Piece]
      BY <2>4, <3>2
    <3>5. QED
      BY ONLY <3>3, <3>4
  <2>6. QED
    BY <1>0, <2>1, <2>2, <2>3, <2>4, <2>5, HandlerIsAdded
<1>9. CASE K = {} /\ AddHandler(Literal(at, n), n)
  <2>1. ASSUME NEW k \in at .. n - 1 PROVE ~IsToken(s, k)
    <3>1. Closes(s, k) = {i \in k .. n - 1 : CharAt(s, i) = "}"}
      BY <1>4 DEF Closes, Finds
    <3>2. \A i \in k .. n - 1 : i \in at .. n - 1
      BY <1>4, <1>5, <2>1
    <3>3. Closes(s, k) = {}
      BY <1>6, <1>9, <3>1, <3>2
    <3>4. QED
      BY <3>3 DEF IsToken
  <2>2. at <= n /\ n <= n
    <3>1. at \in Nat /\ at < n /\ n \in Nat
      BY <1>0, <1>4, <1>5
    <3>2. QED
      BY ONLY <3>1
  <2>3. QED
    BY <1>4, <1>8, <1>9, <2>1, <2>2
<1>10. CASE K # {} /\ TokenTo(end) \in Tokens /\ AddHandler(ExpandToken(TokenTo(end)), end + 1)
  <2> PICK t : t = TokenTo(end)
    OBVIOUS
  <2> PICK h : h = ExpandToken(t)
    OBVIOUS
  <2>1. IsToken(s, at) /\ t = TokenName(s, at) /\ t \in Tokens
    BY <1>0, <1>5, <1>7, <1>10 DEF IsToken
  <2>2. end \in at .. n - 1
    BY <1>4, <1>5, <1>10, TokenEndIs
  <2>3. at \in 0 .. n /\ at # n /\ end + 1 \in 0 .. n /\ 1 + end = end + 1
    <3>1. at \in Nat /\ at < n /\ n \in Nat
      BY <1>0, <1>4, <1>5
    <3>2. QED
      BY ONLY <2>2, <3>1
  <2>4. Pieces[at] = <<PieceAt(s, at)>> \o Pieces[PieceEnd(s, at)]
    BY <1>3, <2>3, PiecesAre
  <2>5. PieceAt(s, at) = [token |-> t] /\ PieceEnd(s, at) = end + 1
    BY <1>5, <2>1, <2>3 DEF PieceAt, PieceEnd
  <2>6. t # <<>> /\ h.token = t /\ h \in Handler
    BY <1>4, <2>1, FormatAssumption DEF ExpandToken, Handler
  <2>7. PiecesOf(h) = <<[token |-> t]>>
    BY <2>6 DEF PiecesOf
  <2>8. PiecesOf(h) \in Seq(Piece)
    <3>1. [token |-> t] \in Piece
      BY <2>1 DEF Piece
    <3>2. QED
      BY <2>7, <3>1
  <2>9. AddHandler(h, end + 1)
    BY <1>10
  <2>10. Pieces[at] = PiecesOf(h) \o Pieces[end + 1]
    BY <2>4, <2>5, <2>7, Zenon
  <2>11. QED
    BY <1>0, <2>3, <2>6, <2>8, <2>9, <2>10, HandlerIsAdded
<1>11. CASE K # {} /\ TokenTo(end) \notin Tokens /\ AddHandler(Literal(at, at + 1), at + 1)
  <2>1. ~IsToken(s, at)
    BY <1>7, <1>11 DEF IsToken
  <2>2. at + 1 \in Nat /\ at <= at + 1 /\ at + 1 <= n /\ \A k \in at .. at + 1 - 1 : k = at
    <3>1. at \in Nat /\ at < n /\ n \in Nat
      BY <1>0, <1>4, <1>5
    <3>2. QED
      BY ONLY <3>1
  <2> PICK to : to = at + 1
    OBVIOUS
  <2>3. to \in Nat /\ at <= to /\ to <= n /\ AddHandler(Literal(at, to), to) /\ \A k \in at .. to - 1 : k = at
    <3>1. AddHandler(Literal(at, to), to)
      BY <1>11, Zenon
    <3>2. to = at + 1 /\ at \in Nat
      BY <1>5
    <3>3. to \in Nat /\ at <= to /\ \A k \in at .. to - 1 : k = at
      BY ONLY <3>2
    <3>4. QED
      BY <2>2, <3>1, <3>3
  <2>4. \A k \in at .. to - 1 : ~IsToken(s, k)
    BY <2>1, <2>3, Zenon
  <2>5. QED
    BY <1>8, <2>3, <2>4
<1>12. QED
  BY <1>1, <1>9, <1>10, <1>11

-----------------------------------------------------------------------------
(* create_format_string: what is written so far, and what one piece adds     *)
LEMMA WrittenIs ==
  ASSUME buffer \in [0 .. MaxLen - 1 -> AllChars], NEW n \in Nat, n <= MaxLen
  PROVE  /\ WrittenTo(buffer, n) \in Seq(AllChars) /\ Len(WrittenTo(buffer, n)) = n
         /\ \A k \in 1 .. n : WrittenTo(buffer, n)[k] = buffer[k - 1]
<1> DEFINE w == WrittenTo(buffer, n)
<1>1. \A k \in 1 .. n : k - 1 \in 0 .. MaxLen - 1
  BY FormatAssumption
<1>2. w \in [1 .. n -> AllChars] /\ \A k \in 1 .. n : w[k] = buffer[k - 1]
  BY <1>1 DEF WrittenTo
<1> HIDE DEF w
<1>3. w \in Seq(AllChars) /\ Len(w) = n
  BY ONLY <1>2, n \in Nat
<1>4. QED
  BY <1>2, <1>3 DEF w

LEMMA LengthIs ==
  ASSUME format \in Seq(FormatChars)
  PROVE  Length \in Nat /\ Length <= Len(format) /\ Length <= MaxLen - 1 /\ (Len(format) < MaxLen => Length = Len(format))
BY FormatAssumption DEF Length

\* The backslash that is found next
LEMMA NextBackslash ==
  ASSUME FormatTypes, Backslashes # {}, NEW k, k = First(Backslashes)
  PROVE  /\ k \in Nat /\ decode.i <= k /\ k < Length /\ CharAt(format, k) = BACKSLASH
         /\ \A j \in decode.i .. k - 1 : CharAt(format, j) # BACKSLASH
<1> DEFINE K == Backslashes
<1> PICK i : i = decode.i
  OBVIOUS
<1>1. i \in Nat /\ Length \in Nat
  BY LengthIs DEF FormatTypes
<1>2. K = {j \in i .. Length - 1 : CharAt(format, j) = BACKSLASH}
  BY Zenon DEF Backslashes, Finds
<1>3. K \subseteq Nat
  BY <1>1, <1>2
<1>4. k \in K /\ \A j \in K : k <= j
  BY <1>3, FirstIs
<1> HIDE DEF K
<1>5. k \in Nat /\ i <= k /\ k < Length /\ CharAt(format, k) = BACKSLASH
  BY <1>1, <1>2, <1>4
<1>6. ASSUME NEW j \in i .. k - 1 PROVE CharAt(format, j) # BACKSLASH
  <2>1. j \in i .. Length - 1 /\ ~(k <= j)
    BY <1>1, <1>5
  <2>2. QED
    BY <1>2, <1>4, <2>1
<1>7. QED
  BY <1>5, <1>6

LEMMA MeaningIsASequence == format \in Seq(FormatChars) => Decoded[0] \in Seq(AllChars)
<1> SUFFICES ASSUME format \in Seq(FormatChars) PROVE Decoded[0] \in Seq(AllChars)
  OBVIOUS
<1>1. 0 \in 0 .. Len(format) + 3
  OBVIOUS
<1>2. QED
  BY <1>1, DecodedType

LEMMA InitializeKeeps ==
  ASSUME FormatInv, NEW f \in Formats, Initialize(f)
  PROVE  FormatInv'
<1>1. FormatTypes /\ stage = "down"
  BY DEF FormatInv, Initialize
<1>2. /\ stage' = "decode" /\ inits' = inits + 1 /\ format' = f /\ buffer' = buffer
      /\ decode' = [i |-> 0, dest |-> 0, start |-> 0, not_copied |-> 0]
  BY DEF Initialize, AtStart
<1>3. format' \in Seq(FormatChars) /\ MaxLen \in Nat /\ MaxLen > 0
  BY <1>2, FormatAssumption
<1>4. FormatTypes'
  <2>1. inits' \in Nat /\ inits' # 0
    BY <1>1, <1>2 DEF FormatTypes
  <2>2. QED
    BY <1>1, <1>2, <1>3, <2>1 DEF FormatTypes
<1>5. FormatIsDecoded'
  BY <1>2 DEF FormatIsDecoded
<1>6. Decoding'
  <2>1. decode'.i = 0 /\ decode'.dest = 0 /\ decode'.start = 0 /\ decode'.not_copied = 0 /\ Filled' = 0
    BY <1>2 DEF Filled
  <2>2. inits' = 1 => \A k \in 0 .. MaxLen - 1 : buffer'[k] = EOS
    <3>1. inits' = 1 => inits = 0
      BY <1>1, <1>2 DEF FormatTypes
    <3>2. QED
      BY <1>1, <1>2, <3>1 DEF FormatTypes
  <2>3. WrittenTo(buffer, Filled)' = <<>>
    <3>1. WrittenTo(buffer, Filled)' = [k \in 1 .. 0 |-> buffer'[k - 1]]
      BY <2>1 DEF WrittenTo
    <3>2. QED
      BY <3>1
  <2>4. Len(format') \in Nat
    BY <1>3
  <2>5. Decoded'[0] \in Seq(AllChars)
    <3>1. (format \in Seq(FormatChars) => Decoded[0] \in Seq(AllChars))'
      BY MeaningIsASequence, PTL
    <3>2. QED
      BY <1>3, <3>1
  <2>6. <<>> \o Decoded'[0] = Decoded'[0]
    BY <2>5, ConcatEmptySeq, Zenon
  <2>7. (WrittenTo(buffer, Filled) \o Decoded[decode.i] = Decoded[0])'
    BY <2>1, <2>3, <2>6
  <2>8. (\A k \in 0 .. Filled - 1 : buffer[k] # EOS)' /\ (inits = 1 => \A k \in Filled .. MaxLen - 1 : buffer[k] = EOS)'
    BY <2>1, <2>2
  <2>9. /\ (decode.i \in 0 .. Len(format) /\ decode.start \in 0 .. decode.i /\ decode.dest \in 0 .. decode.start)'
        /\ (Filled < MaxLen)'
    BY <1>3, <2>1, <2>4
  <2>10. QED
    BY <2>1, <2>7, <2>8, <2>9 DEF Decoding
<1>7. QED
  BY <1>2, <1>4, <1>5, <1>6 DEF FormatInv

LEMMA DecodeUnknownKeeps ==
  ASSUME FormatInv, DecodeUnknown
  PROVE  FormatInv'
<1> PICK k : k = First(Backslashes)
  OBVIOUS
<1>1. /\ stage = "decode" /\ Backslashes # {} /\ ~IsKnown(format, k)
      /\ decode' = [decode EXCEPT !.i = k + 2, !.not_copied = @ + (k - decode.i) + 2]
      /\ stage' = stage /\ inits' = inits /\ format' = format /\ buffer' = buffer
  BY DEF DecodeUnknown
<1>2. FormatTypes
  BY DEF FormatInv
<1>3. k \in Nat /\ decode.i <= k /\ k < Length /\ CharAt(format, k) = BACKSLASH
  BY <1>1, <1>2, NextBackslash
<1>4. FormatTypes'
  <2>1. decode' \in [i : Nat, dest : Nat, start : Nat, not_copied : Nat]
    <3>1. decode \in [i : Nat, dest : Nat, start : Nat, not_copied : Nat]
      BY <1>2 DEF FormatTypes
    <3>2. k + 2 \in Nat /\ decode.not_copied + (k - decode.i) + 2 \in Nat
      BY <1>3, <3>1
    <3>3. QED
      BY <1>1, <3>1, <3>2
  <2>2. QED
    BY <1>1, <1>2, <2>1 DEF FormatTypes
<1>5. ~OnlyKnownEscapes(format)
  <2>1. k \in 0 .. Len(format) - 1
    BY <1>2, <1>3, LengthIs DEF FormatTypes
  <2>2. QED
    BY <1>1, <1>3, <2>1 DEF OnlyKnownEscapes
<1>6. ~OnlyKnownEscapes(format)'
  BY <1>1, <1>5
<1>7. QED
  BY <1>1, <1>4, <1>6 DEF FormatInv, FormatIsDecoded

\* Copying a piece without backslashes behind what is written
NoNul(f, n) == \A k \in 0 .. n - 1 : f[k] # EOS
SameFrom(f, n) == \A k \in n .. MaxLen - 1 : f[k] = buffer[k]
Plain(b, n, new) ==
  /\ FormatTypes /\ Decoding /\ decode.i < Length /\ b \in Nat /\ decode.i <= b /\ b <= Length
  /\ \A j \in decode.i .. b - 1 : CharAt(format, j) # BACKSLASH
  /\ n = b - decode.i /\ new = Copied(decode.dest, decode.start, n)
LEMMA PieceIsCopied ==
  ASSUME NEW b, NEW n, NEW new, Plain(b, n, new)
  PROVE  /\ n \in Nat /\ decode.dest + n <= b /\ new \in [0 .. MaxLen - 1 -> AllChars]
         /\ NoNul(new, decode.dest + n) /\ SameFrom(new, decode.dest + n)
         /\ WrittenTo(new, decode.dest + n) \in Seq(AllChars)
         /\ WrittenTo(new, decode.dest + n) \o Decoded[b] = Decoded[0]
<1> USE DEF Plain
<1> PICK i : i = decode.i
  OBVIOUS
<1> PICK d : d = decode.dest
  OBVIOUS
<1> PICK e : e = d + n
  OBVIOUS
<1> PICK M : M = MaxLen
  OBVIOUS
<1>1. /\ i \in Nat /\ d \in Nat /\ d <= i /\ n \in Nat /\ e \in Nat /\ e <= b /\ decode.start = i
      /\ Filled = d /\ M \in Nat /\ b <= M - 1 /\ e <= M - 1 /\ b <= Len(format) /\ b = i + n
  <2>1. format \in Seq(FormatChars) /\ Length \in Nat /\ Length <= Len(format) /\ Length <= M - 1 /\ M \in Nat
    BY LengthIs, FormatAssumption DEF FormatTypes
  <2>2. decode.start = i /\ i \in Nat /\ d \in Nat /\ d <= i
    BY DEF Decoding, FormatTypes
  <2>3. Filled = d
    BY <2>2 DEF Filled
  <2>4. b \in Nat /\ i <= b /\ b <= Length /\ n = b - i /\ e = d + n
    OBVIOUS
  <2>5. Len(format) \in Nat
    BY <2>1
  <2>6. QED
    BY ONLY <2>1, <2>2, <2>3, <2>4, <2>5
<1>2. new = [k \in 0 .. M - 1 |-> IF k \in d .. e - 1 THEN CharAt(format, i + k - d) ELSE buffer[k]]
  <2>1. DOMAIN buffer = 0 .. M - 1
    BY DEF FormatTypes
  <2>2. new = Copied(d, i, n)
    BY <1>1
  <2>3. new = [k \in 0 .. M - 1 |->
                 IF k \in d .. d + n - 1 THEN CharAt(format, i + k - d) ELSE buffer[k]]
    BY ONLY <2>1, <2>2, Zenon DEF Copied
  <2>4. d + n - 1 = e - 1
    BY ONLY e = d + n, <1>1
  <2>5. QED
    BY ONLY <2>3, <2>4, Zenon
<1>3. \A k \in d .. e - 1 : i + k - d \in 0 .. Len(format) - 1 /\ i + k - d \in Int /\ k \in 0 .. M - 1
  <2>1. Len(format) \in Nat /\ e = d + n
    BY DEF FormatTypes
  <2>2. QED
    BY ONLY <1>1, <2>1
<1>4. \A k \in d .. e - 1 : new[k] = CharAt(format, i + k - d) /\ new[k] \in AllChars /\ new[k] # EOS
  <2> TAKE k \in d .. e - 1
  <2>1. new[k] = CharAt(format, i + k - d)
    BY <1>2, <1>3
  <2>2. QED
    BY <1>3, <2>1, FormatCharIs DEF FormatTypes
<1>5. \A k \in 0 .. M - 1 : k \notin d .. e - 1 => new[k] = buffer[k] /\ buffer[k] \in AllChars
  BY <1>2 DEF FormatTypes
<1>6. new \in [0 .. M - 1 -> AllChars]
  <2>1. \A k \in 0 .. M - 1 : new[k] \in AllChars
    BY <1>4, <1>5
  <2>2. new = [k \in 0 .. M - 1 |-> new[k]]
    BY <1>2
  <2>3. QED
    BY <2>1, <2>2
<1>7. \A k \in 0 .. e - 1 : new[k] # EOS
  <2> TAKE k \in 0 .. e - 1
  <2>1. k \in 0 .. M - 1 /\ (k \notin d .. e - 1 => k \in 0 .. d - 1)
    BY <1>1, SMTT(30)
  <2>2. \A j \in 0 .. d - 1 : buffer[j] # EOS
    BY <1>1 DEF Decoding
  <2>3. QED
    BY <1>4, <1>5, <2>1, <2>2
<1>8. \A k \in e .. M - 1 : new[k] = buffer[k]
  <2> TAKE k \in e .. M - 1
  <2>1. k \in 0 .. M - 1 /\ k \notin d .. e - 1
    BY <1>1
  <2>2. QED
    BY <1>5, <2>1
<1> PICK x : x = WrittenTo(buffer, d)
  OBVIOUS
<1> PICK y : y = [m \in 1 .. b - i |-> CharAt(format, i + m - 1)]
  OBVIOUS
<1> PICK z : z = Decoded[b]
  OBVIOUS
<1> PICK w : w = [k \in 1 .. e |-> new[k - 1]]
  OBVIOUS
<1>9. x \in Seq(AllChars) /\ Len(x) = d /\ \A k \in 1 .. d : x[k] = buffer[k - 1]
  <2>1. d <= MaxLen
    BY <1>1, SMTT(30)
  <2>2. QED
    BY <1>1, <2>1, WrittenIs DEF FormatTypes
<1>10. Decoded[i] = y \o z /\ y \in Seq(AllChars)
  BY <1>1, PlainIsItself DEF FormatTypes
<1>11. b - i = n /\ Len(y) = n /\ \A m \in 1 .. n : y[m] = CharAt(format, i + m - 1)
  <2>1. b - i = n
    BY <1>1
  <2>2. DOMAIN y = 1 .. n
    BY <2>1
  <2>3. QED
    BY <1>1, <1>10, <2>1, <2>2
<1>12. z \in Seq(AllChars)
  <2>1. b \in 0 .. Len(format) + 3
    BY <1>1, Len(format) \in Nat, SMTT(30) DEF FormatTypes
  <2>2. QED
    BY <2>1, DecodedType DEF FormatTypes
<1>13. w = x \o y /\ w \in Seq(AllChars)
  <2> PICK v : v = x \o y
    OBVIOUS
  <2>1. /\ v \in Seq(AllChars) /\ Len(v) = Len(x) + Len(y)
        /\ \A k \in 1 .. Len(x) : v[k] = x[k]
        /\ \A k \in 1 .. Len(y) : v[Len(x) + k] = y[k]
    <3>1. x \in Seq(AllChars) /\ y \in Seq(AllChars) /\ v = x \o y
      BY <1>9, <1>10
    <3>2. QED
      BY ONLY <3>1, JoinedIs
  <2>2. \A k \in 1 .. e : k - 1 \in 0 .. M - 1
    BY <1>1
  <2>3. w \in [1 .. e -> AllChars] /\ \A k \in 1 .. e : w[k] = new[k - 1]
    BY <1>6, <2>2
  <2>4. w \in Seq(AllChars) /\ Len(w) = e
    BY ONLY <1>1, <2>3
  <2>5. Len(v) = e
    BY <1>1, <1>9, <1>11, <2>1
  <2>6. ASSUME NEW k \in 1 .. e PROVE w[k] = v[k]
    <3>1. CASE k <= d
      <4>1. k \in 1 .. d /\ k - 1 \in 0 .. M - 1 /\ k - 1 \notin d .. e - 1
        BY <1>1, <2>6, <3>1
      <4>2. w[k] = buffer[k - 1]
        BY <1>5, <2>3, <4>1
      <4>3. QED
        BY <1>9, <2>1, <4>1, <4>2
    <3>2. CASE ~(k <= d)
      <4> PICK m : m = k - d
        OBVIOUS
      <4>1. m \in 1 .. n /\ k = d + m /\ k - 1 \in d .. e - 1 /\ i + (k - 1) - d = i + m - 1
        <5>1. e = d + n /\ m = k - d /\ k \in 1 .. e /\ ~(k <= d)
          BY <3>2
        <5>2. QED
          BY ONLY <1>1, <5>1
      <4>2. w[k] = CharAt(format, i + (k - 1) - d)
        BY <1>4, <2>3, <4>1
      <4>3. v[d + m] = y[m]
        <5>1. Len(x) = d /\ Len(y) = n
          BY <1>9, <1>11
        <5>2. QED
          BY ONLY <2>1, <4>1, <5>1
      <4>4. QED
        BY <1>11, <4>1, <4>2, <4>3
    <3>3. QED
      BY <3>1, <3>2
  <2>7. w = v
    <3>1. w \in Seq(AllChars) /\ v \in Seq(AllChars) /\ Len(w) = Len(v) /\ \A k \in 1 .. Len(w) : w[k] = v[k]
      BY <2>1, <2>4, <2>5, <2>6
    <3>2. QED
      BY ONLY <3>1, SeqEqual
  <2>8. QED
    BY <2>4, <2>7
<1>14. w \o z = Decoded[0]
  <2>1. x \in Seq(AllChars) /\ y \in Seq(AllChars) /\ z \in Seq(AllChars)
    BY <1>9, <1>10, <1>12
  <2>2. (x \o y) \o z = x \o (y \o z)
    BY ONLY <2>1, ConcatAssociative
  <2>3. x \o Decoded[i] = Decoded[0]
    BY <1>1 DEF Decoding
  <2>4. QED
    BY <1>10, <1>13, <2>2, <2>3
<1>15. decode.dest + n = e /\ MaxLen = M
  OBVIOUS
<1>16. WrittenTo(new, decode.dest + n) = w
  BY <1>15 DEF WrittenTo
<1>17. new \in [0 .. MaxLen - 1 -> AllChars] /\ n \in Nat /\ decode.dest + n <= b
  BY <1>1, <1>6
<1>18. NoNul(new, decode.dest + n)
  BY <1>7, <1>15, Zenon DEF NoNul
<1>19. SameFrom(new, decode.dest + n)
  BY <1>8, <1>15, Zenon DEF SameFrom
<1>20. QED
  BY <1>13, <1>14, <1>16, <1>17, <1>18, <1>19, Zenon

LEMMA CopiedType ==
  ASSUME FormatTypes, NEW d \in Int, NEW f \in Int, NEW n \in Int
  PROVE  Copied(d, f, n) \in [0 .. MaxLen - 1 -> AllChars]
<1>1. DOMAIN buffer = 0 .. MaxLen - 1 /\ \A k \in 0 .. MaxLen - 1 : buffer[k] \in AllChars
  BY DEF FormatTypes
<1>2. \A k \in 0 .. MaxLen - 1 : f + k - d \in Int
  OBVIOUS
<1>3. \A k \in 0 .. MaxLen - 1 : CharAt(format, f + k - d) \in AllChars
  BY <1>2, FormatCharIs DEF FormatTypes
<1>4. QED
  BY <1>1, <1>3 DEF Copied

LEMMA DecodeRestKeeps ==
  ASSUME FormatInv, DecodeRest
  PROVE  FormatInv'
<1> PICK i : i = decode.i
  OBVIOUS
<1> PICK n : n = Length - decode.start + decode.not_copied
  OBVIOUS
<1> PICK d : d = decode.dest
  OBVIOUS
<1>1. /\ stage = "decode" /\ i < Length /\ Backslashes = {}
      /\ buffer' = Copied(d, decode.start - decode.not_copied, n)
      /\ stage' = (IF d + n > MaxLen THEN "undefined" ELSE "decode")
      /\ decode' = [decode EXCEPT !.i = Length] /\ inits' = inits /\ format' = format
  BY DEF DecodeRest
<1>2. FormatTypes
  BY DEF FormatInv
<1>3. /\ format \in Seq(FormatChars) /\ decode \in [i : Nat, dest : Nat, start : Nat, not_copied : Nat]
      /\ Length \in Nat /\ Length <= Len(format) /\ Length <= MaxLen - 1 /\ MaxLen \in Nat /\ Len(format) \in Nat
  BY <1>2, LengthIs, FormatAssumption DEF FormatTypes
<1>4. decode' \in [i : Nat, dest : Nat, start : Nat, not_copied : Nat]
  BY <1>1, <1>3
<1>5. buffer' \in [0 .. MaxLen - 1 -> AllChars]
  <2>1. d \in Int /\ decode.start - decode.not_copied \in Int /\ n \in Int
    BY <1>3
  <2>2. QED
    BY <1>1, <1>2, <2>1, CopiedType
<1>6. FormatTypes'
  <2>1. inits # 0 /\ inits' \in Nat
    BY <1>1, <1>2 DEF FormatTypes
  <2>2. QED
    BY <1>1, <1>3, <1>4, <1>5, <2>1 DEF FormatTypes
<1>7. CASE ~OnlyKnownEscapes(format)
  <2>1. ~OnlyKnownEscapes(format)' /\ stage' \in {"undefined", "decode"}
    BY <1>1, <1>7
  <2>2. QED
    BY <1>6, <2>1 DEF FormatInv, FormatIsDecoded
<1>8. CASE OnlyKnownEscapes(format)
  <2>1. Decoding
    BY <1>1, <1>8 DEF FormatInv
  <2>2. /\ i \in Nat /\ decode.start = i /\ decode.not_copied = 0 /\ d \in Nat /\ d <= i /\ Filled = d
        /\ (inits = 1 => \A k \in d .. MaxLen - 1 : buffer[k] = EOS)
    <3>1. i \in Nat /\ decode.start = i /\ decode.not_copied = 0 /\ d \in Nat /\ d <= i
      BY <1>1, <1>3, <2>1 DEF Decoding
    <3>2. Filled = d
      BY <3>1 DEF Filled
    <3>3. QED
      BY <2>1, <3>1, <3>2 DEF Decoding
  <2>3. n = Length - i /\ decode.start - decode.not_copied = decode.start /\ i <= Length
    BY <1>1, <1>3, <2>2
  <2> PICK new : new = buffer'
    OBVIOUS
  <2>4. /\ n \in Nat /\ d + n <= Length /\ new \in [0 .. MaxLen - 1 -> AllChars]
        /\ NoNul(new, d + n) /\ SameFrom(new, d + n)
        /\ WrittenTo(new, d + n) \o Decoded[Length] = Decoded[0]
    <3>1. \A j \in i .. Length - 1 : CharAt(format, j) # BACKSLASH
      <4>1. Backslashes = {j \in i .. Length - 1 : CharAt(format, j) = BACKSLASH}
        BY Zenon DEF Backslashes, Finds
      <4>2. QED
        BY <1>1, <4>1
    <3>2. new = Copied(decode.dest, decode.start, n)
      BY <1>1, <2>3
    <3> PICK b : b = Length
      OBVIOUS
    <3>3. b \in Nat /\ decode.i <= b /\ b <= Length /\ decode.i < Length /\ n = b - decode.i
      BY <1>1, <1>3, <2>3
    <3>4. \A j \in decode.i .. b - 1 : CharAt(format, j) # BACKSLASH
      BY <3>1
    <3>5. Plain(b, n, new)
      BY <1>2, <2>1, <3>2, <3>3, <3>4 DEF Plain
    <3>6. /\ n \in Nat /\ decode.dest + n <= b /\ new \in [0 .. MaxLen - 1 -> AllChars]
          /\ NoNul(new, decode.dest + n) /\ SameFrom(new, decode.dest + n)
          /\ WrittenTo(new, decode.dest + n) \o Decoded[b] = Decoded[0]
      BY <3>5, PieceIsCopied, Zenon
    <3>7. QED
      BY <3>6, Zenon
  <2>5. /\ decode'.i = Length /\ decode'.dest = d /\ decode'.start = i /\ decode'.not_copied = 0
        /\ Length' = Length /\ Decoded' = Decoded
    BY <1>1, <1>3, <2>2, MeaningIsKept DEF Length
  <2>6. Filled' = d + n
    BY <2>3, <2>5 DEF Filled
  <2>7. stage' = "decode"
    <3>1. ~(d + n > MaxLen)
      BY <1>3, <2>2, <2>4
    <3>2. QED
      BY <1>1, <3>1
  <2>8. (WrittenTo(buffer, Filled) \o Decoded[decode.i] = Decoded[0])'
    <3>1. WrittenTo(buffer, Filled)' = WrittenTo(new, d + n)
      BY <2>6, Zenon DEF WrittenTo
    <3>2. QED
      BY <2>4, <2>5, <3>1
  <2>9. (inits = 1 => \A k \in Filled .. MaxLen - 1 : buffer[k] = EOS)'
    <3> SUFFICES ASSUME inits' = 1, NEW k \in d + n .. MaxLen - 1 PROVE new[k] = EOS
      BY <2>6
    <3>1. k \in d .. MaxLen - 1
      BY <1>3, <2>2, <2>4
    <3>2. QED
      BY <1>1, <2>2, <2>4, <3>1 DEF SameFrom
  <2>10. (\A k \in 0 .. Filled - 1 : buffer[k] # EOS)'
    BY <2>4, <2>6, Zenon DEF NoNul
  <2>11. Decoding'
    <3>1. /\ (decode.i \in 0 .. Len(format) /\ decode.start \in 0 .. decode.i /\ decode.dest \in 0 .. decode.start)'
          /\ (decode.i < Length => decode.start = decode.i)' /\ (Filled < MaxLen)' /\ (decode.not_copied = 0)'
      BY <1>1, <1>3, <2>2, <2>3, <2>4, <2>5, <2>6
    <3>2. QED
      BY <2>8, <2>9, <2>10, <3>1 DEF Decoding
  <2>12. QED
    BY <1>6, <2>7, <2>11 DEF FormatInv, FormatIsDecoded
<1>9. QED
  BY <1>7, <1>8

LEMMA DecodeEscapeKeeps ==
  ASSUME FormatInv, DecodeEscape
  PROVE  FormatInv'
<1> PICK k : k = First(Backslashes)
  OBVIOUS
<1> PICK i : i = decode.i
  OBVIOUS
<1> PICK d : d = decode.dest
  OBVIOUS
<1> PICK s : s = SkipChars(format, k)
  OBVIOUS
<1> PICK c : c = Meaning(format, k)
  OBVIOUS
<1> PICK n : n = IF k - i > 0 THEN (k - i) + decode.not_copied ELSE 0
  OBVIOUS
<1> PICK new : new = Copied(d, decode.start, n)
  OBVIOUS
<1>1. /\ stage = "decode" /\ i < Length /\ Backslashes # {} /\ IsKnown(format, k)
      /\ buffer' = [j \in DOMAIN buffer |-> IF j = d + n THEN c ELSE new[j]]
      /\ decode' = [i          |-> k + 2 + s,
                    dest       |-> d + n + 1,
                    start      |-> decode.start + n + 2 + s,
                    not_copied |-> IF k - i > 0 THEN 0 ELSE decode.not_copied]
      /\ stage' = stage /\ inits' = inits /\ format' = format
  BY Zenon DEF DecodeEscape
<1>2. FormatTypes
  BY DEF FormatInv
<1>3. /\ format \in Seq(FormatChars) /\ decode \in [i : Nat, dest : Nat, start : Nat, not_copied : Nat]
      /\ Length \in Nat /\ Length <= Len(format) /\ Length <= MaxLen - 1 /\ MaxLen \in Nat /\ Len(format) \in Nat
      /\ DOMAIN buffer = 0 .. MaxLen - 1
  BY <1>2, LengthIs, FormatAssumption DEF FormatTypes
<1>4. /\ k \in Nat /\ i <= k /\ k < Length /\ CharAt(format, k) = BACKSLASH
      /\ \A j \in i .. k - 1 : CharAt(format, j) # BACKSLASH
  BY <1>1, <1>2, NextBackslash
<1>5. c \in AllChars /\ c # EOS /\ s \in {0, 2} /\ k + 2 + s <= Len(format)
  BY <1>1, <1>3, <1>4, EscapeIs
<1>6. i \in Nat /\ d \in Nat /\ decode.start \in Nat /\ decode.not_copied \in Nat /\ n \in Nat
  BY <1>3, <1>4, SMTT(30)
<1>7. new \in [0 .. MaxLen - 1 -> AllChars]
  BY <1>2, <1>6, CopiedType
<1>8. buffer' \in [0 .. MaxLen - 1 -> AllChars]
  BY <1>1, <1>3, <1>5, <1>7
<1>9. FormatTypes'
  <2>1. decode' \in [i : Nat, dest : Nat, start : Nat, not_copied : Nat]
    <3>1. k + 2 + s \in Nat /\ d + n + 1 \in Nat /\ decode.start + n + 2 + s \in Nat
      BY ONLY <1>4, <1>5, <1>6
    <3>2. (IF k - i > 0 THEN 0 ELSE decode.not_copied) \in Nat
      BY <1>6
    <3>3. QED
      BY <1>1, <3>1, <3>2
  <2>2. inits # 0 /\ inits' \in Nat
    BY <1>1, <1>2 DEF FormatTypes
  <2>3. QED
    BY <1>1, <1>3, <1>8, <2>1, <2>2 DEF FormatTypes
<1>10. FormatIsDecoded'
  BY <1>1 DEF FormatIsDecoded
<1>11. ASSUME OnlyKnownEscapes(format) PROVE Decoding'
  <2>1. Decoding
    BY <1>1, <1>11 DEF FormatInv
  <2>2. decode.start = i /\ decode.not_copied = 0 /\ d <= i
    BY <1>1, <1>3, <2>1 DEF Decoding
  <2>3. Filled = d
    BY <1>6, <2>2 DEF Filled
  <2>4. inits = 1 => \A j \in d .. MaxLen - 1 : buffer[j] = EOS
    BY <2>1, <2>3 DEF Decoding
  <2>5. n = k - i
    BY <1>4, <1>6, <2>2
  <2>6. Plain(k, n, new)
    <3>1. decode.i < Length /\ k \in Nat /\ decode.i <= k /\ k <= Length /\ n = k - decode.i
      <4>1. decode.i = i
        OBVIOUS
      <4>2. QED
        BY ONLY <1>1, <1>3, <1>4, <2>5, <4>1
    <3>2. \A j \in decode.i .. k - 1 : CharAt(format, j) # BACKSLASH
      BY <1>4
    <3>3. new = Copied(decode.dest, decode.start, n)
      OBVIOUS
    <3>4. QED
      BY ONLY <1>2, <2>1, <3>1, <3>2, <3>3 DEF Plain
  <2> PICK e : e = d + n
    OBVIOUS
  <2>7. /\ e <= k /\ NoNul(new, e) /\ SameFrom(new, e)
        /\ WrittenTo(new, e) \in Seq(AllChars) /\ WrittenTo(new, e) \o Decoded[k] = Decoded[0]
    <3>1. /\ decode.dest + n <= k /\ NoNul(new, decode.dest + n) /\ SameFrom(new, decode.dest + n)
          /\ WrittenTo(new, decode.dest + n) \in Seq(AllChars)
          /\ WrittenTo(new, decode.dest + n) \o Decoded[k] = Decoded[0]
      BY <2>6, PieceIsCopied, Zenon
    <3>2. QED
      BY <3>1, Zenon
  <2> PICK q : q = k + 2 + s
    OBVIOUS
  <2>8. /\ decode'.i = q /\ decode'.dest = e + 1 /\ decode'.start = q /\ decode'.not_copied = 0
        /\ q \in Nat /\ q <= Len(format) /\ e \in Nat /\ e + 1 <= q /\ e + 1 < MaxLen
    <3>1. decode.start + n + 2 + s = q
      BY <1>4, <1>5, <1>6, <2>2, <2>5
    <3>2. d + n + 1 = e + 1
      BY <1>6
    <3>3. decode'.not_copied = 0 /\ decode'.i = q /\ decode'.dest = e + 1 /\ decode'.start = q
      BY <1>1, <2>2, <3>1, <3>2
    <3>4. e \in Nat /\ q = k + 2 + s
      BY <1>6
    <3>5. q \in Nat /\ q <= Len(format) /\ e + 1 <= q /\ e + 1 < MaxLen
      BY ONLY <1>3, <1>4, <1>5, <2>7, <3>4
    <3>6. QED
      BY <3>3, <3>4, <3>5
  <2>9. Filled' = e + 1
    BY <2>8 DEF Filled
  <2>10. \A j \in 0 .. MaxLen - 1 : buffer'[j] = IF j = e THEN c ELSE new[j]
    BY <1>1, <1>3
  <2>11. (\A j \in 0 .. Filled - 1 : buffer[j] # EOS)'
    <3>1. \A j \in 0 .. e : j \in 0 .. MaxLen - 1 /\ (j # e => j \in 0 .. e - 1)
      BY ONLY <1>3, <2>8
    <3>2. \A j \in 0 .. e : buffer'[j] # EOS
      BY <1>5, <2>7, <2>10, <3>1 DEF NoNul
    <3>3. Filled' - 1 = e
      BY ONLY <2>8, <2>9
    <3>4. QED
      BY <3>2, <3>3
  <2>12. (inits = 1 => \A j \in Filled .. MaxLen - 1 : buffer[j] = EOS)'
    <3> SUFFICES ASSUME inits' = 1, NEW j \in e + 1 .. MaxLen - 1 PROVE buffer'[j] = EOS
      BY <2>9
    <3>1. j \in 0 .. MaxLen - 1 /\ j # e /\ j \in e .. MaxLen - 1 /\ j \in d .. MaxLen - 1
      <4>1. e = d + n
        OBVIOUS
      <4>2. QED
        BY ONLY j \in e + 1 .. MaxLen - 1, <1>3, <1>6, <2>8, <4>1
    <3>2. new[j] = buffer[j]
      BY <2>7, <3>1 DEF SameFrom
    <3>3. QED
      BY <1>1, <2>4, <2>10, <3>1, <3>2
  <2>13. WrittenTo(buffer', e + 1) = WrittenTo(new, e) \o <<c>>
    <3> PICK v : v = WrittenTo(buffer', e + 1)
      OBVIOUS
    <3> PICK x : x = WrittenTo(new, e)
      OBVIOUS
    <3> PICK y : y = <<c>>
      OBVIOUS
    <3> PICK w : w = x \o y
      OBVIOUS
    <3>1. x \in Seq(AllChars) /\ Len(x) = e /\ \A j \in 1 .. e : x[j] = new[j - 1]
      <4>1. x = [j \in 1 .. e |-> new[j - 1]]
        BY DEF WrittenTo
      <4>2. x \in Seq(AllChars) /\ e \in Nat
        BY <2>7, <2>8
      <4>3. QED
        BY ONLY <4>1, <4>2, SMTT(30)
    <3>2. y \in Seq(AllChars) /\ Len(y) = 1 /\ y[1] = c
      BY <1>5
    <3>3. /\ w \in Seq(AllChars) /\ Len(w) = Len(x) + Len(y)
          /\ \A j \in 1 .. Len(x) : w[j] = x[j]
          /\ \A j \in 1 .. Len(y) : w[Len(x) + j] = y[j]
      <4>1. x \in Seq(AllChars) /\ y \in Seq(AllChars) /\ w = x \o y
        BY <3>1, <3>2
      <4>2. QED
        BY ONLY <4>1, JoinedIs
    <3>4. \A j \in 1 .. e + 1 : j - 1 \in 0 .. MaxLen - 1
      BY ONLY <1>3, <2>8
    <3>5. v \in [1 .. e + 1 -> AllChars] /\ \A j \in 1 .. e + 1 : v[j] = buffer'[j - 1]
      <4>1. v = [j \in 1 .. e + 1 |-> buffer'[j - 1]]
        BY DEF WrittenTo
      <4>2. \A j \in 1 .. e + 1 : buffer'[j - 1] \in AllChars
        BY <1>8, <3>4
      <4>3. QED
        BY <4>1, <4>2
    <3>6. v \in Seq(AllChars) /\ Len(v) = e + 1
      <4>1. e + 1 \in Nat
        BY <2>8
      <4>2. QED
        BY ONLY <3>5, <4>1
    <3>7. ASSUME NEW j \in 1 .. e + 1 PROVE v[j] = w[j]
      <4>1. v[j] = IF j - 1 = e THEN c ELSE new[j - 1]
        BY <2>10, <3>4, <3>5
      <4>2. CASE j = e + 1
        <5>1. j - 1 = e /\ Len(x) + 1 = j /\ 1 \in 1 .. Len(y)
          BY <2>8, <3>1, <3>2, <4>2
        <5>2. w[j] = y[1]
          BY <3>3, <5>1
        <5>3. QED
          BY <3>2, <4>1, <5>1, <5>2
      <4>3. CASE j # e + 1
        <5>1. j - 1 # e /\ j \in 1 .. e /\ j \in 1 .. Len(x)
          BY <2>8, <3>1, <4>3
        <5>2. QED
          BY <3>1, <3>3, <4>1, <5>1
      <4>4. QED
        BY <4>2, <4>3
    <3>8. v = w
      <4>1. v \in Seq(AllChars) /\ w \in Seq(AllChars) /\ Len(v) = Len(w) /\ \A j \in 1 .. Len(v) : v[j] = w[j]
        BY ONLY <3>1, <3>2, <3>3, <3>6, <3>7, SMTT(30)
      <4>2. QED
        BY ONLY <4>1, SeqEqual
    <3>9. QED
      BY <3>8
  <2>14. Decoded[k] = <<c>> \o Decoded[q]
    <3>1. k \in 0 .. Len(format) - 1 /\ k \in 0 .. Len(format) + 3 /\ ~(k >= Len(format))
      BY ONLY <1>3, <1>4
    <3>2. IsEscape(format, k)
      BY <1>1, <1>4 DEF IsEscape
    <3>3. PartAt(format, k) = c /\ PartLength(format, k) = 2 + s
      BY <1>3, <3>1, <3>2, PartIs
    <3>4. k + (2 + s) = q
      BY <1>4, <1>5
    <3>5. Decoded[k] = <<PartAt(format, k)>> \o Decoded[k + PartLength(format, k)]
      BY <1>3, <3>1, DecodedIs
    <3>6. QED
      BY <3>3, <3>4, <3>5
  <2>15. (WrittenTo(buffer, Filled) \o Decoded[decode.i] = Decoded[0])'
    <3> PICK x : x = WrittenTo(new, e)
      OBVIOUS
    <3> PICK y : y = <<c>>
      OBVIOUS
    <3> PICK z : z = Decoded[q]
      OBVIOUS
    <3>1. x \in Seq(AllChars) /\ y \in Seq(AllChars)
      BY <1>5, <2>7
    <3>2. z \in Seq(AllChars)
      <4>1. q \in 0 .. Len(format) + 3
        BY ONLY <1>3, <2>8
      <4>2. QED
        BY <1>3, <4>1, DecodedType
    <3>3. (x \o y) \o z = x \o (y \o z)
      BY ONLY <3>1, <3>2, ConcatAssociative
    <3>4. x \o (y \o z) = Decoded[0]
      BY <2>7, <2>14, Zenon
    <3>5. Decoded' = Decoded
      BY <1>1, MeaningIsKept
    <3>6. WrittenTo(buffer', Filled') = x \o y
      BY <2>9, <2>13, Zenon
    <3>7. QED
      BY <2>8, <3>3, <3>4, <3>5, <3>6
  <2>16. /\ (decode.i \in 0 .. Len(format) /\ decode.start \in 0 .. decode.i /\ decode.dest \in 0 .. decode.start)'
         /\ (decode.i < Length => decode.start = decode.i)' /\ (Filled < MaxLen)' /\ (decode.not_copied = 0)'
    <3>1. Len(format') = Len(format)
      BY <1>1
    <3>2. QED
      BY ONLY <1>3, <2>8, <2>9, <3>1
  <2>17. QED
    BY <2>11, <2>12, <2>15, <2>16 DEF Decoding
<1>12. QED
  BY <1>1, <1>9, <1>10, <1>11 DEF FormatInv

\* What is left in the buffer when the loop of create_format_string has ended
LEMMA DecodedTextIs ==
  ASSUME FormatTypes, Decoding, stage = "decode", decode.i >= Length
  PROVE  /\ inits = 1 => IsText(buffer)
         /\ (IsText(buffer) /\ Len(format) < MaxLen) =>
              /\ SubSeq(Text(buffer), 1, Len(Decoded[0])) = Decoded[0]
              /\ inits = 1 => Text(buffer) = Decoded[0]
<1> PICK n : n = Filled
  OBVIOUS
<1> PICK w : w = WrittenTo(buffer, n)
  OBVIOUS
<1>1. /\ format \in Seq(FormatChars) /\ Len(format) \in Nat /\ MaxLen \in Nat /\ MaxLen > 0
      /\ buffer \in [0 .. MaxLen - 1 -> AllChars]
      /\ Length \in Nat /\ (Len(format) < MaxLen => Length = Len(format))
  BY LengthIs, FormatAssumption DEF FormatTypes
<1>2. /\ decode.i \in 0 .. Len(format) /\ n \in Nat /\ n < MaxLen /\ n <= MaxLen
      /\ \A k \in 0 .. n - 1 : buffer[k] # EOS
      /\ inits = 1 => \A k \in n .. MaxLen - 1 : buffer[k] = EOS
      /\ w \o Decoded[decode.i] = Decoded[0]
  <2>1. decode.i \in 0 .. Len(format) /\ decode.start \in 0 .. decode.i /\ decode.dest \in 0 .. decode.start
    BY DEF Decoding
  <2>2. n = decode.dest + (decode.i - decode.start)
    BY DEF Filled
  <2>3. n \in Nat
    BY ONLY <1>1, <2>1, <2>2
  <2>4. n < MaxLen
    BY DEF Decoding
  <2>5. n <= MaxLen
    BY ONLY <1>1, <2>3, <2>4
  <2>6. QED
    BY <2>1, <2>3, <2>4, <2>5 DEF Decoding
<1>3. inits = 1 => IsText(buffer)
  <2>1. MaxLen - 1 \in n .. MaxLen - 1 /\ MaxLen - 1 \in DOMAIN buffer
    BY ONLY <1>1, <1>2
  <2>2. QED
    BY <1>2, <2>1 DEF IsText
<1>4. w \in Seq(AllChars) /\ Len(w) = n /\ \A k \in 1 .. n : w[k] = buffer[k - 1]
  BY <1>1, <1>2, WrittenIs
<1>5. ASSUME IsText(buffer), Len(format) < MaxLen
      PROVE  /\ SubSeq(Text(buffer), 1, Len(Decoded[0])) = Decoded[0]
             /\ inits = 1 => Text(buffer) = Decoded[0]
  <2>1. Decoded[0] = w
    <3>1. decode.i = Len(format) /\ Len(format) \in 0 .. Len(format) + 3 /\ Len(format) >= Len(format)
      BY ONLY <1>1, <1>2, <1>5, decode.i >= Length
    <3>2. Decoded[Len(format)] = <<>>
      BY <1>1, <3>1, DecodedIs
    <3>3. w \o <<>> = w
      BY <1>4, ConcatEmptySeq, Zenon
    <3>4. QED
      BY <1>2, <3>1, <3>2, <3>3
  <2> PICK t : t = Text(buffer)
    OBVIOUS
  <2> PICK z : z = Size
    OBVIOUS
  <2>2. /\ t \in Seq(AllChars) /\ Len(t) = z /\ z \in 0 .. MaxLen - 1 /\ z \in Nat
        /\ buffer[z] = EOS /\ \A k \in 0 .. z - 1 : buffer[k] # EOS
        /\ \A k \in 1 .. z : t[k] = buffer[k - 1]
    BY <1>1, <1>5, TextIs
  <2>3. n <= z
    <3>1. z \notin 0 .. n - 1
      BY <1>2, <2>2
    <3>2. QED
      BY ONLY <1>2, <2>2, <3>1
  <2>4. inits = 1 => z = n
    <3>1. ASSUME inits = 1 PROVE n \notin 0 .. z - 1
      <4>1. n \in n .. MaxLen - 1
        BY ONLY <1>1, <1>2
      <4>2. QED
        BY <1>2, <2>2, <3>1, <4>1
    <3>2. QED
      BY <1>2, <2>2, <2>3, <3>1
  <2>5. \A k \in 1 .. n : t[k] = w[k]
    <3>1. \A k \in 1 .. n : k \in 1 .. z
      BY ONLY <1>2, <2>2, <2>3
    <3>2. QED
      BY <1>4, <2>2, <3>1
  <2>6. SubSeq(t, 1, n) = w
    <3> PICK u : u = SubSeq(t, 1, n)
      OBVIOUS
    <3>1. u \in Seq(AllChars) /\ Len(u) = n /\ \A k \in 1 .. n : u[k] = t[k]
      BY ONLY u = SubSeq(t, 1, n), <1>2, <2>2, <2>3
    <3>2. u \in Seq(AllChars) /\ w \in Seq(AllChars) /\ Len(u) = Len(w) /\ \A k \in 1 .. Len(u) : u[k] = w[k]
      BY <1>4, <2>5, <3>1
    <3>3. u = w
      BY ONLY <3>2, SeqEqual
    <3>4. QED
      BY <3>3
  <2>7. ASSUME inits = 1 PROVE t = w
    <3>1. t \in Seq(AllChars) /\ w \in Seq(AllChars) /\ Len(t) = Len(w) /\ \A k \in 1 .. Len(t) : t[k] = w[k]
      BY <1>4, <2>2, <2>4, <2>5, <2>7
    <3>2. QED
      BY ONLY <3>1, SeqEqual
  <2>8. QED
    BY <1>4, <2>1, <2>6, <2>7
<1>6. QED
  BY <1>3, <1>5

LEMMA DecodeEndsKeeps ==
  ASSUME FormatInv, DecodeEnds
  PROVE  FormatInv'
<1>1. /\ stage = "decode" /\ decode.i >= Length
      /\ inits' = inits /\ format' = format /\ buffer' = buffer /\ decode' = decode
  BY DEF DecodeEnds
<1>2. FormatTypes /\ (OnlyKnownEscapes(format) => Decoding)
  BY <1>1 DEF FormatInv
<1>3. inits # 0
  BY <1>1, <1>2 DEF FormatTypes
<1>4. Decoded' = Decoded
  BY <1>1, MeaningIsKept
<1>5. CASE stage' = "down"
  <2>1. FormatTypes'
    BY <1>1, <1>2, <1>3, <1>5 DEF FormatTypes
  <2>2. QED
    BY <1>5, <2>1 DEF FormatInv, FormatIsDecoded
<1>6. CASE stage' = (IF IsText(buffer) THEN "parse" ELSE "undefined") /\ at' = 0 /\ handlers' = <<>>
  <2>1. FormatTypes'
    <3>1. stage' \in {"parse", "undefined"}
      BY <1>6
    <3>2. QED
      BY <1>1, <1>2, <1>3, <3>1 DEF FormatTypes
  <2>2. OnlyKnownEscapes(format)' = OnlyKnownEscapes(format) /\ Text(buffer)' = Text(buffer)
    BY <1>1
  <2>3. FormatIsDecoded'
    <3> SUFFICES ASSUME OnlyKnownEscapes(format)
                 PROVE  /\ inits = 1 => stage' # "undefined"
                        /\ (stage' = "parse" /\ Len(format) < MaxLen) =>
                             /\ SubSeq(Text(buffer), 1, Len(Decoded[0])) = Decoded[0]
                             /\ inits = 1 => Text(buffer) = Decoded[0]
      BY <1>1, <1>4, <2>2 DEF FormatIsDecoded
    <3>1. /\ inits = 1 => IsText(buffer)
          /\ (IsText(buffer) /\ Len(format) < MaxLen) =>
               /\ SubSeq(Text(buffer), 1, Len(Decoded[0])) = Decoded[0]
               /\ inits = 1 => Text(buffer) = Decoded[0]
      BY <1>1, <1>2, DecodedTextIs
    <3>2. QED
      BY <1>6, <3>1
  <2>4. ASSUME stage' = "parse" PROVE Parsing'
    <3>1. IsText(buffer) /\ buffer \in [0 .. MaxLen - 1 -> AllChars]
      BY <1>2, <1>6, <2>4 DEF FormatTypes
    <3>2. Pieces' = Pieces /\ Size' = Size
      BY <1>1, PiecesAreKept
    <3>3. Size \in Nat /\ 0 \in 0 .. Size
      BY <3>1, TextIs
    <3>4. Pieces[0] \in Seq(Piece)
      BY <3>1, <3>3, PiecesType
    <3>5. Len(handlers') = 0 /\ handlers' \in Seq(Handler)
      BY <1>6
    <3>6. Spelled'[Len(handlers')] = <<>>
      <4>1. Joined(Spelled', [k \in 1 .. Len(handlers') |-> PiecesOf(handlers'[k])], Len(handlers'))
        BY <1>1, <3>5, SpelledIsNext
      <4> PICK b : b = [k \in 1 .. Len(handlers') |-> PiecesOf(handlers'[k])]
        OBVIOUS
      <4>2. Spelled' = [k \in 0 .. Len(handlers') |-> IF k = 0 THEN <<>> ELSE Spelled'[k - 1] \o b[k]]
        BY <4>1, Zenon DEF Joined
      <4>3. QED
        BY <3>5, <4>2
    <3>7. <<>> \o Pieces[0] = Pieces[0]
      BY <3>4, ConcatEmptySeq, Zenon
    <3>8. IsText(buffer)' /\ MaxHandlers \in Nat /\ at' \in 0 .. Size' /\ Len(handlers') <= MaxHandlers
      BY <1>1, <1>6, <3>1, <3>2, <3>3, <3>5, FormatAssumption
    <3>9. <<>> \in Seq(Piece)
      OBVIOUS
    <3>10. Spelled'[Len(handlers')] \in Seq(Piece) /\ Spelled'[Len(handlers')] \o Pieces'[at'] = Pieces'[0]
      BY <1>6, <3>2, <3>6, <3>7, <3>9, Zenon
    <3>11. QED
      BY <2>4, <3>5, <3>8, <3>10 DEF Parsing
  <2>5. QED
    BY <1>6, <2>1, <2>3, <2>4 DEF FormatInv
<1>7. QED
  BY <1>5, <1>6 DEF DecodeEnds

\* The steps that leave the text, and stuttering steps
LEMMA ParseEndsKeeps ==
  ASSUME FormatInv, ParseEnds
  PROVE  FormatInv'
<1>1. /\ stage = "parse" /\ at >= Size /\ stage' = "ready" /\ inits' = inits /\ format' = format
      /\ buffer' = buffer /\ decode' = decode /\ at' = at /\ handlers' = handlers
  BY DEF ParseEnds
<1>2. FormatTypes /\ Parsing /\ FormatIsDecoded
  BY <1>1 DEF FormatInv
<1>3. FormatTypes'
  BY <1>1, <1>2 DEF FormatTypes
<1>4. FormatIsDecoded'
  <2>1. inits' = 1 => stage' # "undefined"
    BY <1>1
  <2>2. QED
    BY <1>1, <2>1 DEF FormatIsDecoded
<1>5. Spelled' = Spelled /\ Pieces' = Pieces /\ Size' = Size
  BY <1>1, HandlersAreKept, PiecesAreKept
<1>6. at = Size
  <2>1. at \in 0 .. Size /\ Size \in Nat
    BY <1>2, TextIs DEF Parsing, FormatTypes
  <2>2. QED
    BY <1>1, <2>1
<1>7. Parsing'
  BY <1>1, <1>2, <1>5, <1>6 DEF Parsing
<1>8. QED
  BY <1>1, <1>3, <1>4, <1>7 DEF FormatInv

LEMMA ShutdownKeeps ==
  ASSUME FormatInv, Shutdown
  PROVE  FormatInv'
<1>1. /\ stage = "ready" /\ stage' = "down" /\ inits' = inits /\ format' = format
      /\ buffer' = buffer /\ decode' = decode
  BY DEF Shutdown
<1>2. FormatTypes
  BY DEF FormatInv
<1>3. FormatTypes'
  BY <1>1, <1>2 DEF FormatTypes
<1>4. QED
  BY <1>1, <1>3 DEF FormatInv, FormatIsDecoded

LEMMA FormatStutters ==
  ASSUME FormatInv, UNCHANGED formatVars
  PROVE  FormatInv'
<1>1. /\ stage' = stage /\ inits' = inits /\ format' = format /\ buffer' = buffer /\ decode' = decode
      /\ at' = at /\ handlers' = handlers
  BY DEF formatVars
<1>2. Spelled' = Spelled /\ Pieces' = Pieces /\ Size' = Size /\ Decoded' = Decoded /\ Length' = Length /\ Filled' = Filled
  BY <1>1, HandlersAreKept, PiecesAreKept, MeaningIsKept DEF Length, Filled
<1>3. FormatTypes' = FormatTypes /\ FormatIsDecoded' = FormatIsDecoded
  BY <1>1, <1>2 DEF FormatTypes, FormatIsDecoded
<1>4. Decoding' = Decoding /\ Parsing' = Parsing
  BY <1>1, <1>2 DEF Decoding, Parsing
<1>5. QED
  BY <1>1, <1>3, <1>4 DEF FormatInv

LEMMA FormatStarts == FormatInit => FormatInv
<1> SUFFICES ASSUME FormatInit PROVE FormatInv
  OBVIOUS
<1>1. /\ stage = "down" /\ inits = 0 /\ format = <<>> /\ buffer = [k \in 0 .. MaxLen - 1 |-> EOS]
      /\ decode = [i |-> 0, dest |-> 0, start |-> 0, not_copied |-> 0]
  BY DEF FormatInit, AtStart
<1>2. buffer \in [0 .. MaxLen - 1 -> AllChars]
  BY <1>1 DEF AllChars
<1>3. FormatTypes
  BY <1>1, <1>2 DEF FormatTypes
<1>4. QED
  BY <1>1, <1>3 DEF FormatInv, FormatIsDecoded

LEMMA FormatInvHolds == FormatSpec => []FormatInv
<1>1. FormatInv /\ [FormatNext]_formatVars => FormatInv'
  <2> SUFFICES ASSUME FormatInv, [FormatNext]_formatVars PROVE FormatInv'
    OBVIOUS
  <2>1. CASE \E f \in Formats : Initialize(f)
    BY <2>1, InitializeKeeps
  <2>2. CASE DecodeRest
    BY <2>2, DecodeRestKeeps
  <2>3. CASE DecodeEscape
    BY <2>3, DecodeEscapeKeeps
  <2>4. CASE DecodeUnknown
    BY <2>4, DecodeUnknownKeeps
  <2>5. CASE DecodeEnds
    BY <2>5, DecodeEndsKeeps
  <2>6. CASE ParseText
    BY <2>6, ParseTextKeeps
  <2>7. CASE ParseDelimiter
    BY <2>7, ParseDelimiterKeeps
  <2>8. CASE ParseEnds
    BY <2>8, ParseEndsKeeps
  <2>9. CASE Shutdown
    BY <2>9, ShutdownKeeps
  <2>10. CASE UNCHANGED formatVars
    BY <2>10, FormatStutters
  <2>11. QED
    BY <2>1, <2>2, <2>3, <2>4, <2>5, <2>6, <2>7, <2>8, <2>9, <2>10 DEF FormatNext
<1>2. QED
  BY <1>1, FormatStarts, PTL DEF FormatSpec

LEMMA HandlersSpell == FormatInv => HandlersSpellTheFormat
<1> SUFFICES ASSUME FormatInv, stage = "ready"
             PROVE  IF at < Size
                    THEN Len(handlers) = MaxHandlers
                         /\ Spelled[Len(handlers)] = SubSeq(Pieces[0], 1, Len(Spelled[Len(handlers)]))
                    ELSE Spelled[Len(handlers)] = Pieces[0]
  BY DEF HandlersSpellTheFormat
<1> PICK x : x = Spelled[Len(handlers)]
  OBVIOUS
<1> PICK y : y = Pieces[at]
  OBVIOUS
<1> PICK p : p = Pieces[0]
  OBVIOUS
<1>1. FormatTypes /\ Parsing
  BY DEF FormatInv
<1>2. /\ IsText(buffer) /\ buffer \in [0 .. MaxLen - 1 -> AllChars] /\ at \in 0 .. Size
      /\ (at = Size \/ Len(handlers) = MaxHandlers) /\ x \in Seq(Piece) /\ x \o y = p
  BY <1>1 DEF Parsing, FormatTypes
<1>3. Size \in Nat
  BY <1>2, TextIs
<1>4. y \in Seq(Piece)
  BY <1>2, PiecesType
<1>5. CASE at < Size
  <2> PICK u : u = SubSeq(p, 1, Len(x))
    OBVIOUS
  <2>1. /\ p \in Seq(Piece) /\ Len(p) = Len(x) + Len(y) /\ \A j \in 1 .. Len(x) : p[j] = x[j]
    <3>1. x \in Seq(Piece) /\ y \in Seq(Piece) /\ p = x \o y
      BY <1>2, <1>4
    <3>2. QED
      BY ONLY <3>1, JoinedIs
  <2>2. Len(x) \in Nat /\ Len(y) \in Nat
    BY ONLY <1>2, <1>4
  <2>3. Len(x) <= Len(p)
    BY ONLY <2>1, <2>2
  <2>4. u \in Seq(Piece) /\ Len(u) = Len(x) /\ \A j \in 1 .. Len(x) : u[j] = p[j]
    BY ONLY u = SubSeq(p, 1, Len(x)), <2>1, <2>2, <2>3
  <2>5. u \in Seq(Piece) /\ x \in Seq(Piece) /\ Len(u) = Len(x) /\ \A j \in 1 .. Len(u) : u[j] = x[j]
    BY <1>2, <2>1, <2>4
  <2>6. u = x
    BY ONLY <2>5, SeqEqual
  <2>7. Len(handlers) = MaxHandlers
    BY <1>2, <1>3, <1>5
  <2>8. QED
    BY <1>5, <2>6, <2>7
<1>6. CASE ~(at < Size)
  <2>1. at = Size /\ at \in 0 .. Size
    BY <1>2, <1>3, <1>6
  <2>2. y = <<>>
    BY <1>2, <2>1, PiecesAre
  <2>3. x \o <<>> = x
    BY <1>2, ConcatEmptySeq, Zenon
  <2>4. QED
    BY <1>2, <1>6, <2>2, <2>3
<1>7. QED
  BY <1>5, <1>6

\* create_format_string and parse_and_create_handlers_list: for every table of
\* tokens, every format, every size of the buffer and of g_handlers and every
\* sequence of initializations, escapes are decoded into the buffer without leaving
\* it the first time, and the handlers spell the text of the buffer.
THEOREM FormatsAreRead == FormatSpec => []FormatIsRead
<1>1. FormatInv => FormatIsRead
  BY HandlersSpell DEF FormatIsRead, FormatInv
<1>2. QED
  BY <1>1, FormatInvHolds, PTL
=============================================================================
