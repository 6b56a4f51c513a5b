--------------------------- MODULE ResourceProofs ---------------------------
(***************************************************************************)
(* Proofs about the parts that hold blocks of memory or handles of the     *)
(* dynamic linker: shared libraries, byte arrays, string arrays and char   *)
(* arrays, for every set of them and every size; and about the console     *)
(* output handler, which writes its lines to char arrays.                  *)
(***************************************************************************)
EXTENDS Buffers, LogOutput, SharedLibrary, FiniteSetTheorems, SequenceTheorems, WellFoundedInduction, TLAPS

(* Shared libraries.  The inductive invariant adds the types, and that only  *)
(* finitely many structs are loaded at a time.                               *)
OpenLibs(p) == {l \in Lib : p[l] # NOLIB}
LibInv ==
  /\ pointer \in [Lib -> Path \union {NOLIB}] /\ hasPath \in [Lib -> BOOLEAN]
  /\ opened \in Int /\ closeFailures \in Nat /\ dlError \in BOOLEAN
  /\ IsFiniteSet(OpenLibs(pointer))
  /\ \A l \in Lib : hasPath[l] <=> pointer[l] # NOLIB
  /\ opened = Cardinality(OpenLibs(pointer)) + closeFailures
  /\ SymbolsAreFound

LEMMA OpeningALib ==
  ASSUME NEW p \in [Lib -> Path \union {NOLIB}], IsFiniteSet(OpenLibs(p)), NEW l \in Lib
  PROVE  /\ \A x \in Path : p[l] = NOLIB =>
              /\ IsFiniteSet(OpenLibs([p EXCEPT ![l] = x]))
              /\ Cardinality(OpenLibs([p EXCEPT ![l] = x])) = Cardinality(OpenLibs(p)) + 1
         /\ p[l] # NOLIB =>
              /\ IsFiniteSet(OpenLibs([p EXCEPT ![l] = NOLIB]))
              /\ Cardinality(OpenLibs([p EXCEPT ![l] = NOLIB])) = Cardinality(OpenLibs(p)) - 1
         /\ Cardinality(OpenLibs(p)) \in Nat
<1>1. ASSUME NEW x \in Path, p[l] = NOLIB
      PROVE  OpenLibs([p EXCEPT ![l] = x]) = OpenLibs(p) \union {l} /\ l \notin OpenLibs(p)
  BY <1>1, LibAssumption DEF OpenLibs
<1>2. ASSUME p[l] # NOLIB
      PROVE  OpenLibs([p EXCEPT ![l] = NOLIB]) = OpenLibs(p) \ {l} /\ l \in OpenLibs(p)
  BY <1>2 DEF OpenLibs
<1>3. ASSUME NEW x \in Path, p[l] = NOLIB
      PROVE  /\ IsFiniteSet(OpenLibs([p EXCEPT ![l] = x]))
             /\ Cardinality(OpenLibs([p EXCEPT ![l] = x])) = Cardinality(OpenLibs(p)) + 1
  <2>1. /\ IsFiniteSet(OpenLibs(p) \union {l})
        /\ Cardinality(OpenLibs(p) \union {l}) = Cardinality(OpenLibs(p)) + 1
    BY <1>1, <1>3, FS_AddElement
  <2>2. QED
    BY <1>1, <1>3, <2>1
<1>4. ASSUME p[l] # NOLIB
      PROVE  /\ IsFiniteSet(OpenLibs([p EXCEPT ![l] = NOLIB]))
             /\ Cardinality(OpenLibs([p EXCEPT ![l] = NOLIB])) = Cardinality(OpenLibs(p)) - 1
  <2>1. /\ IsFiniteSet(OpenLibs(p) \ {l})
        /\ Cardinality(OpenLibs(p) \ {l}) = Cardinality(OpenLibs(p)) - 1
    BY <1>2, <1>4, FS_RemoveElement
  <2>2. QED
    BY <1>2, <1>4, <2>1
<1>5. Cardinality(OpenLibs(p)) \in Nat
  BY FS_CardinalityType
<1>6. QED
  BY <1>3, <1>4, <1>5

LEMMA LibInitInv == LibInit => LibInv
<1> SUFFICES ASSUME LibInit
             PROVE  LibInv
  OBVIOUS
<1>1. OpenLibs(pointer) = {}
  BY DEF LibInit, OpenLibs
<1>2. SymbolsAreFound
  BY DEF LibInit, NoAnswer, SymbolsAreFound
<1>3. IsFiniteSet(OpenLibs(pointer)) /\ Cardinality(OpenLibs(pointer)) = 0
  BY <1>1, FS_EmptySet
<1>4. pointer \in [Lib -> Path \union {NOLIB}] /\ hasPath \in [Lib -> BOOLEAN]
  BY DEF LibInit
<1>5. opened = 0 /\ closeFailures = 0 /\ dlError \in BOOLEAN
  BY DEF LibInit
<1>6. \A l \in Lib : hasPath[l] <=> pointer[l] # NOLIB
  BY DEF LibInit
<1>7. QED
  BY <1>2, <1>3, <1>4, <1>5, <1>6 DEF LibInv

LEMMA LoadInv ==
  ASSUME LibInv, NEW l \in Lib,
         (\E p \in Path : Load(l, p)) \/ DlopenFails(l) \/ LoadFails(l)
  PROVE  LibInv'
<1>1. symbolAnswer' = symbolAnswer
  BY DEF Load, DlopenFails, LoadFails
<1>2. SymbolsAreFound'
  BY <1>1 DEF LibInv, SymbolsAreFound, SymbolIsThere
<1>3. ASSUME NEW p \in Path, Load(l, p)
      PROVE  LibInv'
  <2>1. /\ pointer[l] = NOLIB /\ pointer' = [pointer EXCEPT ![l] = p]
        /\ hasPath' = [hasPath EXCEPT ![l] = TRUE]
        /\ opened' = opened + 1 /\ UNCHANGED <<closeFailures, dlError>>
    BY <1>3 DEF Load
  <2>2. /\ IsFiniteSet(OpenLibs(pointer'))
        /\ Cardinality(OpenLibs(pointer')) = Cardinality(OpenLibs(pointer)) + 1
        /\ Cardinality(OpenLibs(pointer)) \in Nat
    BY <2>1, OpeningALib DEF LibInv
  <2>3. opened' = Cardinality(OpenLibs(pointer')) + closeFailures' /\ opened' \in Int
    BY <2>1, <2>2 DEF LibInv
  <2>4. \A k \in Lib : hasPath'[k] <=> pointer'[k] # NOLIB
    BY <2>1, LibAssumption DEF LibInv
  <2>5. pointer' \in [Lib -> Path \union {NOLIB}] /\ hasPath' \in [Lib -> BOOLEAN]
    BY <2>1 DEF LibInv
  <2>6. QED
    BY <1>2, <2>1, <2>2, <2>3, <2>4, <2>5 DEF LibInv
<1>4. CASE DlopenFails(l)
  BY <1>2, <1>4 DEF LibInv, DlopenFails
<1>5. CASE LoadFails(l)
  <2>1. UNCHANGED <<pointer, hasPath>> /\ dlError' \in BOOLEAN
    BY <1>5, Zenon DEF LoadFails, LibInv
  <2>2. \/ opened' = (opened + 1) - 1 /\ closeFailures' = closeFailures
        \/ opened' = opened + 1 /\ closeFailures' = closeFailures + 1
    BY <1>5 DEF LoadFails, Dlclose
  <2>3. Cardinality(OpenLibs(pointer)) \in Nat
    BY FS_CardinalityType DEF LibInv
  <2>4. /\ opened' = Cardinality(OpenLibs(pointer')) + closeFailures'
        /\ opened' \in Int /\ closeFailures' \in Nat
    BY <2>1, <2>2, <2>3 DEF LibInv
  <2>5. QED
    BY <1>2, <2>1, <2>4 DEF LibInv
<1>6. QED
  BY <1>3, <1>4, <1>5

LEMMA SymbolInv ==
  ASSUME LibInv, NEW l \in Lib, NEW s \in Symbols, GetSymbol(l, s) \/ HasSymbol(l, s)
  PROVE  LibInv'
<1>1. UNCHANGED <<pointer, hasPath, opened, closeFailures>> /\ dlError' = FALSE
  BY DEF GetSymbol, HasSymbol
<1>2. CASE GetSymbol(l, s)
  <2>1. /\ symbolAnswer'.call = "get" /\ symbolAnswer'.path = pointer[l] /\ symbolAnswer'.symbol = s
        /\ symbolAnswer'.found = (s \in SymbolsOf[pointer[l]] /\ ~dlError)
    BY <1>2 DEF GetSymbol, Answered, Exists
  <2>2. QED
    BY <1>1, <2>1 DEF LibInv, SymbolsAreFound, SymbolIsThere
<1>3. CASE HasSymbol(l, s)
  <2>1. /\ symbolAnswer'.call = "has" /\ symbolAnswer'.path = pointer[l] /\ symbolAnswer'.symbol = s
        /\ symbolAnswer'.found = (s \in SymbolsOf[pointer[l]] /\ ~FALSE)
    BY <1>3 DEF HasSymbol, Answered, Exists, ClearedError
  <2>2. QED
    BY <1>1, <2>1 DEF LibInv, SymbolsAreFound, SymbolIsThere
<1>4. QED
  BY <1>2, <1>3

LEMMA UnloadInv ==
  ASSUME LibInv, NEW l \in Lib, Unload(l)
  PROVE  LibInv'
<1>1. /\ pointer[l] # NOLIB /\ pointer' = [pointer EXCEPT ![l] = NOLIB]
      /\ hasPath' = [hasPath EXCEPT ![l] = FALSE] /\ symbolAnswer' = symbolAnswer
      /\ dlError' \in BOOLEAN
  BY DEF Unload, PathFreed, LibInv
<1>2. \/ opened' = opened - 1 /\ closeFailures' = closeFailures
      \/ opened' = opened /\ closeFailures' = closeFailures + 1
  BY DEF Unload, Dlclose
<1>3. /\ IsFiniteSet(OpenLibs(pointer'))
      /\ Cardinality(OpenLibs(pointer')) = Cardinality(OpenLibs(pointer)) - 1
      /\ Cardinality(OpenLibs(pointer)) \in Nat
  BY <1>1, OpeningALib DEF LibInv
<1>4. /\ opened' = Cardinality(OpenLibs(pointer')) + closeFailures'
      /\ opened' \in Int /\ closeFailures' \in Nat
  BY <1>2, <1>3 DEF LibInv
<1>5. \A k \in Lib : hasPath'[k] <=> pointer'[k] # NOLIB
  BY <1>1 DEF LibInv
<1>6. pointer' \in [Lib -> Path \union {NOLIB}] /\ hasPath' \in [Lib -> BOOLEAN]
  BY <1>1 DEF LibInv
<1>7. SymbolsAreFound'
  BY <1>1 DEF LibInv, SymbolsAreFound, SymbolIsThere
<1>8. QED
  BY <1>1, <1>3, <1>4, <1>5, <1>6, <1>7 DEF LibInv

(* src/shared_library.c keeps handles and paths together, loses no handle    *)
(* that the linker would close, and answers questions about symbols rightly, *)
(* for any number of libraries and any errors before.                        *)
THEOREM LibrariesSound == LibSpec => []LibrariesAreSound
<1>1. LibInv /\ [LibNext]_libVars => LibInv'
  <2> SUFFICES ASSUME LibInv, [LibNext]_libVars
               PROVE  LibInv'
    OBVIOUS
  <2>1. CASE UNCHANGED libVars
    BY <2>1 DEF LibInv, libVars, SymbolsAreFound, SymbolIsThere
  <2>2. CASE OtherError
    BY <2>2 DEF LibInv, OtherError, SymbolsAreFound, SymbolIsThere
  <2>3. QED
    BY <2>1, <2>2, LoadInv, SymbolInv, UnloadInv DEF LibNext
<1>2. LibInv => LibrariesAreSound
  BY DEF LibInv, LibrariesAreSound, LibrariesAreAccounted, OpenLibs
<1>3. QED
  BY LibInitInv, <1>1, <1>2, PTL DEF LibSpec

-----------------------------------------------------------------------------
(* Byte arrays.  What is accounted is inductive once the types are known. *)
BytesTypeOK ==
  /\ bytes \in [buffer : {"null", "heap"}, length : Nat, capacity : Nat]
  /\ byteBlocks \in Nat
BytesInv == BytesTypeOK /\ ByteBlocksAreAccounted

LEMMA BytesInvariance == BytesSpec => []BytesInv
<1>1. BytesInit => BytesInv
  BY DEF BytesInit, BytesInv, BytesTypeOK, ByteBlocksAreAccounted, NoBytes, BytesOf, Held
<1>2. BytesInv /\ [BytesNext]_byteVars => BytesInv'
  <2> SUFFICES ASSUME BytesInv, [BytesNext]_byteVars
               PROVE  BytesInv'
    OBVIOUS
  <2> USE DEF BytesInv, BytesTypeOK, ByteBlocksAreAccounted, BytesOf, NoBytes, Held
  <2>1. ASSUME NEW n \in ByteCapacities, InitBytes(n)
        PROVE  BytesInv'
    BY <2>1, BytesAssumption DEF InitBytes
  <2>2. ASSUME NEW n \in ByteCapacities, FillBytes(n)
        PROVE  BytesInv'
    BY <2>2, BytesAssumption DEF FillBytes
  <2>3. CASE FiniBytes
    BY <2>3 DEF FiniBytes
  <2>4. ASSUME NEW n \in ByteCapacities, ResizeBytes(n)
        PROVE  BytesInv'
    BY <2>4, BytesAssumption DEF ResizeBytes, AfterFailure
  <2>5. CASE UNCHANGED byteVars
    BY <2>5 DEF byteVars
  <2>6. QED
    BY <2>1, <2>2, <2>3, <2>4, <2>5 DEF BytesNext, ResizeBytesIgnored
<1>3. QED
  BY <1>1, <1>2, PTL DEF BytesSpec

-----------------------------------------------------------------------------
(* String arrays.  An array with data has an entry for each of its size; one *)
(* without has none, though a failed initialization has set its size.        *)
Entries == String \union {NOSTRING}
SoundArray(r) ==
  /\ DOMAIN r = {"null", "data", "size", "valid"}
  /\ r.null \in BOOLEAN /\ r.size \in Nat /\ r.valid \in BOOLEAN
  /\ r.data \in [1 .. (IF r.null THEN 0 ELSE r.size) -> Entries]
\* The blocks of all arrays, and those of one of them.
Row(a, S) == {a} \X S
HeldIn(f) == {p \in Array \X Nat : p[2] \in HeldBy(f[p[1]])}
StrInv ==
  /\ strs = [a \in Array |-> strs[a]] /\ \A a \in Array : SoundArray(strs[a])
  /\ IsFiniteSet(HeldIn(strs)) /\ strBlocks = Cardinality(HeldIn(strs))

LEMMA FilledFacts ==
  ASSUME NEW r, r.size \in Nat
  PROVE  /\ Filled(r) \subseteq 1 .. r.size /\ IsFiniteSet(Filled(r)) /\ StringsIn(r) \in Nat
         /\ HeldBy(r) \subseteq Nat /\ IsFiniteSet(HeldBy(r))
         /\ BlocksOf(r) = Cardinality(HeldBy(r)) /\ BlocksOf(r) \in Nat
<1>1. Filled(r) \subseteq 1 .. r.size /\ 0 \notin Filled(r)
  BY DEF Filled
<1>2. IsFiniteSet(1 .. r.size)
  BY FS_Interval
<1>3. IsFiniteSet(Filled(r)) /\ StringsIn(r) \in Nat
  BY <1>1, <1>2, FS_Subset, FS_CardinalityType DEF StringsIn
<1>4. CASE r.null
  BY <1>1, <1>3, <1>4, FS_EmptySet DEF HeldBy, BlocksOf
<1>5. CASE ~r.null
  <2>1. HeldBy(r) = Filled(r) \union {0}
    BY <1>5 DEF HeldBy
  <2>2. IsFiniteSet(HeldBy(r)) /\ Cardinality(HeldBy(r)) = StringsIn(r) + 1
    BY <1>1, <1>3, <2>1, FS_AddElement DEF StringsIn
  <2>3. HeldBy(r) \subseteq Nat
    BY <1>1, <2>1
  <2>4. QED
    BY <1>1, <1>3, <1>5, <2>2, <2>3 DEF BlocksOf
<1>6. QED
  BY <1>4, <1>5

\* One array changes: the blocks of the others stay as they are.
LEMMA HeldReplaced ==
  ASSUME NEW f, f = [a \in Array |-> f[a]], \A a \in Array : SoundArray(f[a]), IsFiniteSet(HeldIn(f)),
         NEW a \in Array, NEW r, SoundArray(r), NEW h, h = [f EXCEPT ![a] = r]
  PROVE  /\ IsFiniteSet(HeldIn(h))
         /\ Cardinality(HeldIn(h)) = (Cardinality(HeldIn(f)) - BlocksOf(f[a])) + BlocksOf(r)
<1> DEFINE Rest == {p \in HeldIn(f) : p[1] # a}
<1>1. /\ HeldBy(f[a]) \subseteq Nat /\ IsFiniteSet(HeldBy(f[a])) /\ BlocksOf(f[a]) = Cardinality(HeldBy(f[a]))
      /\ HeldBy(r) \subseteq Nat /\ IsFiniteSet(HeldBy(r)) /\ BlocksOf(r) = Cardinality(HeldBy(r))
      /\ BlocksOf(r) \in Nat /\ BlocksOf(f[a]) \in Nat
  BY FilledFacts DEF SoundArray
<1>2. h[a] = r /\ \A b \in Array \ {a} : h[b] = f[b]
  OBVIOUS
<1>3. HeldIn(f) = Rest \union Row(a, HeldBy(f[a]))
  BY <1>1 DEF HeldIn, Row
<1>4. HeldIn(h) = Rest \union Row(a, HeldBy(r))
  BY <1>1, <1>2 DEF HeldIn, Row
<1>5. ASSUME NEW S, IsFiniteSet(S)
      PROVE  /\ IsFiniteSet(Row(a, S)) /\ Cardinality(Row(a, S)) = Cardinality(S)
             /\ Rest \intersect Row(a, S) = {}
  <2>1. IsFiniteSet({a}) /\ Cardinality({a}) = 1
    BY FS_Singleton
  <2>2. IsFiniteSet(Row(a, S)) /\ Cardinality(Row(a, S)) = 1 * Cardinality(S) /\ Cardinality(S) \in Nat
    BY <1>5, <2>1, FS_Product, FS_CardinalityType DEF Row
  <2>3. Rest \intersect Row(a, S) = {}
    BY DEF Row
  <2>4. QED
    BY <2>2, <2>3
<1>6. Rest \subseteq HeldIn(f)
  OBVIOUS
<1> HIDE DEF Rest
<1>7. IsFiniteSet(Rest) /\ Cardinality(Rest) \in Nat
  BY <1>6, FS_Subset, FS_CardinalityType
<1>8. ASSUME NEW S, IsFiniteSet(S)
      PROVE  /\ IsFiniteSet(Rest \union Row(a, S))
             /\ Cardinality(Rest \union Row(a, S)) = Cardinality(Rest) + Cardinality(S)
  <2>1. /\ IsFiniteSet(Rest \union Row(a, S))
        /\ Cardinality(Rest \union Row(a, S)) = Cardinality(Rest) + Cardinality(Row(a, S)) - Cardinality(Rest \intersect Row(a, S))
    BY <1>5, <1>7, <1>8, FS_Union
  <2>2. Cardinality(Rest \intersect Row(a, S)) = 0 /\ Cardinality(S) \in Nat
    BY <1>5, <1>8, FS_EmptySet, FS_CardinalityType
  <2>3. QED
    BY <1>5, <1>7, <1>8, <2>1, <2>2
<1>9. QED
  BY <1>1, <1>3, <1>4, <1>7, <1>8

\* A call that replaces one array and counts its blocks keeps the invariant.
LEMMA StrStep ==
  ASSUME StrInv, NEW a \in Array, NEW r, SoundArray(r), strs' = [strs EXCEPT ![a] = r],
         strBlocks' = (strBlocks - BlocksOf(strs[a])) + BlocksOf(r)
  PROVE  StrInv'
<1>1. /\ IsFiniteSet(HeldIn(strs'))
      /\ Cardinality(HeldIn(strs')) = (Cardinality(HeldIn(strs)) - BlocksOf(strs[a])) + BlocksOf(r)
  BY HeldReplaced DEF StrInv
<1>2. strs' = [b \in Array |-> strs'[b]] /\ \A b \in Array : SoundArray(strs'[b])
  BY DEF StrInv
<1>3. QED
  BY <1>1, <1>2 DEF StrInv

LEMMA NoEntries == <<>> \in [1 .. 0 -> Entries]
OBVIOUS

LEMMA NullSound ==
  ASSUME NEW r, DOMAIN r = {"null", "data", "size", "valid"}, r.null = TRUE, r.size \in Nat,
         r.valid \in BOOLEAN, r.data \in [1 .. 0 -> Entries]
  PROVE  SoundArray(r) /\ BlocksOf(r) = 0
BY DEF SoundArray, BlocksOf

LEMMA DataSound ==
  ASSUME NEW r, DOMAIN r = {"null", "data", "size", "valid"}, r.null = FALSE, r.size \in Nat,
         r.valid \in BOOLEAN, r.data \in [1 .. r.size -> Entries]
  PROVE  SoundArray(r) /\ BlocksOf(r) = 1 + StringsIn(r)
BY DEF SoundArray, BlocksOf

\* What SoundArray says of an array with data, and of one without.
LEMMA SoundFacts ==
  ASSUME NEW r, SoundArray(r)
  PROVE  /\ r.size \in Nat /\ r.valid \in BOOLEAN /\ r.null \in BOOLEAN
         /\ BlocksOf(r) \in Nat /\ StringsIn(r) \in Nat /\ IsFiniteSet(Filled(r))
         /\ DOMAIN r = {"null", "data", "size", "valid"}
         /\ r.null => r.data \in [1 .. 0 -> Entries] /\ BlocksOf(r) = 0
         /\ ~r.null => r.data \in [1 .. r.size -> Entries] /\ BlocksOf(r) = 1 + StringsIn(r)
<1>1. r.size \in Nat /\ r.valid \in BOOLEAN /\ r.null \in BOOLEAN /\ DOMAIN r = {"null", "data", "size", "valid"}
  BY DEF SoundArray
<1>2. BlocksOf(r) \in Nat /\ StringsIn(r) \in Nat /\ IsFiniteSet(Filled(r))
  BY <1>1, FilledFacts
<1>3. CASE r.null = TRUE
  BY <1>1, <1>2, <1>3 DEF SoundArray, BlocksOf
<1>4. CASE r.null = FALSE
  BY <1>1, <1>2, <1>4 DEF SoundArray, BlocksOf
<1>5. QED
  BY <1>1, <1>3, <1>4

LEMMA InitStringsInv ==
  ASSUME StrInv, NEW a \in Array, NEW n \in Sizes, InitStrings(a, n)
  PROVE  StrInv'
<1>1. SoundArray(strs[a]) /\ strs[a].null /\ n \in Nat /\ strBlocks \in Nat
  BY StringsAssumption, FS_CardinalityType DEF StrInv, InitStrings
<1>2. /\ BlocksOf(strs[a]) = 0 /\ strs[a].data \in [1 .. 0 -> Entries] /\ strs[a].valid \in BOOLEAN
      /\ DOMAIN strs[a] = {"null", "data", "size", "valid"} /\ strs[a].null \in BOOLEAN
  BY <1>1, SoundFacts
<1>3. ASSUME NEW r, SoundArray(r), strs' = [strs EXCEPT ![a] = r], BlocksOf(r) \in Nat,
             strBlocks' = strBlocks + BlocksOf(r)
      PROVE  StrInv'
  <2>1. strBlocks' = (strBlocks - BlocksOf(strs[a])) + BlocksOf(r)
    BY <1>1, <1>2, <1>3
  <2>2. QED
    BY <1>3, <2>1, StrStep
<1>4. ASSUME NEW r, r = [null |-> FALSE, data |-> Nulls(n), size |-> n, valid |-> TRUE],
             strs' = [strs EXCEPT ![a] = r], strBlocks' = strBlocks + 1
      PROVE  StrInv'
  <2>1. Nulls(n) \in [1 .. n -> Entries] /\ \A i \in 1 .. n : Nulls(n)[i] = NOSTRING
    BY <1>1 DEF Nulls, Entries
  <2>2. /\ DOMAIN r = {"null", "data", "size", "valid"}
        /\ r.null = FALSE /\ r.data = Nulls(n) /\ r.size = n /\ r.valid = TRUE
    BY <1>4
  <2>3. SoundArray(r) /\ BlocksOf(r) = 1 + StringsIn(r)
    BY <1>1, <2>1, <2>2, DataSound
  <2>4. Filled(r) = {}
    BY <2>1, <2>2 DEF Filled
  <2>5. BlocksOf(r) = 1
    BY <2>3, <2>4, FS_EmptySet DEF StringsIn
  <2>6. strBlocks' = strBlocks + BlocksOf(r) /\ BlocksOf(r) \in Nat
    BY <1>4, <2>5
  <2>7. QED
    BY <1>3, <1>4, <2>3, <2>6
<1>5. ASSUME NEW r, DOMAIN r = {"null", "data", "size", "valid"}, r.null = TRUE, r.size \in Nat,
             r.valid \in BOOLEAN, r.data \in [1 .. 0 -> Entries],
             strs' = [strs EXCEPT ![a] = r], strBlocks' = strBlocks
      PROVE  StrInv'
  <2>1. SoundArray(r) /\ BlocksOf(r) = 0
    BY <1>5, NullSound
  <2>2. strBlocks' = strBlocks + BlocksOf(r) /\ BlocksOf(r) \in Nat
    BY <1>1, <1>5, <2>1
  <2>3. QED
    BY <1>3, <1>5, <2>1, <2>2
<1>6. ASSUME NEW r, r = [ZeroStrings EXCEPT !.valid = TRUE], strs' = [strs EXCEPT ![a] = r], strBlocks' = strBlocks
      PROVE  StrInv'
  <2>1. /\ DOMAIN r = {"null", "data", "size", "valid"}
        /\ r.null = TRUE /\ r.data = <<>> /\ r.size = 0 /\ r.valid = TRUE
    BY <1>6 DEF ZeroStrings
  <2>2. QED
    <3>1. r.size \in Nat /\ r.data \in [1 .. 0 -> Entries]
      BY <2>1, NoEntries
    <3>2. r.valid \in BOOLEAN
      BY <2>1, Zenon
    <3>3. QED
      BY <1>5, <1>6, <2>1, <3>1, <3>2
<1>7. ASSUME NEW r, r = [strs[a] EXCEPT !.size = n], strs' = [strs EXCEPT ![a] = r], strBlocks' = strBlocks
      PROVE  StrInv'
  <2>1. /\ DOMAIN r = {"null", "data", "size", "valid"}
        /\ r.null = strs[a].null /\ r.data = strs[a].data /\ r.size = n /\ r.valid = strs[a].valid
    BY <1>2, <1>7
  <2>2. r.null = TRUE
    BY <1>1, <1>2, <2>1
  <2>3. QED
    BY <1>1, <1>2, <1>5, <1>7, <2>1, <2>2
<1>8. QED
  BY <1>4, <1>6, <1>7 DEF InitStrings, With

LEMMA FiniStringsInv ==
  ASSUME StrInv, NEW a \in Array, FiniStrings(a)
  PROVE  StrInv'
<1> DEFINE r == [strs[a] EXCEPT !.null = TRUE, !.data = <<>>, !.size = 0]
<1>1. /\ strBlocks \in Nat /\ BlocksOf(strs[a]) \in Nat /\ strs[a].valid \in BOOLEAN
      /\ DOMAIN strs[a] = {"null", "data", "size", "valid"}
  BY FS_CardinalityType, SoundFacts DEF StrInv
<1>2. /\ DOMAIN r = {"null", "data", "size", "valid"}
      /\ r.null = TRUE /\ r.data = <<>> /\ r.size = 0 /\ r.valid = strs[a].valid
  BY <1>1
<1>3. strs' = [strs EXCEPT ![a] = r] /\ strBlocks' = strBlocks - BlocksOf(strs[a])
  BY DEF FiniStrings, With
<1> HIDE DEF r
<1>4. SoundArray(r) /\ BlocksOf(r) = 0
  <2>1. r.size \in Nat /\ r.valid \in BOOLEAN /\ r.data \in [1 .. 0 -> Entries]
    BY <1>1, <1>2, NoEntries
  <2>2. QED
    BY <1>2, <2>1, NullSound
<1>5. strBlocks' = (strBlocks - BlocksOf(strs[a])) + BlocksOf(r)
  BY <1>1, <1>3, <1>4
<1>6. QED
  BY <1>3, <1>4, <1>5, StrStep

LEMMA StoreStringInv ==
  ASSUME StrInv, NEW a \in Array, NEW i \in 1 .. strs[a].size, NEW s \in String, StoreString(a, i, s)
  PROVE  StrInv'
<1> DEFINE r == [strs[a] EXCEPT !.data = [strs[a].data EXCEPT ![i] = s]]
<1>1. /\ SoundArray(strs[a]) /\ strBlocks \in Nat /\ IsFiniteSet(Filled(strs[a])) /\ StringsIn(strs[a]) \in Nat
      /\ ~strs[a].null /\ strs[a].data[i] = NOSTRING /\ s # NOSTRING
      /\ strBlocks' = strBlocks + 1
  BY StringsAssumption, FS_CardinalityType, FilledFacts DEF StrInv, SoundArray, StoreString
<1>2. strs[a].data \in [1 .. strs[a].size -> Entries] /\ strs[a].size \in Nat
  BY <1>1 DEF SoundArray
<1>3. [strs[a].data EXCEPT ![i] = s] \in [1 .. strs[a].size -> Entries]
  BY <1>2 DEF Entries
<1>4. /\ r.null = strs[a].null /\ r.size = strs[a].size /\ r.valid = strs[a].valid
      /\ r.data = [strs[a].data EXCEPT ![i] = s]
      /\ DOMAIN r = {"null", "data", "size", "valid"}
  BY <1>1 DEF SoundArray
<1>5. strs' = [strs EXCEPT ![a] = r]
  BY DEF StoreString
<1> HIDE DEF r
<1>6. SoundArray(r)
  BY <1>1, <1>3, <1>4 DEF SoundArray
<1>7. Filled(r) = Filled(strs[a]) \union {i} /\ i \notin Filled(strs[a])
  BY <1>1, <1>2, <1>4 DEF Filled
<1>8. StringsIn(r) = StringsIn(strs[a]) + 1
  BY <1>1, <1>7, FS_AddElement DEF StringsIn
<1>9. BlocksOf(r) = BlocksOf(strs[a]) + 1 /\ BlocksOf(strs[a]) \in Nat
  BY <1>1, <1>4, <1>8 DEF BlocksOf
<1>10. strBlocks' = (strBlocks - BlocksOf(strs[a])) + BlocksOf(r)
  BY <1>1, <1>9
<1>11. QED
  BY <1>5, <1>6, <1>10, StrStep

\* Sorting moves strings around: as many entries have one afterwards.
LEMMA SortInv ==
  ASSUME StrInv, NEW a \in Array, Sort(a)
  PROVE  StrInv'
<1>1. /\ SoundArray(strs[a]) /\ ~strs[a].null /\ strBlocks \in Nat /\ BlocksOf(strs[a]) \in Nat
      /\ strBlocks' = strBlocks
  BY FS_CardinalityType, FilledFacts DEF StrInv, SoundArray, Sort
<1>2. strs[a].data \in [1 .. strs[a].size -> Entries] /\ strs[a].size \in Nat
  BY <1>1 DEF SoundArray
<1>3. PICK d \in [1 .. strs[a].size -> Entries] :
        /\ Count(d, NOSTRING) = Count(strs[a].data, NOSTRING)
        /\ strs' = [strs EXCEPT ![a].data = d]
  BY DEF Sort, Entries
<1> DEFINE r == [strs[a] EXCEPT !.data = d]
<1>4. /\ r.null = strs[a].null /\ r.size = strs[a].size /\ r.valid = strs[a].valid /\ r.data = d
      /\ DOMAIN r = {"null", "data", "size", "valid"}
  BY <1>1 DEF SoundArray
<1>5. strs' = [strs EXCEPT ![a] = r]
  BY <1>3
<1> HIDE DEF r
<1>6. SoundArray(r)
  BY <1>1, <1>3, <1>4 DEF SoundArray
<1>7. ASSUME NEW x, x.size = strs[a].size, DOMAIN x.data = 1 .. strs[a].size
      PROVE  StringsIn(x) = strs[a].size - Count(x.data, NOSTRING)
  <2> DEFINE I == 1 .. strs[a].size
             N == {i \in DOMAIN x.data : x.data[i] = NOSTRING}
  <2>1. Filled(x) = I \ N /\ I \intersect N = N
    BY <1>7 DEF Filled
  <2>2. IsFiniteSet(I) /\ Cardinality(I) = strs[a].size
    <3>1. IsFiniteSet(1 .. strs[a].size)
      BY <1>2, FS_Interval
    <3>2. Cardinality(1 .. strs[a].size) = IF 1 > strs[a].size THEN 0 ELSE strs[a].size - 1 + 1
      BY <1>2, FS_Interval
    <3>3. QED
      BY <1>2, <3>1, <3>2
  <2> HIDE DEF I, N
  <2>3. Cardinality(I \ N) = Cardinality(I) - Cardinality(I \intersect N)
    BY <2>2, FS_Difference
  <2>4. Cardinality(Filled(x)) = strs[a].size - Cardinality(N)
    BY <2>1, <2>2, <2>3
  <2>5. QED
    BY <2>4 DEF StringsIn, Count, N
<1>8. StringsIn(r) = StringsIn(strs[a])
  BY <1>2, <1>3, <1>4, <1>7
<1>9. BlocksOf(r) = BlocksOf(strs[a])
  BY <1>4, <1>8 DEF BlocksOf
<1>10. strBlocks' = (strBlocks - BlocksOf(strs[a])) + BlocksOf(r)
  BY <1>1, <1>9
<1>11. QED
  BY <1>5, <1>6, <1>10, StrStep

\* Resizing: the entries that stay, and the strings that are cut off.
LEMMA ResizedData ==
  ASSUME NEW q, SoundArray(q), q.null => q.size = 0, NEW n \in Nat,
         NEW r, DOMAIN r = {"null", "data", "size", "valid"}, r.null \in BOOLEAN, r.valid \in BOOLEAN,
         r.data = CutOrExtended(q, n), r.size = n, r.null => n = 0
  PROVE  /\ SoundArray(r) /\ StringsIn(r) \in Nat
         /\ StringsIn(r) = StringsIn(q) - Reclaimed(q, n, TRUE)
<1>1. q.size \in Nat /\ q.data \in [1 .. q.size -> Entries]
  BY SoundFacts
<1>2. CutOrExtended(q, n) \in [1 .. n -> Entries]
  BY <1>1 DEF CutOrExtended, Entries
<1>3. SoundArray(r)
  BY <1>2 DEF SoundArray
<1>4. StringsIn(r) \in Nat /\ StringsIn(q) \in Nat
  BY <1>3, SoundFacts
<1>5. \A i \in 1 .. n : r.data[i] = IF i <= q.size THEN q.data[i] ELSE NOSTRING
  BY DEF CutOrExtended
<1> DEFINE gone == Reclaimed(q, n, TRUE)
<1>6. ASSUME n < q.size PROVE StringsIn(r) = StringsIn(q) - gone
  <2> DEFINE c == [q EXCEPT !.size = n]
  <2>1. c.size = n /\ c.data = q.data
    BY <1>6, SoundFacts
  <2> HIDE DEF c
  <2>2. Filled(c) = Filled(r)
    BY <1>1, <1>5, <1>6, <2>1 DEF Filled
  <2>3. gone = StringsIn(q) - StringsIn(c)
    BY <1>6 DEF Reclaimed, c
  <2> HIDE DEF gone
  <2>4. StringsIn(c) = StringsIn(r)
    BY <2>2 DEF StringsIn
  <2>5. QED
    BY <1>4, <2>3, <2>4
<1>7. ASSUME ~(n < q.size) PROVE StringsIn(r) = StringsIn(q) - gone
  <2>1. Filled(r) = Filled(q)
    BY <1>1, <1>5, <1>7 DEF Filled
  <2>2. gone = 0
    BY <1>7 DEF Reclaimed
  <2> HIDE DEF gone
  <2>3. StringsIn(r) = StringsIn(q)
    BY <2>1 DEF StringsIn
  <2>4. QED
    BY <1>4, <2>2, <2>3
<1>8. StringsIn(r) = StringsIn(q) - gone
  BY <1>6, <1>7
<1>9. QED
  BY <1>3, <1>4, <1>8, Zenon

LEMMA ResizeStringsInv ==
  ASSUME StrInv, NEW a \in Array, NEW n \in Sizes, ResizeStrings(a, n)
  PROVE  StrInv'
<1>1. /\ SoundArray(strs[a]) /\ n \in Nat /\ strBlocks \in Nat
      /\ strs[a].null => strs[a].size = 0
  BY StringsAssumption, FS_CardinalityType DEF StrInv, ResizeStrings
<1>2. /\ DOMAIN strs[a] = {"null", "data", "size", "valid"} /\ strs[a].valid \in BOOLEAN
      /\ strs[a].size \in Nat /\ strs[a].null \in BOOLEAN
      /\ StringsIn(strs[a]) \in Nat /\ BlocksOf(strs[a]) \in Nat
  BY <1>1, SoundFacts
<1>3. ASSUME NEW z \in BOOLEAN, z => n = 0,
             strs' = [strs EXCEPT ![a] = [strs[a] EXCEPT !.null = z, !.data = CutOrExtended(strs[a], n), !.size = n]],
             strBlocks' = strBlocks + (IF z THEN 0 ELSE 1) - (IF strs[a].null THEN 0 ELSE 1) - Reclaimed(strs[a], n, TRUE)
      PROVE  StrInv'
  <2> DEFINE r == [strs[a] EXCEPT !.null = z, !.data = CutOrExtended(strs[a], n), !.size = n]
             gone == Reclaimed(strs[a], n, TRUE)
             old == IF strs[a].null THEN 0 ELSE 1
             new == IF z THEN 0 ELSE 1
  <2>1. /\ DOMAIN r = {"null", "data", "size", "valid"}
        /\ r.data = CutOrExtended(strs[a], n) /\ r.size = n /\ r.valid = strs[a].valid
    BY <1>2
  <2>2. r.null = z
    BY <1>2
  <2>3. strs' = [strs EXCEPT ![a] = r] /\ strBlocks' = strBlocks + new - old - gone
    BY <1>3
  <2> HIDE DEF r
  <2>4. /\ SoundArray(r) /\ StringsIn(r) \in Nat
        /\ StringsIn(r) = StringsIn(strs[a]) - Reclaimed(strs[a], n, TRUE)
    BY <1>1, <1>2, <1>3, <2>1, <2>2, ResizedData
  <2>5. gone \in Int /\ StringsIn(r) = StringsIn(strs[a]) - gone
    <3>1. Reclaimed(strs[a], n, TRUE) \in Int
      <4>1. CASE n < strs[a].size
        <5>1. [strs[a] EXCEPT !.size = n].size = n
          BY <1>2
        <5>2. StringsIn([strs[a] EXCEPT !.size = n]) \in Nat
          BY <1>1, <5>1, FilledFacts
        <5>3. QED
          BY <1>2, <5>2 DEF Reclaimed
      <4>2. QED
        BY <4>1 DEF Reclaimed
    <3>2. QED
      BY <2>4, <3>1
  <2>6. BlocksOf(strs[a]) = old + StringsIn(strs[a])
    <3>1. CASE strs[a].null
      <4>1. Filled(strs[a]) = {}
        BY <1>1, <3>1 DEF Filled
      <4>2. QED
        BY <3>1, <4>1, FS_EmptySet DEF BlocksOf, StringsIn
    <3>2. CASE ~strs[a].null
      BY <1>2, <3>2 DEF BlocksOf
    <3>3. QED
      BY <3>1, <3>2
  <2>7. BlocksOf(r) = new + StringsIn(r)
    <3>1. CASE z
      <4>1. Filled(r) = {}
        BY <1>3, <2>1, <3>1 DEF Filled
      <4>2. QED
        BY <2>2, <3>1, <4>1, FS_EmptySet DEF BlocksOf, StringsIn
    <3>2. CASE ~z
      BY <2>2, <2>4, <3>2 DEF BlocksOf
    <3>3. QED
      BY <3>1, <3>2
  <2>8. old \in Int /\ new \in Int
    OBVIOUS
  <2> HIDE DEF old, new, gone
  <2>9. strBlocks' = (strBlocks - BlocksOf(strs[a])) + BlocksOf(r)
    BY <1>1, <1>2, <2>3, <2>4, <2>5, <2>6, <2>7, <2>8
  <2>10. QED
    BY <2>3, <2>4, <2>9, StrStep
<1>4. CASE strBlocks' = strBlocks - Reclaimed(strs[a], n, FALSE) /\ UNCHANGED strs
  <2> DEFINE gone == Reclaimed(strs[a], n, FALSE)
  <2>1. gone = 0
    BY DEF Reclaimed
  <2>2. strs' = strs /\ strBlocks' = strBlocks - gone
    BY <1>4, Zenon
  <2> HIDE DEF gone
  <2>3. strs' = strs /\ strBlocks' = strBlocks
    BY <1>1, <2>1, <2>2
  <2>4. QED
    BY <2>3 DEF StrInv
<1>5. QED
  BY <1>3, <1>4 DEF ResizeStrings, With

LEMMA StrInitInv == StrInit => StrInv
<1> SUFFICES ASSUME StrInit PROVE StrInv
  OBVIOUS
<1>1. SoundArray(ZeroStrings)
  <2>1. /\ DOMAIN ZeroStrings = {"null", "data", "size", "valid"} /\ ZeroStrings.null = TRUE
        /\ ZeroStrings.data = <<>> /\ ZeroStrings.size = 0 /\ ZeroStrings.valid = FALSE
    BY DEF ZeroStrings
  <2>2. ZeroStrings.valid \in BOOLEAN
    BY <2>1, Zenon
  <2>3. ZeroStrings.size \in Nat /\ ZeroStrings.data \in [1 .. 0 -> Entries]
    BY <2>1, NoEntries
  <2>4. QED
    BY <2>1, <2>2, <2>3, NullSound
<1>2. HeldBy(ZeroStrings) = {}
  BY DEF HeldBy, ZeroStrings
<1>3. strs = [b \in Array |-> ZeroStrings] /\ strBlocks = 0
  BY DEF StrInit
<1>4. HeldIn(strs) = {}
  BY <1>2, <1>3 DEF HeldIn
<1>5. IsFiniteSet(HeldIn(strs)) /\ Cardinality(HeldIn(strs)) = 0
  BY <1>4, FS_EmptySet
<1>6. QED
  BY <1>1, <1>3, <1>5 DEF StrInv

LEMMA StrInvariance == StrSpec => []StrInv
<1>1. StrInit => StrInv
  BY StrInitInv
<1>2. StrInv /\ [StrNext]_strVars => StrInv'
  <2> SUFFICES ASSUME StrInv, [StrNext]_strVars PROVE StrInv'
    OBVIOUS
  <2>1. CASE UNCHANGED strVars
    <3>1. strs' = strs /\ strBlocks' = strBlocks
      BY <2>1 DEF strVars
    <3>2. QED
      BY <3>1 DEF StrInv
  <2>2. CASE StrNext
    BY <2>1, <2>2, FiniStringsInv, SortInv, InitStringsInv, ResizeStringsInv, StoreStringInv
       DEF StrNext, ResizeIgnored
  <2>3. QED
    BY <2>1, <2>2
<1>3. QED
  BY <1>1, <1>2, PTL DEF StrSpec

LEMMA StrAccounted == StrInv => StringBlocksAreAccounted
<1> SUFFICES ASSUME StrInv PROVE StringBlocksAreAccounted
  OBVIOUS
<1>1. \A a \in Array : HeldBy(strs[a]) \subseteq Nat
  BY FilledFacts, SoundFacts DEF StrInv
<1>2. HeldIn(strs) = UNION {{<<a, b>> : b \in HeldBy(strs[a])} : a \in Array}
  BY <1>1 DEF HeldIn
<1>3. QED
  BY <1>2 DEF StrInv, StringBlocksAreAccounted

-----------------------------------------------------------------------------
(* Comparing string arrays.                                                  *)
Stops(l, r) == {i \in 1 .. Compared(l, r) : l.data[i] = NOSTRING \/ r.data[i] = NOSTRING \/ l.data[i] # r.data[i]}

\* The first stop is a stop, where there is one.
LEMMA FirstStopIsAStop ==
  ASSUME NEW l, NEW r, Stops(l, r) # {}
  PROVE  FirstStop(l, r) \in Stops(l, r)
<1> DEFINE S == Stops(l, r)
           R == OpToRel(<, Nat)
<1>1. S \subseteq Nat
  BY DEF Stops
<1>2. IsWellFoundedOn(R, Nat)
  BY NatLessThanWellFounded
<1>3. \A i, j \in Nat : j < i => <<j, i>> \in R
  BY DEF OpToRel
<1>4. FirstStop(l, r) = IF S = {} THEN 0 ELSE CHOOSE i \in S : \A j \in S : i <= j
  BY DEF FirstStop, Stops
<1> HIDE DEF R, S
<1>5. S # {}
  BY DEF S
<1>6. PICK i \in S : \A j \in S : ~(<<j, i>> \in R)
  BY <1>1, <1>2, <1>5, WFMin
<1>7. \A j \in S : i <= j
  <2>1. \A j \in S : ~(j < i)
    BY <1>1, <1>3, <1>6
  <2>2. \A j \in S : j \in Nat /\ i \in Nat
    BY <1>1
  <2>3. QED
    BY <2>1, <2>2
<1>8. \E k \in S : \A j \in S : k <= j
  BY <1>7
<1>9. FirstStop(l, r) \in S
  BY <1>4, <1>5, <1>8
<1>10. QED
  BY <1>9 DEF S

\* Which array is called the left one does not matter.
LEMMA StopsMirrored ==
  ASSUME NEW l, NEW r, l.size \in Nat, r.size \in Nat
  PROVE  /\ Compared(l, r) = Compared(r, l) /\ Compared(l, r) \in Nat
         /\ Stops(l, r) = Stops(r, l) /\ FirstStop(l, r) = FirstStop(r, l)
<1>1. Compared(l, r) = Compared(r, l) /\ Compared(l, r) \in Nat
  BY DEF Compared, Least
<1>2. Stops(l, r) = Stops(r, l)
  BY <1>1 DEF Stops
<1> DEFINE First(S) == IF S = {} THEN 0 ELSE CHOOSE i \in S : \A j \in S : i <= j
<1>3. FirstStop(l, r) = First(Stops(l, r)) /\ FirstStop(r, l) = First(Stops(r, l))
  BY DEF FirstStop, Stops
<1> HIDE DEF First
<1>4. QED
  BY <1>1, <1>2, <1>3

\* A first stop in arrays with data: an index of both, of entries that differ.
LEMMA StopFacts ==
  ASSUME NEW l, NEW r, SoundArray(l), SoundArray(r), ~l.null, ~r.null, FirstStop(l, r) # 0
  PROVE  /\ FirstStop(l, r) \in 1 .. l.size /\ FirstStop(l, r) \in 1 .. r.size
         /\ l.data[FirstStop(l, r)] \in Entries /\ r.data[FirstStop(l, r)] \in Entries
         /\ \/ l.data[FirstStop(l, r)] = NOSTRING \/ r.data[FirstStop(l, r)] = NOSTRING
            \/ l.data[FirstStop(l, r)] # r.data[FirstStop(l, r)]
<1>1. /\ l.size \in Nat /\ r.size \in Nat
      /\ l.data \in [1 .. l.size -> Entries] /\ r.data \in [1 .. r.size -> Entries]
  BY SoundFacts
<1>2. Stops(l, r) # {}
  BY DEF FirstStop, Stops
<1>3. FirstStop(l, r) \in Stops(l, r)
  BY <1>2, FirstStopIsAStop
<1>4. Compared(l, r) <= l.size /\ Compared(l, r) <= r.size /\ Compared(l, r) \in Nat
  BY <1>1 DEF Compared, Least
<1> DEFINE i == FirstStop(l, r)
<1> HIDE DEF i
<1>5. /\ i \in 1 .. Compared(l, r)
      /\ l.data[i] = NOSTRING \/ r.data[i] = NOSTRING \/ l.data[i] # r.data[i]
  BY <1>3 DEF Stops, i
<1>6. i \in 1 .. l.size /\ i \in 1 .. r.size
  BY <1>1, <1>4, <1>5
<1>7. l.data[i] \in Entries /\ r.data[i] \in Entries
  BY <1>1, <1>6
<1>8. QED
  BY <1>5, <1>6, <1>7 DEF i

LEMMA CmpMirrored ==
  ASSUME NEW l, NEW r, SoundArray(l), SoundArray(r)
  PROVE  Cmp(r, l) = Mirrored[Cmp(l, r)]
<1>1. /\ l.size \in Nat /\ r.size \in Nat /\ l.null \in BOOLEAN /\ r.null \in BOOLEAN
  BY SoundFacts
<1>2. /\ Compared(l, r) = Compared(r, l) /\ Compared(l, r) \in Nat
      /\ FirstStop(l, r) = FirstStop(r, l)
  BY <1>1, StopsMirrored
<1> DEFINE i == FirstStop(l, r)
<1>3. CASE Compared(l, r) > 0 /\ (l.null \/ r.null)
  <2>1. Cmp(l, r) = "INVALID_ARGUMENT" /\ Cmp(r, l) = "INVALID_ARGUMENT"
    BY <1>2, <1>3 DEF Cmp
  <2>2. QED
    BY <2>1 DEF Mirrored
<1>4. CASE ~(Compared(l, r) > 0 /\ (l.null \/ r.null)) /\ i = 0
  <2>1. /\ Cmp(l, r) = IF l.size < r.size THEN "less" ELSE IF l.size > r.size THEN "greater" ELSE "equal"
        /\ Cmp(r, l) = IF r.size < l.size THEN "less" ELSE IF r.size > l.size THEN "greater" ELSE "equal"
    BY <1>2, <1>4 DEF Cmp
  <2>2. QED
    BY <1>1, <2>1 DEF Mirrored
<1>5. CASE ~(Compared(l, r) > 0 /\ (l.null \/ r.null)) /\ i # 0
  <2>1. Stops(l, r) # {}
    BY <1>5 DEF FirstStop, Stops
  <2>2. i \in Stops(l, r)
    BY <2>1, FirstStopIsAStop
  <2>3. Compared(l, r) > 0
    BY <1>2, <2>2 DEF Stops
  <2>4. ~l.null /\ ~r.null
    BY <1>5, <2>3
  <2>5. /\ l.data[i] \in Entries /\ r.data[i] \in Entries
        /\ l.data[i] = NOSTRING \/ r.data[i] = NOSTRING \/ l.data[i] # r.data[i]
    BY <1>5, <2>4, StopFacts
  <2>6. /\ Cmp(l, r) = IF l.data[i] = NOSTRING \/ r.data[i] = NOSTRING THEN "ERROR"
                       ELSE IF l.data[i] < r.data[i] THEN "less" ELSE "greater"
        /\ Cmp(r, l) = IF r.data[i] = NOSTRING \/ l.data[i] = NOSTRING THEN "ERROR"
                       ELSE IF r.data[i] < l.data[i] THEN "less" ELSE "greater"
    BY <1>2, <1>5 DEF Cmp
  <2> HIDE DEF i
  <2>7. CASE l.data[i] = NOSTRING \/ r.data[i] = NOSTRING
    BY <2>6, <2>7 DEF Mirrored
  <2>8. CASE ~(l.data[i] = NOSTRING \/ r.data[i] = NOSTRING)
    <3>1. l.data[i] \in Nat /\ r.data[i] \in Nat /\ l.data[i] # r.data[i]
      BY <2>5, <2>8, StringsAssumption DEF Entries
    <3>2. CASE l.data[i] < r.data[i]
      BY <2>6, <2>8, <3>1, <3>2 DEF Mirrored
    <3>3. CASE r.data[i] < l.data[i]
      BY <2>6, <2>8, <3>1, <3>3 DEF Mirrored
    <3>4. QED
      BY <3>1, <3>2, <3>3
  <2>9. QED
    BY <2>7, <2>8
<1>6. QED
  BY <1>3, <1>4, <1>5

\* No missing string, and as many entries as the size says.
LEMMA CountFacts ==
  ASSUME NEW n \in Nat, NEW d \in [1 .. n -> Entries]
  PROVE  /\ (Count(d, NOSTRING) = 0) <=> \A i \in 1 .. n : d[i] # NOSTRING
         /\ Len(d) = n
<1> DEFINE N == {i \in DOMAIN d : d[i] = NOSTRING}
<1>1. N \subseteq 1 .. n /\ IsFiniteSet(1 .. n)
  BY FS_Interval
<1>2. Count(d, NOSTRING) = Cardinality(N)
  BY DEF Count
<1>3. (\A i \in 1 .. n : d[i] # NOSTRING) <=> N = {}
  OBVIOUS
<1> HIDE DEF N
<1>4. IsFiniteSet(N)
  BY <1>1, FS_Subset
<1>5. Cardinality(N) = 0 <=> N = {}
  BY <1>4, FS_EmptySet
<1>6. Len(d) = n
  OBVIOUS
<1>7. QED
  BY <1>2, <1>3, <1>5, <1>6

LEMMA CmpEqual ==
  ASSUME NEW l, NEW r, SoundArray(l), SoundArray(r)
  PROVE  Cmp(l, r) = "equal" <=> /\ l.size = r.size /\ l.data = r.data
                                 /\ Count(l.data, NOSTRING) = 0 /\ Len(l.data) = l.size
<1>1. /\ l.size \in Nat /\ r.size \in Nat /\ l.null \in BOOLEAN /\ r.null \in BOOLEAN
      /\ l.null => l.data \in [1 .. 0 -> Entries]
      /\ r.null => r.data \in [1 .. 0 -> Entries]
      /\ ~l.null => l.data \in [1 .. l.size -> Entries]
      /\ ~r.null => r.data \in [1 .. r.size -> Entries]
  BY SoundFacts
<1>2. Compared(l, r) \in Nat /\ (l.size = r.size => Compared(l, r) = l.size)
  BY <1>1 DEF Compared, Least
<1>3. Stops(l, r) = {} => FirstStop(l, r) = 0
  BY DEF FirstStop, Stops
<1>4. ASSUME Cmp(l, r) = "equal"
      PROVE  /\ l.size = r.size /\ l.data = r.data
             /\ Count(l.data, NOSTRING) = 0 /\ Len(l.data) = l.size
  <2>1. FirstStop(l, r) = 0 /\ ~(Compared(l, r) > 0 /\ (l.null \/ r.null))
    BY <1>4 DEF Cmp
  <2>2. l.size = r.size
    BY <1>1, <1>4, <2>1 DEF Cmp
  <2>3. Stops(l, r) = {}
    <3>1. 0 \notin Stops(l, r)
      BY DEF Stops
    <3>2. QED
      BY <2>1, <3>1, FirstStopIsAStop
  <2>4. l.data \in [1 .. l.size -> Entries] /\ r.data \in [1 .. l.size -> Entries]
    <3>1. CASE l.size = 0
      BY <1>1, <2>2, <3>1
    <3>2. CASE l.size > 0
      BY <1>1, <1>2, <2>1, <2>2, <3>2
    <3>3. QED
      BY <1>1, <3>1, <3>2
  <2>5. \A i \in 1 .. l.size : l.data[i] # NOSTRING /\ l.data[i] = r.data[i]
    BY <1>2, <2>2, <2>3 DEF Stops
  <2>6. l.data = r.data
    <3>1. l.data = [i \in 1 .. l.size |-> l.data[i]] /\ r.data = [i \in 1 .. l.size |-> r.data[i]]
      BY <2>4
    <3>2. QED
      BY <2>5, <3>1
  <2>7. QED
    BY <1>1, <2>2, <2>4, <2>5, <2>6, CountFacts
<1>5. ASSUME l.size = r.size, l.data = r.data, Count(l.data, NOSTRING) = 0, Len(l.data) = l.size
      PROVE  Cmp(l, r) = "equal"
  <2>1. ASSUME NEW x, x.null, x.size \in Nat, x.data \in [1 .. 0 -> Entries], Len(x.data) = x.size
        PROVE  x.size = 0
    BY <2>1, CountFacts
  <2>2. CASE l.null \/ r.null
    <3>1. l.size = 0
      BY <1>1, <1>5, <2>1, <2>2
    <3>2. Stops(l, r) = {} /\ Compared(l, r) = 0
      BY <1>2, <1>5, <3>1 DEF Stops
    <3>3. QED
      BY <1>1, <1>3, <1>5, <3>2 DEF Cmp
  <2>3. CASE ~l.null /\ ~r.null
    <3>1. \A i \in 1 .. l.size : l.data[i] # NOSTRING
      BY <1>1, <1>5, <2>3, CountFacts
    <3>2. Stops(l, r) = {}
      BY <1>2, <1>5, <3>1 DEF Stops
    <3>3. QED
      BY <1>1, <1>3, <1>5, <2>3, <3>2 DEF Cmp
  <2>4. QED
    BY <2>2, <2>3
<1>6. QED
  BY <1>4, <1>5

(* rcutils_string_array_cmp is an order on the arrays calls can produce,     *)
(* those whose initialization has failed and unfinished ones included.       *)
THEOREM CmpOrders == StrSpec => []CmpIsAnOrder
<1>1. StrInv => CmpIsAnOrder
  BY CmpMirrored, CmpEqual DEF StrInv, CmpIsAnOrder
<1>2. QED
  BY <1>1, StrInvariance, PTL

-----------------------------------------------------------------------------
(* Char arrays.  The bytes of the array are as many as its capacity; a       *)
(* buffer that was freed by a failed reallocation is still described by      *)
(* length and capacity.  The string of the calls so far is in the buffer, a  *)
(* character at a time, and an array without a length has none.              *)
Byte == {NUL, UNSET} \union LineChars
SoundChars(a) ==
  /\ DOMAIN a = {"buffer", "owns", "length", "capacity", "bytes", "blocks"}
  /\ a.owns \in BOOLEAN /\ a.length \in Nat /\ a.capacity \in Nat
  /\ a.bytes \in [1 .. a.capacity -> Byte]
  /\ a.buffer \in {"null", "caller", "heap", "dangling", "freed_twice"}
  /\ a.length <= a.capacity
  /\ a.blocks = IF a.buffer = "heap" THEN 1 ELSE 0
  /\ a.buffer \in {"heap", "dangling"} => a.owns
  /\ a.buffer = "caller" => ~a.owns /\ a.capacity > 0
  /\ a.buffer \in {"null", "freed_twice"} => a.capacity = 0
Usable(a) == a.buffer \in {"caller", "heap"} \/ (a.buffer = "null" /\ a.owns)
Holds(a, s) ==
  /\ a.length = Len(s) + 1 /\ a.bytes[a.length] = NUL
  /\ \A i \in 1 .. Len(s) : a.bytes[i] = s[i]
CharInv ==
  /\ SoundChars(chars) /\ text \in Seq(Byte)
  /\ chars.length = 0 => text = <<>>
  /\ (text # NoString /\ chars.length > 0) => Holds(chars, text)

LEMMA AtMostFacts ==
  ASSUME NEW m \in Nat, NEW n \in Nat
  PROVE  /\ AtMost(m, n) \in Nat /\ AtMost(m, n) <= m /\ AtMost(m, n) <= n
         /\ AtMost(m, n) = m \/ AtMost(m, n) = n
BY DEF AtMost

LEMMA PrefixFacts ==
  ASSUME NEW s \in Seq(Byte), NEW n \in Nat
  PROVE  /\ Prefix(s, n) \in Seq(Byte) /\ Len(Prefix(s, n)) = AtMost(n, Len(s))
         /\ \A i \in 1 .. AtMost(n, Len(s)) : Prefix(s, n)[i] = s[i]
<1> DEFINE k == AtMost(n, Len(s))
<1>1. k \in Nat /\ k <= Len(s) /\ Len(s) \in Nat
  BY DEF AtMost
<1> HIDE DEF k
<1>2. \A i \in 1 .. k : s[i] \in Byte
  BY <1>1
<1>3. /\ SubSeq(s, 1, k) \in Seq(Byte) /\ Len(SubSeq(s, 1, k)) = IF 1 <= k THEN k - 1 + 1 ELSE 0
      /\ \A i \in 1 .. k - 1 + 1 : SubSeq(s, 1, k)[i] = s[1 + i - 1]
  BY <1>1, <1>2, SubSeqProperties
<1>4. Len(SubSeq(s, 1, k)) = k
  BY <1>1, <1>3
<1>5. \A i \in 1 .. k : SubSeq(s, 1, k)[i] = s[i]
  BY <1>1, <1>3
<1>6. QED
  BY <1>3, <1>4, <1>5 DEF Prefix, k

LEMMA TerminatedFacts ==
  ASSUME NEW s \in Seq(Byte)
  PROVE  /\ Append(s, NUL) \in Seq(Byte) /\ Len(Append(s, NUL)) = Len(s) + 1
         /\ Append(s, NUL)[Len(s) + 1] = NUL
         /\ \A i \in 1 .. Len(s) : Append(s, NUL)[i] = s[i]
BY DEF Byte

LEMMA OverwriteFacts ==
  ASSUME NEW n \in Nat, NEW b \in [1 .. n -> Byte], NEW at \in Nat, NEW s \in Seq(Byte)
  PROVE  /\ Overwrite(b, at, s) \in [1 .. n -> Byte]
         /\ \A i \in 1 .. n : Overwrite(b, at, s)[i] = IF i \in at + 1 .. at + Len(s) THEN s[i - at] ELSE b[i]
<1>1. \A i \in 1 .. n : i \in at + 1 .. at + Len(s) => s[i - at] \in Byte
  <2> SUFFICES ASSUME NEW i \in 1 .. n, i \in at + 1 .. at + Len(s) PROVE s[i - at] \in Byte
    OBVIOUS
  <2>1. i - at \in 1 .. Len(s)
    OBVIOUS
  <2>2. QED
    BY <2>1, ElementOfSeq
<1>2. QED
  BY <1>1 DEF Overwrite

LEMMA UnwrittenFacts ==
  ASSUME NEW n \in Nat
  PROVE  /\ Unwritten(n) \in Seq(Byte) /\ Len(Unwritten(n)) = n /\ Unwritten(n) \in [1 .. n -> Byte]
<1>1. Unwritten(n) \in [1 .. n -> Byte]
  BY DEF Unwritten, Byte
<1>2. QED
  BY <1>1

\* A function on 1 .. n is a sequence of that length, and the other way round.
LEMMA BytesAreASequence ==
  ASSUME NEW n \in Nat, NEW b \in [1 .. n -> Byte]
  PROVE  b \in Seq(Byte) /\ Len(b) = n
OBVIOUS

\* What every call leaves that takes a block of its own, or fails to get one.
LEMMA OwnerSound ==
  ASSUME NEW r, DOMAIN r = {"buffer", "owns", "length", "capacity", "bytes", "blocks"}, r.owns = TRUE,
         r.length \in Nat, r.capacity \in Nat, r.bytes \in [1 .. r.capacity -> Byte],
         r.length <= r.capacity, r.buffer \in {"null", "heap"},
         r.buffer = "heap" => r.blocks = 1, r.buffer = "null" => r.blocks = 0 /\ r.capacity = 0
  PROVE  SoundChars(r) /\ Usable(r)
<1>1. r.owns \in BOOLEAN
  BY Zenon
<1>2. r.owns
  BY Zenon
<1>3. r.buffer \in {"null", "caller", "heap", "dangling", "freed_twice"} /\ r.buffer # "caller" /\ r.buffer # "freed_twice"
  OBVIOUS
<1>4. Usable(r)
  BY <1>2 DEF Usable
<1>5. SoundChars(r)
  BY <1>1, <1>2, <1>3 DEF SoundChars
<1>6. QED
  BY <1>4, <1>5

\* rcutils_char_array_init on an array without a buffer of its own.
LEMMA InitializedFacts ==
  ASSUME NEW a, SoundChars(a), NEW n \in Nat, a.buffer = "null" \/ (a.buffer = "caller" /\ n > 0),
         NEW o \in Initialized(a, n)
  PROVE  /\ DOMAIN o = {"ret", "arr"} /\ SoundChars(o.arr) /\ Usable(o.arr)
         /\ o.arr.length = 0 /\ o.arr.owns
         /\ (o.ret = "OK" /\ n > 0) => o.arr.buffer = "heap" /\ o.arr.capacity = n
<1> DEFINE b == [a EXCEPT !.owns = TRUE, !.length = 0, !.capacity = n]
<1>1. DOMAIN a = {"buffer", "owns", "length", "capacity", "bytes", "blocks"}
  BY DEF SoundChars
<1>2. /\ DOMAIN b = {"buffer", "owns", "length", "capacity", "bytes", "blocks"}
      /\ b.owns = TRUE /\ b.length = 0 /\ b.capacity = n
      /\ b.buffer = a.buffer /\ b.bytes = a.bytes /\ b.blocks = a.blocks
  BY <1>1
<1>3. a.blocks = 0
  BY DEF SoundChars
<1>4. CASE n = 0
  <2>1. o = Outcome("OK", b)
    BY <1>4 DEF Initialized
  <2>2. DOMAIN o = {"ret", "arr"} /\ o.arr = b
    BY <2>1 DEF Outcome
  <2> HIDE DEF b
  <2>3. a.buffer = "null" /\ a.capacity = 0 /\ a.bytes \in [1 .. 0 -> Byte]
    BY <1>4 DEF SoundChars
  <2>4. b.length \in Nat /\ b.capacity \in Nat /\ b.length <= b.capacity /\ b.bytes \in [1 .. b.capacity -> Byte]
    BY <1>2, <1>4, <2>3
  <2>5. b.buffer = "null" /\ b.blocks = 0 /\ b.capacity = 0
    BY <1>2, <1>3, <1>4, <2>3
  <2>6. SoundChars(b)
    BY <1>2, <2>4, <2>5, OwnerSound
  <2>7. QED
    BY <1>2, <1>4, <2>2, <2>3, <2>6 DEF Usable
<1>5. CASE n > 0
  <2> DEFINE w == <<NUL>> \o Unwritten(n - 1)
             ok == [b EXCEPT !.buffer = "heap", !.blocks = @ + 1, !.bytes = w]
             bad == [b EXCEPT !.buffer = "null", !.capacity = 0, !.bytes = <<>>]
  <2>1. o = Outcome("OK", ok) \/ o = Outcome("BAD_ALLOC", bad)
    BY <1>5 DEF Initialized
  <2>2. w \in [1 .. n -> Byte]
    <3>1. n - 1 \in Nat
      BY <1>5
    <3>2. Unwritten(n - 1) \in Seq(Byte) /\ Len(Unwritten(n - 1)) = n - 1
      BY <3>1, UnwrittenFacts
    <3>3. <<NUL>> \in Seq(Byte) /\ Len(<<NUL>>) = 1
      BY DEF Byte
    <3>4. w \in Seq(Byte) /\ Len(w) = 1 + (n - 1)
      BY <3>2, <3>3, ConcatProperties
    <3> HIDE DEF w
    <3>5. w \in [1 .. Len(w) -> Byte] /\ Len(w) = n
      BY <3>4, LenProperties
    <3>6. QED
      BY <3>5
  <2> HIDE DEF w, b
  <2>3. CASE o = Outcome("OK", ok)
    <3>1. DOMAIN o = {"ret", "arr"} /\ o.arr = ok /\ o.ret = "OK"
      BY <2>3 DEF Outcome
    <3>2. /\ DOMAIN ok = {"buffer", "owns", "length", "capacity", "bytes", "blocks"}
          /\ ok.owns = TRUE /\ ok.length = 0 /\ ok.capacity = n
          /\ ok.buffer = "heap" /\ ok.bytes = w /\ ok.blocks = 1
      BY <1>2, <1>3
    <3> HIDE DEF ok
    <3>3. SoundChars(ok)
      <4>1. ok.length \in Nat /\ ok.capacity \in Nat /\ ok.length <= ok.capacity /\ ok.bytes \in [1 .. ok.capacity -> Byte]
        BY <2>2, <3>2
      <4>2. QED
        BY <3>2, <4>1, OwnerSound
    <3>4. QED
      BY <3>1, <3>2, <3>3 DEF Usable
  <2>4. CASE o = Outcome("BAD_ALLOC", bad)
    <3>1. DOMAIN o = {"ret", "arr"} /\ o.arr = bad /\ o.ret = "BAD_ALLOC"
      BY <2>4 DEF Outcome
    <3>2. /\ DOMAIN bad = {"buffer", "owns", "length", "capacity", "bytes", "blocks"}
          /\ bad.owns = TRUE /\ bad.length = 0 /\ bad.capacity = 0
          /\ bad.buffer = "null" /\ bad.bytes = <<>> /\ bad.blocks = 0
      BY <1>2, <1>3
    <3>3. bad.bytes \in [1 .. 0 -> Byte]
      BY <3>2
    <3> HIDE DEF bad
    <3>4. SoundChars(bad)
      <4>1. bad.length \in Nat /\ bad.capacity \in Nat /\ bad.length <= bad.capacity /\ bad.bytes \in [1 .. bad.capacity -> Byte]
        BY <3>2, <3>3
      <4>2. QED
        BY <3>2, <4>1, OwnerSound
    <3>5. QED
      BY <3>1, <3>2, <3>4 DEF Usable
  <2>5. QED
    BY <2>1, <2>3, <2>4
<1>6. QED
  BY <1>4, <1>5

\* A block of n bytes of the array's own.
OwnBlock(a, n) ==
  /\ DOMAIN a = {"buffer", "owns", "length", "capacity", "bytes", "blocks"}
  /\ a.buffer = "heap" /\ a.owns = TRUE /\ a.blocks = 1
  /\ a.bytes \in [1 .. n -> Byte]

\* rcutils_reallocf: a longer or shorter block with the bytes of the old one,
\* or the old block freed.
LEMMA ReallocatedFacts ==
  ASSUME NEW a, SoundChars(a), Usable(a), a.owns, NEW n \in Nat, n > 0, NEW o \in Reallocated(a, n)
  PROVE  /\ DOMAIN o = {"ret", "arr"} /\ o.arr.length = a.length
         /\ o.ret # "OK" => SoundChars(o.arr)
         /\ o.ret = "OK" =>
              /\ OwnBlock(o.arr, n)
              /\ \A i \in 1 .. AtMost(n, a.capacity) : o.arr.bytes[i] = a.bytes[i]
<1> DEFINE k == AtMost(n, a.capacity)
           w == Prefix(a.bytes, n) \o Unwritten(n - AtMost(n, Len(a.bytes)))
           ok == [a EXCEPT !.buffer = "heap", !.blocks = IF a.buffer = "heap" THEN @ ELSE @ + 1, !.bytes = w]
           bad == [a EXCEPT !.buffer = IF @ = "heap" THEN "dangling" ELSE @,
                            !.blocks = IF a.buffer = "heap" THEN @ - 1 ELSE @]
<1>1. /\ DOMAIN a = {"buffer", "owns", "length", "capacity", "bytes", "blocks"}
      /\ a.capacity \in Nat /\ a.length \in Nat /\ a.length <= a.capacity /\ a.bytes \in [1 .. a.capacity -> Byte]
  BY DEF SoundChars
<1>2. /\ a.buffer = "null" \/ a.buffer = "heap"
      /\ a.buffer = "null" => a.blocks = 0 /\ a.capacity = 0
      /\ a.buffer = "heap" => a.blocks = 1
  BY DEF SoundChars, Usable
<1>3. a.owns = TRUE
  BY DEF SoundChars
<1>4. o = Outcome("OK", ok) \/ o = Outcome("BAD_ALLOC", bad)
  BY DEF Reallocated
<1>5. a.bytes \in Seq(Byte) /\ Len(a.bytes) = a.capacity
  BY <1>1, BytesAreASequence
<1>6. k \in Nat /\ k <= n /\ k <= a.capacity
  BY <1>1, AtMostFacts
<1>7. w \in [1 .. n -> Byte] /\ \A i \in 1 .. k : w[i] = a.bytes[i]
  <2>1. /\ Prefix(a.bytes, n) \in Seq(Byte) /\ Len(Prefix(a.bytes, n)) = k
        /\ \A i \in 1 .. k : Prefix(a.bytes, n)[i] = a.bytes[i]
    BY <1>5, PrefixFacts
  <2>2. AtMost(n, Len(a.bytes)) = k
    BY <1>5
  <2> HIDE DEF k
  <2>3. n - k \in Nat
    BY <1>6
  <2>4. Unwritten(n - k) \in Seq(Byte) /\ Len(Unwritten(n - k)) = n - k
    BY <2>3, UnwrittenFacts
  <2>5. w = Prefix(a.bytes, n) \o Unwritten(n - k)
    BY <2>2
  <2> DEFINE p == Prefix(a.bytes, n)
             u == Unwritten(n - k)
  <2> HIDE DEF w, p, u
  <2>6. p \in Seq(Byte) /\ Len(p) = k /\ u \in Seq(Byte) /\ Len(u) = n - k /\ w = p \o u
    BY <2>1, <2>4, <2>5 DEF p, u
  <2>7. /\ w \in Seq(Byte) /\ Len(w) = Len(p) + Len(u)
        /\ \A i \in 1 .. Len(p) + Len(u) : w[i] = IF i <= Len(p) THEN p[i] ELSE u[i - Len(p)]
    BY <2>6, ConcatProperties
  <2>8. Len(w) = n /\ \A i \in 1 .. k : w[i] = p[i]
    BY <1>6, <2>6, <2>7
  <2>9. w \in [1 .. n -> Byte]
    BY <2>7, <2>8, LenProperties
  <2>10. QED
    BY <2>1, <2>8, <2>9 DEF p
<1> HIDE DEF w, k
<1>8. CASE o = Outcome("OK", ok)
  <2>1. DOMAIN o = {"ret", "arr"} /\ o.ret = "OK" /\ o.arr = ok
    BY <1>8 DEF Outcome
  <2>2. /\ DOMAIN ok = {"buffer", "owns", "length", "capacity", "bytes", "blocks"}
        /\ ok.buffer = "heap" /\ ok.owns = a.owns /\ ok.length = a.length /\ ok.bytes = w
        /\ ok.blocks = IF a.buffer = "heap" THEN a.blocks ELSE a.blocks + 1
    BY <1>1
  <2> HIDE DEF ok
  <2>3. ok.blocks = 1
    BY <1>2, <2>2
  <2>4. QED
    BY <1>3, <1>7, <2>1, <2>2, <2>3 DEF k, OwnBlock
<1>9. CASE o = Outcome("BAD_ALLOC", bad)
  <2>1. DOMAIN o = {"ret", "arr"} /\ o.ret = "BAD_ALLOC" /\ o.arr = bad
    BY <1>9 DEF Outcome
  <2>2. /\ DOMAIN bad = {"buffer", "owns", "length", "capacity", "bytes", "blocks"}
        /\ bad.owns = a.owns /\ bad.length = a.length /\ bad.capacity = a.capacity /\ bad.bytes = a.bytes
        /\ bad.buffer = (IF a.buffer = "heap" THEN "dangling" ELSE a.buffer)
        /\ bad.blocks = (IF a.buffer = "heap" THEN a.blocks - 1 ELSE a.blocks)
    BY <1>1
  <2> HIDE DEF bad
  <2>3. /\ bad.buffer \in {"null", "dangling"} /\ bad.blocks = 0
        /\ bad.buffer = "null" => bad.capacity = 0
    BY <1>2, <2>2
  <2>4. bad.owns \in BOOLEAN /\ bad.owns
    BY <2>2 DEF SoundChars
  <2>5. SoundChars(bad)
    BY <1>1, <2>2, <2>3, <2>4 DEF SoundChars
  <2>6. QED
    BY <2>1, <2>2, <2>5
<1>10. QED
  BY <1>4, <1>8, <1>9

\* A borrowed buffer is copied to a new block and terminated there.
LEMMA MovedFacts ==
  ASSUME NEW a, SoundChars(a), a.buffer = "caller", NEW n \in Nat, n > 0, NEW o \in Moved(a, n)
  PROVE  /\ DOMAIN o = {"ret", "arr"}
         /\ o.ret # "OK" => SoundChars(o.arr)
         /\ o.ret = "OK" =>
              /\ OwnBlock(o.arr, n)
              /\ o.arr.bytes[AtMost(n, a.capacity)] = NUL
              /\ \A i \in 1 .. AtMost(n, a.capacity) - 1 : o.arr.bytes[i] = a.bytes[i]
<1> DEFINE k == AtMost(n, a.capacity)
<1>1. PICK p \in Initialized(a, n) : o = IF p.ret = "OK" THEN [p EXCEPT !.arr.bytes = CopiedFrom(a, p.arr, n)] ELSE p
  BY DEF Moved
<1>2. /\ DOMAIN p = {"ret", "arr"} /\ SoundChars(p.arr) /\ p.arr.owns
      /\ p.ret = "OK" => p.arr.buffer = "heap" /\ p.arr.capacity = n
  BY InitializedFacts
<1>3. CASE p.ret # "OK"
  BY <1>1, <1>2, <1>3
<1>4. CASE p.ret = "OK"
  <2>1. /\ DOMAIN p.arr = {"buffer", "owns", "length", "capacity", "bytes", "blocks"}
        /\ p.arr.bytes \in [1 .. n -> Byte] /\ p.arr.blocks = 1 /\ p.arr.owns = TRUE /\ p.arr.buffer = "heap"
    BY <1>2, <1>4 DEF SoundChars
  <2> DEFINE c == CopiedFrom(a, p.arr, n)
             b == p.arr.bytes
  <2>2. o = [p EXCEPT !.arr.bytes = c]
    BY <1>1, <1>4
  <2> HIDE DEF c
  <2>3. /\ DOMAIN o = {"ret", "arr"} /\ o.ret = "OK"
        /\ DOMAIN o.arr = {"buffer", "owns", "length", "capacity", "bytes", "blocks"}
        /\ o.arr.bytes = c /\ o.arr.buffer = p.arr.buffer /\ o.arr.owns = p.arr.owns /\ o.arr.blocks = p.arr.blocks
    BY <1>2, <1>4, <2>1, <2>2
  <2>4. a.capacity \in Nat /\ a.capacity > 0 /\ a.bytes \in Seq(Byte) /\ Len(a.bytes) = a.capacity
    BY BytesAreASequence DEF SoundChars
  <2>5. k \in Nat /\ k <= n /\ k <= a.capacity /\ k >= 1
    BY <2>4 DEF AtMost
  <2>6. /\ Prefix(a.bytes, n) \in Seq(Byte) /\ Len(Prefix(a.bytes, n)) = k
        /\ \A i \in 1 .. k : Prefix(a.bytes, n)[i] = a.bytes[i]
    BY <2>4, PrefixFacts
  <2> DEFINE s == Prefix(a.bytes, n)
             w == Overwrite(b, 0, s)
  <2>7. /\ w \in [1 .. n -> Byte]
        /\ \A i \in 1 .. n : w[i] = IF i \in 0 + 1 .. 0 + Len(s) THEN s[i - 0] ELSE b[i]
    <3>1. s \in Seq(Byte) /\ b \in [1 .. n -> Byte] /\ 0 \in Nat
      BY <2>1, <2>6
    <3> HIDE DEF s, b
    <3>2. QED
      BY <3>1, OverwriteFacts
  <2>8. c = [w EXCEPT ![k] = NUL]
    BY DEF c, CopiedFrom
  <2>9. Len(s) = k /\ \A i \in 1 .. k : s[i] = a.bytes[i]
    BY <2>6
  <2> HIDE DEF w, k, b, s
  <2>10. \A i \in 1 .. k : w[i] = a.bytes[i]
    BY <2>5, <2>7, <2>9
  <2>11. c \in [1 .. n -> Byte] /\ c[k] = NUL /\ \A i \in 1 .. k - 1 : c[i] = a.bytes[i]
    BY <2>5, <2>7, <2>8, <2>10 DEF Byte
  <2>12. QED
    BY <2>1, <2>3, <2>11 DEF k, OwnBlock
<1>5. QED
  BY <1>3, <1>4

\* rcutils_char_array_resize
LEMMA ResizedFacts ==
  ASSUME NEW a, SoundChars(a), Usable(a), NEW n \in Nat, NEW o \in Resized(a, n)
  PROVE  /\ DOMAIN o = {"ret", "arr"} /\ SoundChars(o.arr)
         /\ o.ret = "OK" =>
              /\ Usable(o.arr) /\ n > 0 /\ o.arr.capacity = n /\ o.arr.length = AtMost(n, a.length)
              /\ \A i \in 1 .. AtMost(n, a.capacity) - 1 : o.arr.bytes[i] = a.bytes[i]
              /\ \/ o.arr.bytes[AtMost(n, a.capacity)] = a.bytes[AtMost(n, a.capacity)] /\ (a.owns \/ n = a.capacity)
                 \/ o.arr.bytes[AtMost(n, a.capacity)] = NUL /\ ~a.owns
                 \/ a.capacity = 0
<1> DEFINE k == AtMost(n, a.capacity)
<1>1. /\ a.capacity \in Nat /\ a.length \in Nat /\ a.length <= a.capacity /\ a.owns \in BOOLEAN
      /\ DOMAIN a = {"buffer", "owns", "length", "capacity", "bytes", "blocks"}
  BY DEF SoundChars
<1>2. k \in Nat /\ k <= n /\ k <= a.capacity
  BY <1>1, AtMostFacts
<1>3. CASE n = 0
  <2>1. o = Outcome("INVALID_ARGUMENT", a)
    BY <1>3 DEF Resized
  <2>2. DOMAIN o = {"ret", "arr"} /\ o.ret = "INVALID_ARGUMENT" /\ o.arr = a
    BY <2>1 DEF Outcome
  <2>3. QED
    BY <2>2
<1>4. CASE n > 0 /\ n = a.capacity
  <2>1. o = Outcome("OK", a)
    BY <1>4 DEF Resized
  <2>2. DOMAIN o = {"ret", "arr"} /\ o.ret = "OK" /\ o.arr = a
    BY <2>1 DEF Outcome
  <2>3. AtMost(n, a.length) = a.length
    BY <1>1, <1>4 DEF AtMost
  <2>4. QED
    BY <1>4, <2>2, <2>3
<1>5. CASE n > 0 /\ n # a.capacity
  <2> DEFINE S == IF a.owns THEN Reallocated(a, n) ELSE Moved(a, n)
             m == AtMost(n, a.length)
             Wrapped(p) == IF p.ret = "OK" THEN [p EXCEPT !.arr.capacity = n, !.arr.length = m] ELSE p
  <2>0. o \in {Wrapped(p) : p \in S}
    <3>1. n # 0 /\ n # a.capacity
      BY <1>5
    <3>2. Resized(a, n) = {Wrapped(p) : p \in S}
      BY <3>1, Zenon DEF Resized
    <3>3. QED
      BY <3>2, Zenon
  <2> HIDE DEF S
  <2>1. PICK p \in S : o = Wrapped(p)
    BY <2>0
  <2>2. /\ DOMAIN p = {"ret", "arr"}
        /\ p.ret # "OK" => SoundChars(p.arr)
        /\ p.ret = "OK" =>
              /\ OwnBlock(p.arr, n)
              /\ \A i \in 1 .. k - 1 : p.arr.bytes[i] = a.bytes[i]
              /\ \/ p.arr.bytes[k] = a.bytes[k] /\ a.owns
                 \/ p.arr.bytes[k] = NUL /\ ~a.owns
                 \/ a.capacity = 0
    <3>1. CASE a.owns
      <4>1. p \in Reallocated(a, n)
        BY <3>1 DEF S
      <4>2. /\ DOMAIN p = {"ret", "arr"}
            /\ p.ret # "OK" => SoundChars(p.arr)
            /\ p.ret = "OK" =>
                 /\ OwnBlock(p.arr, n)
                 /\ \A i \in 1 .. k : p.arr.bytes[i] = a.bytes[i]
        BY <1>5, <3>1, <4>1, ReallocatedFacts
      <4>3. k >= 1 \/ a.capacity = 0
        BY <1>1, <1>5 DEF AtMost
      <4>4. p.ret = "OK" => /\ \A i \in 1 .. k - 1 : p.arr.bytes[i] = a.bytes[i]
                            /\ p.arr.bytes[k] = a.bytes[k] \/ a.capacity = 0
        BY <1>2, <4>2, <4>3
      <4>5. QED
        BY <3>1, <4>2, <4>4
    <3>2. CASE ~a.owns
      <4>1. p \in Moved(a, n) /\ a.buffer = "caller"
        BY <3>2 DEF Usable, SoundChars, S
      <4>2. QED
        BY <1>5, <3>2, <4>1, MovedFacts
    <3>3. QED
      BY <3>1, <3>2
  <2>3. CASE p.ret # "OK"
    BY <2>1, <2>2, <2>3
  <2>4. CASE p.ret = "OK"
    <3>1. m \in Nat /\ m <= n
      BY <1>1, AtMostFacts
    <3> HIDE DEF m, k
    <3>2. o = [p EXCEPT !.arr.capacity = n, !.arr.length = m]
      BY <2>1, <2>4
    <3>3. /\ DOMAIN o = {"ret", "arr"} /\ o.ret = "OK"
          /\ DOMAIN o.arr = {"buffer", "owns", "length", "capacity", "bytes", "blocks"}
          /\ o.arr.capacity = n /\ o.arr.length = m /\ o.arr.bytes = p.arr.bytes
          /\ o.arr.buffer = p.arr.buffer /\ o.arr.owns = p.arr.owns /\ o.arr.blocks = p.arr.blocks
      BY <2>2, <2>4, <3>2 DEF OwnBlock
    <3>4. /\ o.arr.length \in Nat /\ o.arr.capacity \in Nat /\ o.arr.length <= o.arr.capacity
          /\ o.arr.bytes \in [1 .. o.arr.capacity -> Byte]
          /\ o.arr.buffer = "heap" /\ o.arr.blocks = 1 /\ o.arr.owns = TRUE
      BY <2>2, <2>4, <3>1, <3>3 DEF OwnBlock
    <3>5. SoundChars(o.arr) /\ Usable(o.arr)
      BY <3>3, <3>4, OwnerSound
    <3>6. QED
      BY <1>5, <2>2, <2>4, <3>3, <3>5 DEF m, k
  <2>5. QED
    BY <2>3, <2>4
<1>6. QED
  BY <1>3, <1>4, <1>5

\* Bytes and length change, the buffer stays.
LEMMA SoundRewritten ==
  ASSUME NEW a, SoundChars(a), NEW r,
         DOMAIN r = {"buffer", "owns", "length", "capacity", "bytes", "blocks"},
         r.buffer = a.buffer, r.owns = a.owns, r.capacity = a.capacity, r.blocks = a.blocks,
         r.bytes \in [1 .. a.capacity -> Byte], r.length \in Nat, r.length <= a.capacity
  PROVE  SoundChars(r) /\ (Usable(a) => Usable(r))
BY DEF SoundChars, Usable

LEMMA SoundCharsFacts ==
  ASSUME NEW a, SoundChars(a)
  PROVE  /\ DOMAIN a = {"buffer", "owns", "length", "capacity", "bytes", "blocks"}
         /\ a.capacity \in Nat /\ a.length \in Nat /\ a.length <= a.capacity
         /\ a.bytes \in [1 .. a.capacity -> Byte]
BY DEF SoundChars

\* rcutils_char_array_expand_as_needed: room for n bytes, and the old ones in it.
LEMMA ExpandedFacts ==
  ASSUME NEW a, SoundChars(a), Usable(a), NEW n \in Nat, NEW o \in Expanded(a, n)
  PROVE  /\ DOMAIN o = {"ret", "arr"} /\ SoundChars(o.arr)
         /\ o.ret = "OK" =>
              /\ Usable(o.arr) /\ o.arr.capacity >= n /\ o.arr.length = a.length
              /\ \A i \in 1 .. a.capacity - 1 : o.arr.bytes[i] = a.bytes[i]
<1>1. /\ a.capacity \in Nat /\ a.length \in Nat /\ a.length <= a.capacity
  BY SoundCharsFacts
<1>2. CASE n <= a.capacity
  <2>1. o = Outcome("OK", a)
    BY <1>2 DEF Expanded
  <2>2. DOMAIN o = {"ret", "arr"} /\ o.arr = a
    BY <2>1 DEF Outcome
  <2>3. QED
    BY <1>1, <1>2, <2>2
<1>3. CASE ~(n <= a.capacity)
  <2> DEFINE m == NewCapacity(a, n)
  <2>1. o \in Resized(a, m)
    BY <1>3 DEF Expanded
  <2>2. m \in Nat /\ m >= n
    BY <1>1 DEF NewCapacity
  <2> HIDE DEF m
  <2>3. AtMost(m, a.capacity) = a.capacity /\ AtMost(m, a.length) = a.length
    BY <1>1, <1>3, <2>2 DEF AtMost
  <2>4. /\ DOMAIN o = {"ret", "arr"} /\ SoundChars(o.arr)
        /\ o.ret = "OK" =>
             /\ Usable(o.arr) /\ o.arr.capacity = m /\ o.arr.length = AtMost(m, a.length)
             /\ \A i \in 1 .. AtMost(m, a.capacity) - 1 : o.arr.bytes[i] = a.bytes[i]
    BY <2>1, <2>2, ResizedFacts
  <2>5. QED
    BY <2>2, <2>3, <2>4
<1>4. QED
  BY <1>2, <1>3

\* Writing at an offset keeps what is before it.
LEMMA WrittenFacts ==
  ASSUME NEW a, SoundChars(a), Usable(a), NEW at \in Nat, NEW s \in Seq(Byte), NEW o \in WrittenAt(a, at, s)
  PROVE  /\ SoundChars(o.arr)
         /\ o.ret = "OK" =>
              /\ Usable(o.arr) /\ o.arr.length = at + Len(s)
              /\ \A i \in 1 .. at : i < a.capacity => o.arr.bytes[i] = a.bytes[i]
              /\ \A i \in 1 .. Len(s) : o.arr.bytes[at + i] = s[i]
<1> DEFINE n == at + Len(s)
           Written(p) == IF p.ret = "OK" THEN [p EXCEPT !.arr.bytes = Overwrite(@, at, s), !.arr.length = n] ELSE p
<1>1. n \in Nat /\ Len(s) \in Nat
  OBVIOUS
<1>2. PICK p \in Expanded(a, n) : o = Written(p)
  BY DEF WrittenAt
<1> HIDE DEF n
<1>3. /\ DOMAIN p = {"ret", "arr"} /\ SoundChars(p.arr)
      /\ p.ret = "OK" =>
           /\ Usable(p.arr) /\ p.arr.capacity >= n /\ \A i \in 1 .. a.capacity - 1 : p.arr.bytes[i] = a.bytes[i]
  BY <1>1, ExpandedFacts
<1>4. CASE p.ret # "OK"
  BY <1>2, <1>3, <1>4
<1>5. CASE p.ret = "OK"
  <2>1. /\ DOMAIN p.arr = {"buffer", "owns", "length", "capacity", "bytes", "blocks"}
        /\ p.arr.capacity \in Nat /\ p.arr.bytes \in [1 .. p.arr.capacity -> Byte] /\ a.capacity \in Nat
    BY <1>3, SoundCharsFacts
  <2> DEFINE b == p.arr.bytes
             m == p.arr.capacity
             w == Overwrite(b, at, s)
  <2>2. /\ w \in [1 .. m -> Byte]
        /\ \A i \in 1 .. m : w[i] = IF i \in at + 1 .. at + Len(s) THEN s[i - at] ELSE b[i]
    <3>1. m \in Nat /\ b \in [1 .. m -> Byte]
      BY <2>1
    <3> HIDE DEF m, b
    <3>2. QED
      BY <3>1, OverwriteFacts
  <2>3. o = [p EXCEPT !.arr.bytes = w, !.arr.length = n]
    BY <1>2, <1>5
  <2> HIDE DEF w
  <2>4. /\ o.ret = p.ret /\ o.arr.bytes = w /\ o.arr.length = n
        /\ DOMAIN o.arr = {"buffer", "owns", "length", "capacity", "bytes", "blocks"}
        /\ o.arr.buffer = p.arr.buffer /\ o.arr.owns = p.arr.owns
        /\ o.arr.capacity = p.arr.capacity /\ o.arr.blocks = p.arr.blocks
    BY <1>3, <2>1, <2>3
  <2>5. SoundChars(o.arr) /\ Usable(o.arr)
    <3>1. n <= p.arr.capacity
      BY <1>1, <1>3, <1>5, <2>1
    <3>2. QED
      BY <1>1, <1>3, <1>5, <2>2, <2>4, <3>1, SoundRewritten
  <2>6. at <= n /\ n <= m /\ m \in Nat
    BY <1>1, <1>3, <1>5, <2>1 DEF n
  <2>7. \A i \in 1 .. at : i < a.capacity => w[i] = a.bytes[i]
    <3> SUFFICES ASSUME NEW i \in 1 .. at, i < a.capacity PROVE w[i] = a.bytes[i]
      OBVIOUS
    <3>1. i \in 1 .. m /\ i \notin at + 1 .. at + Len(s) /\ i \in 1 .. a.capacity - 1
      BY <1>1, <2>1, <2>6
    <3>2. w[i] = b[i]
      BY <2>2, <3>1
    <3>3. b[i] = a.bytes[i]
      BY <1>3, <1>5, <3>1
    <3>4. QED
      BY <3>2, <3>3
  <2>8. \A i \in 1 .. Len(s) : w[at + i] = s[i]
    <3> SUFFICES ASSUME NEW i \in 1 .. Len(s) PROVE w[at + i] = s[i]
      OBVIOUS
    <3>1. at + i \in 1 .. m /\ at + i \in at + 1 .. at + Len(s) /\ at + i - at = i
      BY <1>1, <2>6 DEF n
    <3> HIDE DEF m
    <3>2. QED
      BY <2>2, <3>1
  <2>9. QED
    BY <1>5, <2>4, <2>5, <2>7, <2>8 DEF n
<1>6. QED
  BY <1>4, <1>5

\* rcutils_char_array_fini of an array in use, or of one whose block is freed.
LEMMA FinalizedFacts ==
  ASSUME NEW a, SoundChars(a)
  PROVE  SoundChars(Finalized(a)) /\ Finalized(a).length = 0 /\ Finalized(a).blocks = 0
<1> DEFINE r == Finalized(a)
<1>1. DOMAIN a = {"buffer", "owns", "length", "capacity", "bytes", "blocks"}
  BY SoundCharsFacts
<1>2. /\ DOMAIN r = {"buffer", "owns", "length", "capacity", "bytes", "blocks"}
      /\ r.length = 0 /\ r.capacity = 0 /\ r.bytes = <<>> /\ r.owns = a.owns
      /\ r.buffer = (IF a.buffer = "dangling" THEN "freed_twice" ELSE "null")
      /\ r.blocks = IF a.owns /\ a.buffer = "heap" THEN a.blocks - 1 ELSE a.blocks
  BY <1>1 DEF Finalized
<1> HIDE DEF r
<1>3. r.buffer \in {"null", "freed_twice"}
  BY <1>2
<1>4. r.blocks = 0
  BY <1>2 DEF SoundChars
<1>5. r.bytes \in [1 .. 0 -> Byte]
  BY <1>2
<1>6. r.owns \in BOOLEAN
  BY <1>2 DEF SoundChars
<1>7. r.length \in Nat /\ r.capacity \in Nat /\ r.length <= r.capacity /\ r.bytes \in [1 .. r.capacity -> Byte]
  BY <1>2, <1>5
<1>8. SoundChars(r)
  BY <1>2, <1>3, <1>4, <1>6, <1>7 DEF SoundChars
<1>9. QED
  BY <1>2, <1>4, <1>8 DEF r

\* vsnprintf: as much of the string as fits, and the whole of it if it does.
LEMMA FittingFacts ==
  ASSUME NEW a, SoundChars(a), NEW s \in Seq(Byte)
  PROVE  /\ SoundChars(Fitting(a, s)) /\ (Usable(a) => Usable(Fitting(a, s)))
         /\ DOMAIN Fitting(a, s) = {"buffer", "owns", "length", "capacity", "bytes", "blocks"}
         /\ Fitting(a, s).capacity = a.capacity
         /\ Len(s) < a.capacity =>
              /\ Fitting(a, s).bytes[Len(s) + 1] = NUL
              /\ \A i \in 1 .. Len(s) : Fitting(a, s).bytes[i] = s[i]
<1>1. /\ DOMAIN a = {"buffer", "owns", "length", "capacity", "bytes", "blocks"}
      /\ a.capacity \in Nat /\ a.bytes \in [1 .. a.capacity -> Byte] /\ Len(s) \in Nat
      /\ a.length \in Nat /\ a.length <= a.capacity
  BY SoundCharsFacts
<1>2. CASE a.capacity = 0
  <2>1. Fitting(a, s) = a
    BY <1>2 DEF Fitting
  <2>2. QED
    BY <1>1, <1>2, <2>1
<1>3. CASE a.capacity > 0
  <2> DEFINE p == Prefix(s, a.capacity - 1)
             q == Append(p, NUL)
             w == Overwrite(a.bytes, 0, q)
             r == Fitting(a, s)
  <2>1. r = [a EXCEPT !.bytes = w]
    BY <1>3 DEF Fitting
  <2>2. a.capacity - 1 \in Nat
    BY <1>1, <1>3
  <2>3. /\ p \in Seq(Byte) /\ Len(p) = AtMost(a.capacity - 1, Len(s))
        /\ \A i \in 1 .. AtMost(a.capacity - 1, Len(s)) : p[i] = s[i]
    BY <2>2, PrefixFacts
  <2> HIDE DEF p
  <2>4. q \in Seq(Byte) /\ Len(q) = Len(p) + 1 /\ q[Len(p) + 1] = NUL /\ \A i \in 1 .. Len(p) : q[i] = p[i]
    BY <2>3, TerminatedFacts
  <2> HIDE DEF q
  <2>5. /\ w \in [1 .. a.capacity -> Byte]
        /\ \A i \in 1 .. a.capacity : w[i] = IF i \in 0 + 1 .. 0 + Len(q) THEN q[i - 0] ELSE a.bytes[i]
    <3> DEFINE m == a.capacity
               b == a.bytes
    <3>1. m \in Nat /\ b \in [1 .. m -> Byte] /\ 0 \in Nat /\ q \in Seq(Byte)
      BY <1>1, <2>4
    <3> HIDE DEF m, b
    <3>2. /\ Overwrite(b, 0, q) \in [1 .. m -> Byte]
          /\ \A i \in 1 .. m : Overwrite(b, 0, q)[i] = IF i \in 0 + 1 .. 0 + Len(q) THEN q[i - 0] ELSE b[i]
      BY <3>1, OverwriteFacts
    <3>3. QED
      BY <3>2 DEF m, b
  <2> HIDE DEF w, r
  <2>6. /\ DOMAIN r = {"buffer", "owns", "length", "capacity", "bytes", "blocks"}
        /\ r.bytes = w /\ r.buffer = a.buffer /\ r.owns = a.owns /\ r.length = a.length
        /\ r.capacity = a.capacity /\ r.blocks = a.blocks
    BY <1>1, <2>1
  <2>7. SoundChars(r) /\ (Usable(a) => Usable(r))
    BY <1>1, <2>5, <2>6, SoundRewritten
  <2>8. Len(s) < a.capacity => w[Len(s) + 1] = NUL /\ \A i \in 1 .. Len(s) : w[i] = s[i]
    <3> SUFFICES ASSUME Len(s) < a.capacity PROVE w[Len(s) + 1] = NUL /\ \A i \in 1 .. Len(s) : w[i] = s[i]
      OBVIOUS
    <3>1. AtMost(a.capacity - 1, Len(s)) = Len(s)
      BY <1>1 DEF AtMost
    <3>2. Len(p) = Len(s) /\ Len(q) = Len(s) + 1
      BY <2>3, <2>4, <3>1
    <3>3. \A i \in 1 .. Len(s) + 1 : w[i] = q[i]
      BY <1>1, <2>5, <3>2
    <3>4. \A i \in 1 .. Len(s) : q[i] = s[i]
      BY <2>3, <2>4, <3>1, <3>2
    <3>5. QED
      BY <1>1, <2>4, <3>2, <3>3, <3>4
  <2>9. QED
    BY <2>6, <2>7, <2>8 DEF r
<1>4. QED
  BY <1>1, <1>2, <1>3

\* The second attempt, or the only one: the array holds the formatted string.
LEMMA FormattedOnce ==
  ASSUME NEW a, SoundChars(a), NEW s \in Seq(Byte), Len(s) < a.capacity,
         NEW r, r = [Fitting(a, s) EXCEPT !.length = Len(s) + 1]
  PROVE  SoundChars(r) /\ Holds(r, s)
<1> DEFINE f == Fitting(a, s)
<1>1. /\ SoundChars(f) /\ f.capacity = a.capacity
      /\ DOMAIN f = {"buffer", "owns", "length", "capacity", "bytes", "blocks"}
      /\ f.bytes[Len(s) + 1] = NUL /\ \A i \in 1 .. Len(s) : f.bytes[i] = s[i]
  BY FittingFacts
<1> HIDE DEF f
<1>2. r = [f EXCEPT !.length = Len(s) + 1]
  BY DEF f
<1>3. /\ DOMAIN r = {"buffer", "owns", "length", "capacity", "bytes", "blocks"}
      /\ r.length = Len(s) + 1 /\ r.bytes = f.bytes /\ r.buffer = f.buffer /\ r.owns = f.owns
      /\ r.capacity = f.capacity /\ r.blocks = f.blocks
  BY <1>1, <1>2
<1>4. /\ f.capacity \in Nat /\ f.bytes \in [1 .. f.capacity -> Byte] /\ Len(s) \in Nat
      /\ r.length \in Nat /\ r.length <= f.capacity
  BY <1>1, <1>3, SoundCharsFacts
<1>5. SoundChars(r)
  BY <1>1, <1>3, <1>4, SoundRewritten
<1>6. Holds(r, s)
  BY <1>1, <1>3 DEF Holds
<1>7. QED
  BY <1>5, <1>6

LEMMA FormattedFacts ==
  ASSUME NEW a, SoundChars(a), Usable(a), NEW s \in Seq(Byte), NEW o \in Formatted(a, s)
  PROVE  SoundChars(o.arr) /\ (o.ret = "OK" => Holds(o.arr, s))
<1> DEFINE f == Fitting(a, s)
           n == Len(s) + 1
           FormatAgain(p) == IF p.ret = "OK"
                             THEN {Outcome("OK", [Fitting(p.arr, s) EXCEPT !.length = n]),
                                   Outcome("ERROR", Finalized(p.arr))}
                             ELSE {p}
<1>1. n \in Nat /\ Len(s) \in Nat /\ a.capacity \in Nat
  BY SoundCharsFacts
<1>2. SoundChars(f) /\ Usable(f)
  BY FittingFacts
<1>a. CASE o \in {Outcome("ERROR", a), Outcome("ERROR", f)}
  BY <1>2, <1>a DEF Outcome
<1>b. CASE o \notin {Outcome("ERROR", a), Outcome("ERROR", f)} /\ n > a.capacity
  <2>1. o \in UNION {FormatAgain(p) : p \in Expanded(f, n)}
    BY <1>b DEF Formatted
  <2> HIDE DEF f, FormatAgain
  <2>2. PICK p \in Expanded(f, n) : o \in FormatAgain(p)
    BY <2>1
  <2>3. SoundChars(p.arr) /\ (p.ret = "OK" => p.arr.capacity >= n)
    BY <1>1, <1>2, ExpandedFacts
  <2>4. CASE p.ret # "OK"
    <3>1. o = p
      BY <2>2, <2>4 DEF FormatAgain
    <3>2. QED
      BY <2>3, <2>4, <3>1
  <2>5. CASE p.ret = "OK"
    <3>1. Len(s) < p.arr.capacity
      BY <1>1, <2>3, <2>5, SoundCharsFacts
    <3> DEFINE r == [Fitting(p.arr, s) EXCEPT !.length = n]
    <3>2. o = Outcome("OK", r) \/ o = Outcome("ERROR", Finalized(p.arr))
      BY <2>2, <2>5 DEF FormatAgain
    <3>3. SoundChars(r) /\ Holds(r, s)
      BY <2>3, <3>1, FormattedOnce
    <3>4. SoundChars(Finalized(p.arr))
      BY <2>3, FinalizedFacts
    <3> HIDE DEF r
    <3>5. QED
      BY <3>2, <3>3, <3>4 DEF Outcome
  <2>6. QED
    BY <2>4, <2>5
<1>c. CASE o \notin {Outcome("ERROR", a), Outcome("ERROR", f)} /\ ~(n > a.capacity)
  <2> DEFINE r == [Fitting(a, s) EXCEPT !.length = n]
  <2>1. o = Outcome("OK", r)
    BY <1>c DEF Formatted
  <2>2. Len(s) < a.capacity
    BY <1>1, <1>c
  <2>3. SoundChars(r) /\ Holds(r, s)
    BY <2>2, FormattedOnce
  <2> HIDE DEF r
  <2>4. QED
    BY <2>1, <2>3 DEF Outcome
<1>3. QED
  BY <1>a, <1>b, <1>c

\* A call keeps the invariant if its outcomes are sound arrays, and the ones
\* that succeed hold the string.
Delivers(o, s) ==
  /\ SoundChars(o.arr)
  /\ o.ret = "OK" => /\ o.arr.length = 0 => s = <<>>
                     /\ (s # NoString /\ o.arr.length > 0) => Holds(o.arr, s)
LEMMA CallStep ==
  ASSUME CharInv, NEW S, NEW s \in Seq(Byte), Call(S, s), \A o \in S : Delivers(o, s)
  PROVE  CharInv'
<1>1. PICK o \in S : /\ chars' = o.arr
                     /\ text' = CASE o.ret = "OK" -> s
                                  [] o.ret # "OK" /\ o.arr = chars -> text
                                  [] OTHER -> IF o.arr.length = 0 THEN <<>> ELSE NoString
  BY DEF Call
<1>2. Delivers(o, s)
  OBVIOUS
<1>3. CASE o.ret = "OK"
  <2>1. text' = s
    BY <1>1, <1>3
  <2>2. QED
    BY <1>1, <1>2, <1>3, <2>1 DEF CharInv, Delivers
<1>4. CASE o.ret # "OK" /\ o.arr = chars
  <2>1. text' = text /\ chars' = chars
    BY <1>1, <1>4
  <2>2. QED
    BY <2>1 DEF CharInv
<1>5. CASE o.ret # "OK" /\ o.arr # chars
  <2>1. text' = IF o.arr.length = 0 THEN <<>> ELSE NoString
    BY <1>1, <1>5
  <2>2. NoString \in Seq(Byte) /\ <<>> \in Seq(Byte)
    BY DEF NoString, Byte
  <2>3. SoundChars(o.arr) /\ o.arr.length \in Nat
    BY <1>2, SoundCharsFacts DEF Delivers
  <2>4. CASE o.arr.length = 0
    BY <1>1, <2>1, <2>2, <2>3, <2>4 DEF CharInv
  <2>5. CASE o.arr.length # 0
    BY <1>1, <2>1, <2>2, <2>3, <2>5 DEF CharInv
  <2>6. QED
    BY <2>4, <2>5
<1>6. QED
  BY <1>3, <1>4, <1>5

\* What callers write is made of bytes.
LEMMA StringsAreBytes ==
  ASSUME NEW s \in Strings
  PROVE  s \in Seq(Byte)
<1>1. s \in Seq(LineChars)
  BY OutputAssumption DEF LineTexts
<1>2. LineChars \subseteq Byte
  BY DEF Byte
<1>3. QED
  BY <1>1, <1>2, SeqMonotonic

LEMMA EmptyText == <<>> \in Seq(Byte) /\ NoString \in Seq(Byte)
BY DEF NoString, Byte

LEMMA InitCharsInv ==
  ASSUME CharInv, NEW n \in Capacities, InitChars(n)
  PROVE  CharInv'
<1>1. n \in Nat /\ SoundChars(chars) /\ chars.buffer = "null" /\ Call(Initialized(chars, n), <<>>)
  BY CharsAssumption DEF CharInv, InitChars
<1>2. \A o \in Initialized(chars, n) : SoundChars(o.arr) /\ o.arr.length = 0
  BY <1>1, InitializedFacts
<1>3. \A o \in Initialized(chars, n) : Delivers(o, <<>>)
  BY <1>2 DEF Delivers
<1>4. QED
  BY <1>1, <1>3, EmptyText, CallStep

LEMMA BorrowCharsInv ==
  ASSUME CharInv, NEW n \in Capacities, BorrowChars(n)
  PROVE  CharInv'
<1> DEFINE r == [ZeroChars EXCEPT !.buffer = "caller", !.capacity = n, !.bytes = Unwritten(n)]
           o == Outcome("OK", r)
<1>1. n \in Nat /\ n > 0 /\ Call({o}, <<>>)
  BY CharsAssumption DEF BorrowChars
<1>2. Unwritten(n) \in [1 .. n -> Byte]
  BY <1>1, UnwrittenFacts
<1>3. /\ DOMAIN r = {"buffer", "owns", "length", "capacity", "bytes", "blocks"}
      /\ r.buffer = "caller" /\ r.capacity = n /\ r.bytes = Unwritten(n)
      /\ r.length = 0 /\ r.blocks = 0
  BY DEF ZeroChars
<1>4. r.owns = FALSE
  BY DEF ZeroChars
<1> HIDE DEF r
<1>5. r.owns \in BOOLEAN /\ ~r.owns
  BY <1>4, Zenon
<1>6. SoundChars(r)
  BY <1>1, <1>2, <1>3, <1>5 DEF SoundChars
<1>7. o.arr = r
  BY DEF Outcome
<1> HIDE DEF o
<1>8. Delivers(o, <<>>)
  BY <1>3, <1>6, <1>7 DEF Delivers
<1> DEFINE S == {o}
<1>9. Call(S, <<>>) /\ \A x \in S : Delivers(x, <<>>)
  BY <1>1, <1>8
<1> HIDE DEF S
<1>10. QED
  BY <1>9, EmptyText, CallStep

LEMMA FiniCharsInv ==
  ASSUME CharInv, FiniChars
  PROVE  CharInv'
<1> DEFINE o == Outcome("OK", Finalized(chars))
<1>1. SoundChars(chars) /\ Call({o}, <<>>)
  BY DEF CharInv, FiniChars
<1>2. SoundChars(Finalized(chars)) /\ Finalized(chars).length = 0
  BY <1>1, FinalizedFacts
<1>3. o.arr = Finalized(chars)
  BY DEF Outcome
<1> HIDE DEF o
<1>4. Delivers(o, <<>>)
  BY <1>2, <1>3 DEF Delivers
<1> DEFINE S == {o}
<1>5. Call(S, <<>>) /\ \A x \in S : Delivers(x, <<>>)
  BY <1>1, <1>4
<1> HIDE DEF S
<1>6. QED
  BY <1>5, EmptyText, CallStep

LEMMA MemcpyCharsInv ==
  ASSUME CharInv, NEW s \in Strings, MemcpyChars(s)
  PROVE  CharInv'
<1> DEFINE t == IF s = <<>> THEN <<>> ELSE NoString
<1>1. SoundChars(chars) /\ Usable(chars) /\ Call(WrittenAt(chars, 0, s), t)
  BY DEF CharInv, MemcpyChars, Memcpyed, InUse, Usable
<1>2. s \in Seq(Byte) /\ t \in Seq(Byte)
  BY StringsAreBytes, EmptyText
<1>3. \A o \in WrittenAt(chars, 0, s) : SoundChars(o.arr) /\ (o.ret = "OK" => o.arr.length = 0 + Len(s))
  <2>1. ASSUME NEW z \in Nat, NEW o \in WrittenAt(chars, z, s)
        PROVE  SoundChars(o.arr) /\ (o.ret = "OK" => o.arr.length = z + Len(s))
    BY <1>1, <1>2, WrittenFacts
  <2>2. QED
    BY <2>1
<1>4. CASE s = <<>>
  <2>1. t = <<>> /\ Len(s) = 0
    BY <1>4
  <2> HIDE DEF t
  <2>2. \A o \in WrittenAt(chars, 0, s) : Delivers(o, t)
    BY <1>3, <2>1 DEF Delivers
  <2>3. QED
    BY <1>1, <1>2, <2>2, CallStep
<1>5. CASE s # <<>>
  <2>1. t = NoString /\ Len(s) # 0
    BY <1>2, <1>5
  <2> HIDE DEF t
  <2>2. \A o \in WrittenAt(chars, 0, s) : Delivers(o, t)
    BY <1>2, <1>3, <2>1 DEF Delivers
  <2>3. QED
    BY <1>1, <1>2, <2>2, CallStep
<1>6. QED
  BY <1>4, <1>5

\* Text appended at the end of a string that is there, or to nothing.
LEMMA Appended ==
  ASSUME NEW a, SoundChars(a), Usable(a), NEW at \in Nat, NEW t \in Seq(Byte), NEW s \in Seq(Byte),
         Len(t) = at, \A i \in 1 .. at : i < a.capacity /\ a.bytes[i] = t[i],
         NEW o \in WrittenAt(a, at, Append(s, NUL))
  PROVE  SoundChars(o.arr) /\ (o.ret = "OK" => Usable(o.arr) /\ Holds(o.arr, t \o s))
<1> DEFINE q == Append(s, NUL)
           u == t \o s
<1>1. q \in Seq(Byte) /\ Len(q) = Len(s) + 1 /\ q[Len(s) + 1] = NUL /\ \A i \in 1 .. Len(s) : q[i] = s[i]
  BY TerminatedFacts
<1>2. /\ Len(u) = Len(t) + Len(s) /\ Len(s) \in Nat
      /\ \A i \in 1 .. Len(t) + Len(s) : u[i] = IF i <= Len(t) THEN t[i] ELSE s[i - Len(t)]
  BY ConcatProperties, LenProperties, Zenon
<1> HIDE DEF q, u
<1>3. o \in WrittenAt(a, at, q)
  BY DEF q
<1>4. /\ SoundChars(o.arr)
      /\ o.ret = "OK" =>
           /\ Usable(o.arr) /\ o.arr.length = at + Len(q)
           /\ \A i \in 1 .. at : i < a.capacity => o.arr.bytes[i] = a.bytes[i]
           /\ \A i \in 1 .. Len(q) : o.arr.bytes[at + i] = q[i]
  BY ZenonT(30), <1>1, <1>3, WrittenFacts
<1>5. ASSUME o.ret = "OK" PROVE Holds(o.arr, u)
  <2>1. o.arr.length = Len(u) + 1
    BY <1>1, <1>2, <1>4, <1>5
  <2>2. o.arr.length = at + (Len(s) + 1) /\ o.arr.bytes[at + (Len(s) + 1)] = NUL
    BY <1>1, <1>2, <1>4, <1>5
  <2>3. ASSUME NEW i \in 1 .. Len(u) PROVE o.arr.bytes[i] = u[i]
    <3>1. CASE i <= at
      <4>1. i \in 1 .. at /\ i \in 1 .. Len(t) + Len(s) /\ i <= Len(t)
        BY <1>2, <3>1
      <4>2. u[i] = t[i]
        BY <1>2, <4>1
      <4>3. i < a.capacity /\ a.bytes[i] = t[i]
        BY <4>1
      <4>4. o.arr.bytes[i] = a.bytes[i]
        BY <1>4, <1>5, <4>1, <4>3
      <4>5. QED
        BY <4>2, <4>3, <4>4
    <3>2. CASE ~(i <= at)
      <4>1. i - at \in 1 .. Len(s) /\ at + (i - at) = i /\ i - at \in 1 .. Len(q)
        BY <1>1, <1>2, <3>2
      <4>2. o.arr.bytes[i] = q[i - at]
        BY <1>4, <1>5, <4>1
      <4>3. QED
        BY <1>1, <1>2, <3>2, <4>1, <4>2
    <3>3. QED
      BY <3>1, <3>2
  <2>4. QED
    BY <2>1, <2>2, <2>3 DEF Holds
<1>6. QED
  BY <1>4, <1>5 DEF u

LEMMA HoldsDelivers ==
  ASSUME NEW o, NEW u \in Seq(Byte), SoundChars(o.arr), o.ret = "OK" => Holds(o.arr, u)
  PROVE  Delivers(o, u)
<1>1. Len(u) \in Nat
  OBVIOUS
<1>2. o.ret = "OK" => o.arr.length # 0
  BY <1>1 DEF Holds
<1>3. QED
  BY <1>2 DEF Delivers

LEMMA StrcpyCharsInv ==
  ASSUME CharInv, NEW s \in Strings, StrcpyChars(s)
  PROVE  CharInv'
<1>1. SoundChars(chars) /\ Usable(chars) /\ Call(WrittenAt(chars, 0, Append(s, NUL)), s)
  BY DEF CharInv, StrcpyChars, Strcpyed, Memcpyed, InUse, Usable
<1>2. s \in Seq(Byte)
  BY StringsAreBytes
<1>3. ASSUME NEW z \in Nat, z = 0, NEW e \in Seq(Byte), e = <<>>, NEW o \in WrittenAt(chars, z, Append(s, NUL))
      PROVE  SoundChars(o.arr) /\ (o.ret = "OK" => Holds(o.arr, s))
  <2>1. Len(e) = z /\ \A i \in 1 .. z : i < chars.capacity /\ chars.bytes[i] = e[i]
    BY <1>3
  <2>2. SoundChars(o.arr) /\ (o.ret = "OK" => Holds(o.arr, e \o s))
    BY <1>1, <1>2, <2>1, Appended
  <2>3. e \o s = s
    BY <1>2, <1>3, ConcatEmptySeq
  <2>4. QED
    BY <2>2, <2>3
<1>4. \A o \in WrittenAt(chars, 0, Append(s, NUL)) : SoundChars(o.arr) /\ (o.ret = "OK" => Holds(o.arr, s))
  BY <1>3, EmptyText
<1> DEFINE S == WrittenAt(chars, 0, Append(s, NUL))
<1> HIDE DEF S
<1>5. Call(S, s) /\ \A o \in S : Delivers(o, s)
  BY <1>1, <1>2, <1>4, HoldsDelivers DEF S
<1>6. QED
  BY <1>2, <1>5, CallStep

LEMMA StrncatCharsInv ==
  ASSUME CharInv, NEW s \in Strings, NEW n \in 0 .. Len(s), StrncatChars(s, n)
  PROVE  CharInv'
<1> DEFINE p == Prefix(s, n)
           at == CurrentStrlen(chars)
           S == WrittenAt(chars, at, Append(p, NUL))
           u == IF text = NoString THEN NoString ELSE text \o p
<1>1. SoundChars(chars) /\ Usable(chars) /\ Call(S, u) /\ text \in Seq(Byte)
  BY DEF CharInv, StrncatChars, Strcatted, InUse, Usable
<1>2. s \in Seq(Byte) /\ n \in Nat
  BY StringsAreBytes
<1>3. p \in Seq(Byte) /\ Append(p, NUL) \in Seq(Byte) /\ Len(Append(p, NUL)) = Len(p) + 1 /\ Len(p) \in Nat
  BY <1>2, PrefixFacts, TerminatedFacts
<1>4. chars.length \in Nat /\ chars.capacity \in Nat /\ chars.length <= chars.capacity
  BY <1>1, SoundCharsFacts
<1>5. at \in Nat /\ (chars.length > 0 => at = chars.length - 1) /\ (chars.length = 0 => at = 0)
  BY <1>4 DEF CurrentStrlen
<1> HIDE DEF p, at
<1>6. CASE text = NoString
  <2>1. u = NoString
    BY <1>6
  <2> HIDE DEF u
  <2>2. \A o \in S : SoundChars(o.arr) /\ (o.ret = "OK" => o.arr.length = at + Len(Append(p, NUL)))
    BY ZenonT(30), <1>1, <1>3, <1>5, WrittenFacts
  <2>3. \A o \in S : o.ret = "OK" => o.arr.length > 0
    BY <1>3, <1>5, <2>2
  <2>4. \A o \in S : Delivers(o, u)
    BY <2>1, <2>2, <2>3 DEF Delivers
  <2> HIDE DEF S
  <2>5. QED
    BY <1>1, <2>1, <2>4, EmptyText, CallStep
<1>7. CASE text # NoString
  <2>1. u = text \o p
    BY <1>7
  <2>2. u \in Seq(Byte)
    BY <1>1, <1>3, <2>1, ConcatProperties
  <2>3. Len(text) = at /\ \A i \in 1 .. at : i < chars.capacity /\ chars.bytes[i] = text[i]
    <3>1. CASE chars.length = 0
      <4>1. text = <<>> /\ at = 0
        BY <1>5, <3>1 DEF CharInv
      <4>2. QED
        BY <4>1
    <3>2. CASE chars.length > 0
      <4>1. Holds(chars, text)
        BY <1>7, <3>2 DEF CharInv
      <4>2. chars.length = Len(text) + 1 /\ Len(text) \in Nat /\ \A i \in 1 .. Len(text) : chars.bytes[i] = text[i]
        BY <1>1, <4>1 DEF Holds
      <4>3. Len(text) = at
        BY <1>4, <1>5, <3>2, <4>2
      <4>4. QED
        BY <1>4, <4>2, <4>3
    <3>3. QED
      BY <1>4, <3>1, <3>2
  <2> HIDE DEF u
  <2>4. \A o \in S : SoundChars(o.arr) /\ (o.ret = "OK" => Holds(o.arr, u))
    BY <1>1, <1>3, <1>5, <2>1, <2>3, Appended
  <2> HIDE DEF S
  <2>5. \A o \in S : Delivers(o, u)
    BY <2>2, <2>4, HoldsDelivers
  <2>6. QED
    BY <1>1, <2>2, <2>5, CallStep
<1>8. QED
  BY <1>6, <1>7

LEMMA VsprintfCharsInv ==
  ASSUME CharInv, NEW s \in Strings, VsprintfChars(s)
  PROVE  CharInv'
<1> DEFINE S == Formatted(chars, s)
<1>1. SoundChars(chars) /\ Usable(chars) /\ Call(S, s)
  BY DEF CharInv, VsprintfChars, InUse, Usable
<1>2. s \in Seq(Byte)
  BY StringsAreBytes
<1>3. \A o \in S : SoundChars(o.arr) /\ (o.ret = "OK" => Holds(o.arr, s))
  BY <1>1, <1>2, FormattedFacts
<1> HIDE DEF S
<1>4. \A o \in S : Delivers(o, s)
  BY <1>2, <1>3, HoldsDelivers
<1>5. QED
  BY <1>1, <1>2, <1>4, CallStep

LEMMA ResizeCharsInv ==
  ASSUME CharInv, NEW n \in Capacities, ResizeChars(n)
  PROVE  CharInv'
<1> DEFINE S == Resized(chars, n)
           u == IF n >= chars.length THEN text
                ELSE IF chars.owns \/ text = NoString THEN NoString ELSE Prefix(text, n - 1)
           k == AtMost(n, chars.capacity)
<1>1. SoundChars(chars) /\ Usable(chars) /\ Call(S, u) /\ text \in Seq(Byte) /\ n \in Nat
  BY CharsAssumption DEF CharInv, ResizeChars, InUse, Usable
<1>2. chars.length \in Nat /\ chars.capacity \in Nat /\ chars.length <= chars.capacity
  BY <1>1, SoundCharsFacts
<1>3. ASSUME NEW o \in S
      PROVE  /\ SoundChars(o.arr)
             /\ o.ret = "OK" =>
                  /\ n > 0 /\ o.arr.length = AtMost(n, chars.length)
                  /\ \A i \in 1 .. k - 1 : o.arr.bytes[i] = chars.bytes[i]
                  /\ \/ o.arr.bytes[k] = chars.bytes[k] /\ (chars.owns \/ n = chars.capacity)
                     \/ o.arr.bytes[k] = NUL /\ ~chars.owns
                     \/ chars.capacity = 0
  BY <1>1, ResizedFacts
<1>4. ASSUME n >= chars.length, NEW o \in S PROVE Delivers(o, text)
  <2>1. AtMost(n, chars.length) = chars.length
    BY <1>1, <1>2, <1>4 DEF AtMost
  <2>2. ASSUME o.ret = "OK", text # NoString, chars.length > 0 PROVE Holds(o.arr, text)
    <3>1. Holds(chars, text) /\ o.arr.length = chars.length
      BY <1>3, <1>4, <2>1, <2>2 DEF CharInv
    <3>2. /\ chars.length = Len(text) + 1 /\ chars.bytes[chars.length] = NUL /\ Len(text) \in Nat
          /\ \A i \in 1 .. Len(text) : chars.bytes[i] = text[i]
      BY <1>1, <3>1 DEF Holds
    <3>3. k \in Nat /\ chars.length <= k
      BY <1>1, <1>2, <1>4 DEF AtMost
    <3>4. o.arr.bytes[chars.length] = NUL
      <4>1. CASE chars.length = k
        BY <1>2, <1>3, <1>4, <2>2, <3>2, <4>1
      <4>2. CASE chars.length < k
        <5>1. chars.length \in 1 .. k - 1
          BY <1>2, <2>2, <3>3, <4>2
        <5>2. o.arr.bytes[chars.length] = chars.bytes[chars.length]
          BY <1>3, <1>4, <2>2, <5>1
        <5>3. QED
          BY <3>2, <5>2
      <4>3. QED
        BY <1>2, <3>3, <4>1, <4>2
    <3>5. ASSUME NEW i \in 1 .. Len(text) PROVE o.arr.bytes[i] = text[i]
      <4>1. i \in 1 .. k - 1
        BY <1>2, <3>2, <3>3
      <4>2. o.arr.bytes[i] = chars.bytes[i]
        BY <1>3, <1>4, <2>2, <4>1
      <4>3. QED
        BY <3>2, <4>2
    <3>6. QED
      BY <3>1, <3>2, <3>4, <3>5 DEF Holds
  <2>3. o.ret = "OK" => (o.arr.length = 0 => text = <<>>)
    BY <1>3, <1>4, <2>1 DEF CharInv
  <2>4. SoundChars(o.arr) /\ (o.ret = "OK" => o.arr.length = chars.length)
    BY <1>3, <1>4, <2>1
  <2>5. QED
    BY <2>2, <2>3, <2>4 DEF Delivers
<1>5. ASSUME ~(n >= chars.length), NEW o \in S, NEW t, t = NoString PROVE Delivers(o, t)
  <2>1. o.ret = "OK" => n > 0 /\ AtMost(n, chars.length) = n /\ o.arr.length = n
    BY <1>1, <1>2, <1>3, <1>5 DEF AtMost
  <2>2. SoundChars(o.arr)
    BY <1>3, <1>5
  <2>3. QED
    BY <1>5, <2>1, <2>2 DEF Delivers
<1>6. ASSUME ~(n >= chars.length), ~chars.owns, text # NoString, NEW o \in S,
             NEW m \in Nat, o.ret = "OK" => m = n - 1, NEW t, t = Prefix(text, m)
      PROVE  Delivers(o, t)
  <2>1. t \in Seq(Byte) /\ Len(t) = AtMost(m, Len(text)) /\ \A i \in 1 .. AtMost(m, Len(text)) : t[i] = text[i]
    BY <1>1, <1>6, PrefixFacts
  <2>2. SoundChars(o.arr)
    BY <1>3, <1>6
  <2>3. ASSUME o.ret = "OK" PROVE Holds(o.arr, t)
    <3>1. n > 0 /\ n < chars.length /\ m = n - 1
      BY <1>1, <1>2, <1>3, <1>6, <2>3
    <3>2. Holds(chars, text)
      <4>1. chars.length > 0
        BY <1>1, <1>2, <3>1
      <4>2. QED
        BY <1>6, <4>1 DEF CharInv
    <3>3. chars.length = Len(text) + 1 /\ Len(text) \in Nat /\ \A i \in 1 .. Len(text) : chars.bytes[i] = text[i]
      BY <1>1, <3>2 DEF Holds
    <3>4. k = n /\ AtMost(n, chars.length) = n /\ AtMost(m, Len(text)) = m
      BY <1>1, <1>2, <3>1, <3>3 DEF AtMost
    <3>5. o.arr.length = Len(t) + 1 /\ o.arr.length = n
      BY <1>1, <1>3, <1>6, <2>1, <2>3, <3>1, <3>4
    <3>6. o.arr.bytes[n] = NUL
      BY <1>1, <1>2, <1>3, <1>6, <2>3, <3>1, <3>4
    <3>7. \A i \in 1 .. Len(t) : o.arr.bytes[i] = t[i]
      <4> SUFFICES ASSUME NEW i \in 1 .. Len(t) PROVE o.arr.bytes[i] = t[i]
        OBVIOUS
      <4>1. i \in 1 .. k - 1 /\ i \in 1 .. Len(text) /\ i \in 1 .. AtMost(m, Len(text))
        BY <1>1, <2>1, <3>1, <3>3, <3>4
      <4>2. o.arr.bytes[i] = chars.bytes[i]
        BY <1>3, <1>6, <2>3, <4>1
      <4>3. QED
        BY <2>1, <3>3, <4>1, <4>2
    <3>8. QED
      BY <3>5, <3>6, <3>7 DEF Holds
  <2>4. QED
    BY <2>1, <2>2, <2>3, HoldsDelivers
<1> HIDE DEF S
<1>7. CASE n >= chars.length
  <2>1. u = text
    BY <1>7
  <2> HIDE DEF u
  <2>2. QED
    BY <1>1, <1>4, <1>7, <2>1, CallStep
<1>8. CASE ~(n >= chars.length) /\ (chars.owns \/ text = NoString)
  <2>1. u = NoString
    BY <1>8
  <2> HIDE DEF u
  <2>2. QED
    BY <1>1, <1>5, <1>8, <2>1, EmptyText, CallStep
<1>9. CASE ~(n >= chars.length) /\ ~chars.owns /\ text # NoString
  <2>1. u = Prefix(text, n - 1)
    BY <1>9
  <2> HIDE DEF u
  <2>2. CASE n > 0
    <3>1. n - 1 \in Nat
      BY <1>1, <2>2
    <3>2. \A o \in S : Delivers(o, u)
      BY <1>6, <1>9, <2>1, <3>1
    <3>3. u \in Seq(Byte)
      BY <1>1, <2>1, <3>1, PrefixFacts
    <3>4. QED
      BY <1>1, <3>2, <3>3, CallStep
  <2>3. CASE n = 0
    <3>1. \A o \in S : o.ret # "OK" /\ SoundChars(o.arr)
      BY <1>3, <2>3
    <3>2. u \in Seq(Byte)
      <4>1. u = <<>>
        BY <1>1, <2>1, <2>3 DEF Prefix, AtMost
      <4>2. QED
        BY <4>1, EmptyText
    <3>3. \A o \in S : Delivers(o, u)
      BY <3>1 DEF Delivers
    <3>4. QED
      BY <1>1, <3>2, <3>3, CallStep
  <2>4. QED
    BY <1>1, <2>2, <2>3
<1>10. QED
  BY <1>7, <1>8, <1>9

LEMMA CharInitInv == CharInit => CharInv
<1> SUFFICES ASSUME CharInit PROVE CharInv
  OBVIOUS
<1>1. chars = ZeroChars /\ text = <<>>
  BY DEF CharInit
<1>2. /\ DOMAIN ZeroChars = {"buffer", "owns", "length", "capacity", "bytes", "blocks"}
      /\ ZeroChars.buffer = "null" /\ ZeroChars.length = 0 /\ ZeroChars.capacity = 0
      /\ ZeroChars.bytes = <<>> /\ ZeroChars.blocks = 0
  BY DEF ZeroChars
<1>3. ZeroChars.owns = FALSE
  BY DEF ZeroChars
<1>4. ZeroChars.owns \in BOOLEAN
  BY <1>3, Zenon
<1>5. ZeroChars.bytes \in [1 .. 0 -> Byte]
  BY <1>2
<1>6. SoundChars(ZeroChars)
  BY <1>2, <1>4, <1>5 DEF SoundChars
<1>7. QED
  BY <1>1, <1>2, <1>6, EmptyText DEF CharInv

LEMMA CharInvariance == CharSpec => []CharInv
<1>1. CharInit => CharInv
  BY CharInitInv
<1>2. CharInv /\ [CharNext]_charVars => CharInv'
  <2> SUFFICES ASSUME CharInv, [CharNext]_charVars PROVE CharInv'
    OBVIOUS
  <2>1. CASE CharNext
    BY <2>1, InitCharsInv, BorrowCharsInv, ResizeCharsInv, FiniCharsInv, MemcpyCharsInv, StrcpyCharsInv,
       VsprintfCharsInv, StrncatCharsInv DEF CharNext
  <2>2. CASE UNCHANGED charVars
    <3>1. chars' = chars /\ text' = text
      BY <2>2 DEF charVars
    <3>2. QED
      BY <3>1 DEF CharInv
  <2>3. QED
    BY <2>1, <2>2
<1>3. QED
  BY <1>1, <1>2, PTL DEF CharSpec

LEMMA StringKept == CharInv => StringIsKept
<1> SUFFICES ASSUME CharInv PROVE StringIsKept
  OBVIOUS
<1>1. /\ chars.length \in Nat /\ chars.capacity \in Nat /\ chars.length <= chars.capacity
      /\ chars.bytes \in [1 .. chars.capacity -> Byte] /\ text \in Seq(Byte)
  BY SoundCharsFacts DEF CharInv
<1>2. ASSUME text # NoString, chars.length > 0
      PROVE  SubSeq(chars.bytes, 1, chars.length) = Append(text, NUL)
  <2> DEFINE b == SubSeq(chars.bytes, 1, chars.length)
             q == Append(text, NUL)
             n == chars.length
  <2>1. /\ n = Len(text) + 1 /\ chars.bytes[n] = NUL /\ Len(text) \in Nat
        /\ \A i \in 1 .. Len(text) : chars.bytes[i] = text[i]
    BY <1>1, <1>2 DEF CharInv, Holds
  <2>2. q \in Seq(Byte) /\ Len(q) = n /\ q[n] = NUL /\ \A i \in 1 .. Len(text) : q[i] = text[i]
    BY <1>1, <2>1, TerminatedFacts
  <2>3. \A i \in 1 .. n : chars.bytes[i] \in Byte
    BY <1>1
  <2>4. /\ b \in Seq(Byte) /\ Len(b) = IF 1 <= n THEN n - 1 + 1 ELSE 0
        /\ \A i \in 1 .. n - 1 + 1 : b[i] = chars.bytes[1 + i - 1]
    BY <1>1, <2>3, SubSeqProperties
  <2> HIDE DEF b, q
  <2>5. Len(b) = n /\ \A i \in 1 .. n : b[i] = chars.bytes[i]
    BY <1>1, <1>2, <2>4
  <2>6. \A i \in 1 .. n : q[i] = chars.bytes[i]
    <3> SUFFICES ASSUME NEW i \in 1 .. n PROVE q[i] = chars.bytes[i]
      OBVIOUS
    <3>1. CASE i = n
      BY <2>1, <2>2, <3>1
    <3>2. CASE i # n
      <4>1. i \in 1 .. Len(text)
        BY <2>1, <3>2
      <4>2. QED
        BY <2>1, <2>2, <4>1
    <3>3. QED
      BY <3>1, <3>2
  <2>7. b = q
    <3>1. Len(b) = Len(q) /\ \A i \in 1 .. Len(b) : b[i] = q[i]
      BY <2>2, <2>5, <2>6
    <3>2. QED
      BY <2>2, <2>4, <3>1, SeqEqual
  <2>8. QED
    BY <2>7 DEF b, q
<1>3. QED
  BY <1>1, <1>2 DEF StringIsKept

(* What was copied, formatted and appended to a char array is in its buffer, *)
(* terminated, after any sequence of calls and failed allocations.           *)
THEOREM TextKept == CharSpec => []StringIsKept
BY CharInvariance, StringKept, PTL

(* No block of a byte array or an array of strings is lost or freed twice,   *)
(* whichever calls are made and whichever allocations fail; nor is one of a  *)
(* char array, unless its buffer could not be enlarged and was freed while   *)
(* the array still points to it.                                             *)
THEOREM BuffersAccounted == CharSpec /\ BytesSpec /\ StrSpec => []BuffersAreAccounted
<1>1. CharInv => CharBlocksAreAccounted
  BY DEF CharInv, SoundChars, CharBlocksAreAccounted
<1>2. BytesInv => ByteBlocksAreAccounted
  BY DEF BytesInv
<1>3. CharInv /\ BytesInv /\ StrInv => BuffersAreAccounted
  BY <1>1, <1>2, StrAccounted DEF BuffersAreAccounted
<1>4. QED
  BY <1>3, CharInvariance, BytesInvariance, StrInvariance, PTL

-----------------------------------------------------------------------------
(* The console output handler.  What a line is made of: the recursion that   *)
(* concatenates the parts has a solution.                                    *)
LEMMA LeastOfAll ==
  ASSUME NEW S, S \subseteq Nat, S # {}
  PROVE  \E i \in S : \A j \in S : i <= j
<1> DEFINE R == OpToRel(<, Nat)
<1>1. IsWellFoundedOn(R, Nat)
  BY NatLessThanWellFounded
<1>2. \A i, j \in Nat : j < i => <<j, i>> \in R
  BY DEF OpToRel
<1> HIDE DEF R
<1>3. PICK i \in S : \A j \in S : ~(<<j, i>> \in R)
  BY <1>1, WFMin
<1>4. \A j \in S : ~(j < i)
  BY <1>2, <1>3
<1>5. \A j \in S : j \in Nat /\ i \in Nat
  OBVIOUS
<1>6. \A j \in S : i <= j
  BY <1>4, <1>5
<1>7. QED
  BY <1>6

Joined(f, e, n) == f = [k \in 0 .. n |-> IF k = 0 THEN <<>> ELSE f[k - 1] \o e[k]]
LEMMA JoinedExists ==
  ASSUME NEW e, NEW n \in Nat
  PROVE  \E f : Joined(f, e, n)
<1> DEFINE B == {m \in Nat : ~\E f : Joined(f, e, m)}
<1> SUFFICES ASSUME B # {} PROVE FALSE
  OBVIOUS
<1>1. PICK m \in B : \A j \in B : m <= j
  BY LeastOfAll
<1>2. m \in Nat /\ ~\E f : Joined(f, e, m)
  OBVIOUS
<1>3. CASE m = 0
  <2>1. Joined([k \in 0 .. 0 |-> <<>>], e, 0)
    <3>1. [k \in 0 .. 0 |-> <<>>] = [k \in 0 .. 0 |-> IF k = 0 THEN <<>> ELSE [j \in 0 .. 0 |-> <<>>][k - 1] \o e[k]]
      OBVIOUS
    <3>2. QED
      BY <3>1 DEF Joined
  <2>2. QED
    BY <1>2, <1>3, <2>1
<1>4. CASE m # 0
  <2>1. m - 1 \in Nat /\ m - 1 \notin B
    BY <1>1, <1>2, <1>4
  <2>2. PICK f : Joined(f, e, m - 1)
    BY <2>1
  <2> DEFINE g == [k \in 0 .. m |-> IF k = m THEN f[m - 1] \o e[m] ELSE f[k]]
             h == [k \in 0 .. m |-> IF k = 0 THEN <<>> ELSE g[k - 1] \o e[k]]
  <2>3. \A k \in 0 .. m - 1 : f[k] = IF k = 0 THEN <<>> ELSE f[k - 1] \o e[k]
    BY <2>2 DEF Joined
  <2>4. ASSUME NEW k \in 0 .. m PROVE g[k] = h[k]
    <3>1. CASE k = m
      <4>1. m - 1 \in 0 .. m /\ m - 1 # m
        BY <1>2, <1>4
      <4>2. g[m - 1] = f[m - 1] /\ g[k] = f[m - 1] \o e[m] /\ h[k] = g[m - 1] \o e[m]
        BY <1>2, <1>4, <3>1, <4>1
      <4>3. QED
        BY <4>2
    <3>2. CASE k # m /\ k = 0
      <4>1. 0 \in 0 .. m - 1 /\ f[0] = <<>>
        BY <1>2, <1>4, <2>3
      <4>2. QED
        BY <3>2, <4>1
    <3>3. CASE k # m /\ k # 0
      <4>1. k \in 0 .. m - 1 /\ k - 1 \in 0 .. m /\ k - 1 # m
        BY <1>2, <3>3
      <4>2. g[k] = f[k] /\ g[k - 1] = f[k - 1] /\ h[k] = g[k - 1] \o e[k]
        BY <3>3, <4>1
      <4>3. f[k] = f[k - 1] \o e[k]
        BY <2>3, <3>3, <4>1
      <4>4. QED
        BY <4>2, <4>3
    <3>4. QED
      BY <3>1, <3>2, <3>3
  <2>5. g = h
    <3>1. DOMAIN g = 0 .. m /\ DOMAIN h = 0 .. m
      OBVIOUS
    <3>2. QED
      BY <2>4
  <2>6. Joined(g, e, m)
    BY <2>5 DEF Joined
  <2>7. QED
    BY <1>2, <2>6
<1>5. QED
  BY <1>3, <1>4

LEMMA ConcatenatedIs ==
  ASSUME Len(whole[1]) \in Nat
  PROVE  \A k \in 0 .. Len(whole[1]) :
           Concatenated[k] = IF k = 0 THEN <<>> ELSE Concatenated[k - 1] \o ExpansionOf(whole[1][k])
<1> DEFINE e == [k \in 1 .. Len(whole[1]) |-> ExpansionOf(whole[1][k])]
           n == Len(whole[1])
<1>1. PICK f : Joined(f, e, n)
  BY JoinedExists
<1>2. f = [k \in 0 .. n |-> IF k = 0 THEN <<>> ELSE f[k - 1] \o ExpansionOf(whole[1][k])]
  <2>1. f = [k \in 0 .. n |-> IF k = 0 THEN <<>> ELSE f[k - 1] \o e[k]]
    BY <1>1 DEF Joined
  <2>2. \A k \in 0 .. n : k # 0 => e[k] = ExpansionOf(whole[1][k])
    OBVIOUS
  <2> HIDE DEF e, n
  <2>3. QED
    BY <2>1, <2>2
<1>3. Concatenated = [k \in 0 .. n |-> IF k = 0 THEN <<>> ELSE Concatenated[k - 1] \o ExpansionOf(whole[1][k])]
  BY <1>2 DEF Concatenated
<1> HIDE DEF n
<1>4. \A k \in 0 .. n : Concatenated[k] = IF k = 0 THEN <<>> ELSE Concatenated[k - 1] \o ExpansionOf(whole[1][k])
  BY <1>3
<1>5. QED
  BY <1>4 DEF n

\* The array has a text: it holds it, or it is empty and in its first buffer.
HasText(a, t) == Holds(a, t) \/ (a = OnStack /\ t = <<>>)

LEMMA OnStackFacts ==
  /\ SoundChars(OnStack) /\ Usable(OnStack) /\ OnStack.length = 0
  /\ OnStack.bytes[1] = NUL /\ OnStack.capacity = StackSize /\ StackSize \in Nat /\ StackSize >= 1
<1> DEFINE b == [k \in 1 .. StackSize |-> NUL]
           r == [ZeroChars EXCEPT !.buffer = "caller", !.capacity = StackSize, !.bytes = b]
<1>1. StackSize \in Nat /\ StackSize >= 1
  BY OutputAssumption
<1>2. b \in [1 .. StackSize -> Byte] /\ b[1] = NUL
  BY <1>1 DEF Byte
<1> HIDE DEF b
<1>3. /\ DOMAIN r = {"buffer", "owns", "length", "capacity", "bytes", "blocks"}
      /\ r.buffer = "caller" /\ r.capacity = StackSize /\ r.bytes = b
      /\ r.length = 0 /\ r.blocks = 0
  BY DEF ZeroChars
<1>4. r.owns = FALSE
  BY DEF ZeroChars
<1>5. OnStack = r
  BY DEF OnStack, b
<1> HIDE DEF r
<1>6. r.owns \in BOOLEAN /\ ~r.owns
  BY <1>4, Zenon
<1>7. SoundChars(r)
  BY <1>1, <1>2, <1>3, <1>6 DEF SoundChars
<1>8. QED
  BY <1>1, <1>2, <1>3, <1>5, <1>7 DEF Usable

LEMMA TextInBytes ==
  ASSUME NEW a, SoundChars(a), NEW t \in Seq(LineChars), HasText(a, t)
  PROVE  /\ Len(t) \in Nat /\ Len(t) < a.capacity /\ CurrentStrlen(a) = Len(t)
         /\ a.bytes[Len(t) + 1] = NUL /\ \A i \in 1 .. Len(t) : a.bytes[i] = t[i]
<1>1. a.capacity \in Nat /\ a.length \in Nat /\ a.length <= a.capacity /\ Len(t) \in Nat
  BY SoundCharsFacts
<1>2. CASE Holds(a, t)
  <2>1. a.length = Len(t) + 1 /\ a.bytes[a.length] = NUL /\ \A i \in 1 .. Len(t) : a.bytes[i] = t[i]
    BY <1>2 DEF Holds
  <2>2. CurrentStrlen(a) = Len(t)
    BY <1>1, <2>1 DEF CurrentStrlen
  <2>3. QED
    BY <1>1, <2>1, <2>2
<1>3. CASE a = OnStack /\ t = <<>>
  <2>1. Len(t) = 0 /\ CurrentStrlen(a) = 0
    BY <1>3, OnStackFacts DEF CurrentStrlen
  <2>2. QED
    BY <1>1, <1>3, <2>1, OnStackFacts
<1>4. QED
  BY <1>2, <1>3 DEF HasText

LEMMA TextIsRead ==
  ASSUME NEW a, SoundChars(a), NEW t \in Seq(LineChars), HasText(a, t)
  PROVE  CString(a.bytes) = t
<1> DEFINE b == a.bytes
           n == Len(t)
           E == {k \in DOMAIN b : b[k] = NUL}
<1>1. /\ n \in Nat /\ n < a.capacity /\ b[n + 1] = NUL /\ \A i \in 1 .. n : b[i] = t[i]
      /\ a.capacity \in Nat /\ b \in [1 .. a.capacity -> Byte]
  BY TextInBytes, SoundCharsFacts
<1>2. \A i \in 1 .. n : t[i] # NUL
  BY OutputAssumption
<1> DEFINE c == a.capacity
<1> HIDE DEF b, n, c
<1>3. n \in Nat /\ c \in Nat /\ n < c /\ b \in [1 .. c -> Byte] /\ b[n + 1] = NUL /\ \A i \in 1 .. n : b[i] = t[i] /\ b[i] # NUL
  BY <1>1, <1>2 DEF c
<1>4. n + 1 \in E /\ \A k \in E : n + 1 <= k
  BY <1>3
<1>5. (CHOOSE k \in E : \A j \in E : k <= j) = n + 1
  <2>1. E \subseteq Nat
    BY <1>3
  <2> HIDE DEF E
  <2>2. \A k \in E : (\A j \in E : k <= j) => k = n + 1
    BY <1>3, <1>4, <2>1
  <2>3. QED
    BY <1>4, <2>2
<1>6. CString(b) = SubSeq(b, 1, n)
  <2>1. E # {} /\ n + 1 - 1 = n
    BY <1>3, <1>4
  <2>2. CString(b) = IF E = {} THEN NoString ELSE SubSeq(b, 1, (CHOOSE k \in E : \A j \in E : k <= j) - 1)
    BY DEF CString
  <2> DEFINE x == CHOOSE k \in E : \A j \in E : k <= j
  <2>3. x = n + 1
    BY <1>5
  <2>4. CString(b) = SubSeq(b, 1, x - 1)
    BY <2>1, <2>2, Zenon
  <2> HIDE DEF E, x
  <2>5. x - 1 = n
    BY <1>3, <2>3
  <2>6. QED
    BY <2>4, <2>5, Zenon
<1>7. SubSeq(b, 1, n) = t
  <2>1. b \in Seq(Byte) /\ Len(b) = c
    BY <1>3
  <2>2. SubSeq(b, 1, n) = [i \in 1 .. n |-> b[i]]
    BY <1>3, <2>1
  <2>3. t = [i \in 1 .. n |-> t[i]]
    BY DEF n
  <2>4. QED
    BY <1>3, <2>2, <2>3
<1>8. QED
  BY <1>6, <1>7 DEF b

LEMMA LineGrows ==
  ASSUME NEW a, SoundChars(a), Usable(a), NEW t \in Seq(LineChars), HasText(a, t),
         NEW s \in Seq(LineChars), NEW o \in Strcatted(a, s)
  PROVE  SoundChars(o.arr) /\ (o.ret = "OK" => Usable(o.arr) /\ HasText(o.arr, t \o s))
<1>1. LineChars \subseteq Byte
  BY DEF Byte
<1>2. t \in Seq(Byte) /\ s \in Seq(Byte)
  BY <1>1, SeqMonotonic
<1>3. /\ Len(t) \in Nat /\ Len(t) < a.capacity /\ CurrentStrlen(a) = Len(t) /\ a.capacity \in Nat
      /\ \A i \in 1 .. Len(t) : a.bytes[i] = t[i]
  BY TextInBytes, SoundCharsFacts
<1>4. o \in WrittenAt(a, Len(t), Append(s, NUL))
  BY <1>3 DEF Strcatted
<1>5. \A i \in 1 .. Len(t) : i < a.capacity /\ a.bytes[i] = t[i]
  BY <1>3
<1>6. SoundChars(o.arr) /\ (o.ret = "OK" => Usable(o.arr) /\ Holds(o.arr, t \o s))
  BY <1>2, <1>3, <1>4, <1>5, Appended
<1>7. QED
  BY <1>6 DEF HasText

\* Up to where the line has come, stage by stage.
PartsDone(k) == line = SubSeq(whole[1], k + 1, Len(whole[1])) /\ HasText(outArray, Lead \o Concatenated[k])
Began ==
  /\ whole[1] \in Seq(LineParts) /\ whole[2] \in Strings /\ colorized \in BOOLEAN
OutInv ==
  /\ SoundChars(msgArray) /\ SoundChars(outArray)
  /\ outStage \in {"idle", "color", "message", "parts", "normal", "print", "fini", "done"}
  /\ outStage \notin {"fini", "done"} => printed = NoString /\ Usable(outArray)
  /\ outStage \in {"idle", "color"} => outArray = OnStack
  /\ outStage \in {"idle", "color", "message"} => msgArray = OnStack
  /\ outStage # "idle" => Began
  /\ outStage \in {"color", "message"} => line = whole[1]
  /\ outStage = "message" => HasText(outArray, Lead)
  /\ outStage = "parts" => Holds(msgArray, whole[2]) /\ \E k \in 0 .. Len(whole[1]) : PartsDone(k)
  /\ outStage = "print" => HasText(outArray, Lead \o Concatenated[Len(whole[1])] \o Trail)
  /\ LineIsWhole

LEMMA TextsAreChars ==
  /\ \A s \in Strings : s \in Seq(LineChars)
  /\ COLOR \in Seq(LineChars) /\ NORMAL \in Seq(LineChars) /\ <<>> \in Seq(LineChars)
  /\ \A p \in DOMAIN Expansion : Expansion[p] # NONE => Expansion[p] \in Seq(LineChars)
BY OutputAssumption DEF LineTexts

LEMMA LineText ==
  ASSUME Began
  PROVE  /\ Len(whole[1]) \in Nat /\ Lead \in Seq(LineChars) /\ Trail \in Seq(LineChars)
         /\ Concatenated[0] = <<>>
         /\ \A k \in 1 .. Len(whole[1]) : /\ ExpansionOf(whole[1][k]) \in Seq(LineChars)
                                          /\ Concatenated[k] = Concatenated[k - 1] \o ExpansionOf(whole[1][k])
         /\ \A k \in 0 .. Len(whole[1]) : Concatenated[k] \in Seq(LineChars)
<1>1. whole[1] \in Seq(LineParts) /\ whole[2] \in Strings /\ colorized \in BOOLEAN /\ Len(whole[1]) \in Nat
  BY DEF Began
<1>2. Lead \in Seq(LineChars) /\ Trail \in Seq(LineChars)
  BY TextsAreChars DEF Lead, Trail
<1> DEFINE n == Len(whole[1])
<1>3. \A k \in 0 .. n : Concatenated[k] = IF k = 0 THEN <<>> ELSE Concatenated[k - 1] \o ExpansionOf(whole[1][k])
  BY <1>1, ConcatenatedIs
<1>4. \A k \in 1 .. n : ExpansionOf(whole[1][k]) \in Seq(LineChars)
  <2> SUFFICES ASSUME NEW k \in 1 .. n PROVE ExpansionOf(whole[1][k]) \in Seq(LineChars)
    OBVIOUS
  <2>1. whole[1][k] \in LineParts
    BY <1>1, ElementOfSeq
  <2>2. QED
    BY <1>1, <2>1, TextsAreChars DEF ExpansionOf, LineParts
<1> HIDE DEF n
<1>5. n \in Nat
  BY <1>1 DEF n
<1>6. Concatenated[0] = <<>> /\ \A k \in 1 .. n : Concatenated[k] = Concatenated[k - 1] \o ExpansionOf(whole[1][k])
  <2>1. 0 \in 0 .. n /\ \A k \in 1 .. n : k \in 0 .. n /\ k # 0
    BY <1>5
  <2>2. QED
    BY <1>3, <2>1, Zenon DEF n
<1> DEFINE B == {k \in 0 .. n : Concatenated[k] \notin Seq(LineChars)}
<1>7. ASSUME B # {} PROVE FALSE
  <2>1. B \subseteq Nat
    OBVIOUS
  <2> HIDE DEF B
  <2>2. PICK m \in B : \A j \in B : m <= j
    BY <1>7, <2>1, LeastOfAll
  <2>3. m \in 0 .. n /\ Concatenated[m] \notin Seq(LineChars)
    BY <2>2 DEF B
  <2>4. m # 0
    BY <1>6, <2>3, TextsAreChars
  <2>5. m - 1 \in 0 .. n /\ m \in 1 .. n /\ ~(m <= m - 1)
    BY <1>5, <2>3, <2>4
  <2>6. m - 1 \notin B
    BY <2>2, <2>5
  <2>7. Concatenated[m - 1] \in Seq(LineChars)
    BY <2>5, <2>6 DEF B
  <2>8. Concatenated[m - 1] \o ExpansionOf(whole[1][m]) \in Seq(LineChars)
    BY <1>4, <2>5, <2>7, ConcatProperties, Zenon DEF n
  <2>9. QED
    BY <1>6, <2>3, <2>5, <2>8
<1>8. QED
  BY <1>1, <1>2, <1>4, <1>6, <1>7 DEF n

\* The stages, one after the other.  What does not change with a step:
LEMMA LineStays ==
  ASSUME whole' = whole, colorized' = colorized
  PROVE  Lead' = Lead /\ Trail' = Trail /\ Concatenated' = Concatenated /\ (Began' <=> Began)
BY DEF Lead, Trail, Concatenated, ExpansionOf, Began

LEMMA OutputStarts ==
  ASSUME OutInv, NEW hs \in LineFormats, NEW m \in Strings, NEW c \in BOOLEAN, StartOutput(hs, m, c)
  PROVE  OutInv'
<1>1. /\ outStage = "idle" /\ outStage' = "color" /\ line' = hs /\ whole' = <<hs, m>> /\ colorized' = c
      /\ msgArray' = msgArray /\ outArray' = outArray /\ printed' = printed
  BY DEF StartOutput
<1>2. printed = NoString /\ msgArray = OnStack /\ outArray = OnStack /\ SoundChars(OnStack) /\ Usable(OnStack)
  BY <1>1, OnStackFacts DEF OutInv
<1>3. Began' /\ line' = whole'[1]
  BY <1>1, OutputAssumption DEF Began
<1>4. LineIsWhole'
  BY <1>1, <1>2 DEF LineIsWhole
<1>5. QED
  BY <1>1, <1>2, <1>3, <1>4 DEF OutInv

\* Whatever is appended, the stage after it is the next one or the end.
LEMMA Failing ==
  ASSUME OutInv, outStage' = "fini", printed' = NoString, Began', SoundChars(msgArray'), SoundChars(outArray')
  PROVE  OutInv'
BY DEF OutInv, LineIsWhole

LEMMA ColorSet ==
  ASSUME OutInv, SetColor
  PROVE  OutInv'
<1>1. /\ outStage = "color" /\ line' = line /\ whole' = whole /\ colorized' = colorized
      /\ msgArray' = msgArray /\ printed' = printed
  BY DEF SetColor
<1>2. /\ printed = NoString /\ msgArray = OnStack /\ outArray = OnStack /\ line = whole[1] /\ Began
      /\ SoundChars(OnStack) /\ Usable(OnStack)
  BY <1>1, OnStackFacts DEF OutInv
<1>3. Lead' = Lead /\ Began'
  BY <1>1, <1>2, LineStays
<1>4. ASSUME outStage' = "message", SoundChars(outArray'), Usable(outArray'), HasText(outArray', Lead)
      PROVE  OutInv'
  <2>1. HasText(outArray, Lead)'
    BY <1>3, <1>4 DEF HasText, Holds, OnStack
  <2>2. LineIsWhole'
    BY <1>1, <1>2, <1>4 DEF LineIsWhole
  <2>3. QED
    BY <1>1, <1>2, <1>3, <1>4, <2>1, <2>2 DEF OutInv
<1>5. CASE colorized
  <2>1. PICK o \in Strcatted(outArray, COLOR) : outArray' = o.arr /\ outStage' = StageAfter(o.ret, "message")
    BY <1>5 DEF SetColor, AppendToLine
  <2> DEFINE t == <<>>
  <2>2. t \in Seq(LineChars) /\ HasText(outArray, t) /\ COLOR \in Seq(LineChars)
    BY <1>2, TextsAreChars DEF HasText
  <2>3. t \o COLOR = Lead
    BY <1>5, <2>2, ConcatEmptySeq, Zenon DEF Lead
  <2> HIDE DEF t
  <2>4. SoundChars(o.arr) /\ (o.ret = "OK" => Usable(o.arr) /\ HasText(o.arr, t \o COLOR))
    BY <1>2, <2>1, <2>2, LineGrows
  <2>5. CASE o.ret = "OK"
    BY <1>4, <2>1, <2>3, <2>4, <2>5 DEF StageAfter
  <2>6. CASE o.ret # "OK"
    BY <1>1, <1>2, <1>3, <2>1, <2>4, <2>6, Failing DEF StageAfter
  <2>7. QED
    BY <2>5, <2>6
<1>6. CASE ~colorized
  <2>1. outStage' = "message" /\ outArray' = outArray /\ Lead = <<>>
    BY <1>6 DEF SetColor, Lead
  <2>2. HasText(outArray', Lead)
    BY <1>2, <2>1 DEF HasText
  <2>3. QED
    BY <1>2, <1>4, <2>1, <2>2
<1>7. QED
  BY <1>5, <1>6

LEMMA MessageFormatted ==
  ASSUME OutInv, FormatUserMessage
  PROVE  OutInv'
<1>1. /\ outStage = "message" /\ line' = line /\ whole' = whole /\ colorized' = colorized
      /\ outArray' = outArray /\ printed' = printed
  BY DEF FormatUserMessage
<1>2. /\ printed = NoString /\ msgArray = OnStack /\ line = whole[1] /\ Began /\ HasText(outArray, Lead)
      /\ SoundChars(outArray) /\ Usable(outArray) /\ SoundChars(msgArray) /\ Usable(msgArray)
  BY <1>1, OnStackFacts DEF OutInv
<1>3. Lead' = Lead /\ Concatenated' = Concatenated /\ Began'
  BY <1>1, <1>2, LineStays
<1>4. PICK o \in Formatted(msgArray, whole[2]) : msgArray' = o.arr /\ outStage' = StageAfter(o.ret, "parts")
  BY DEF FormatUserMessage
<1>5. SoundChars(o.arr) /\ (o.ret = "OK" => Holds(o.arr, whole[2]))
  <2>1. whole[2] \in Seq(Byte)
    BY <1>2, StringsAreBytes DEF Began
  <2>2. QED
    BY <1>2, <1>4, <2>1, FormattedFacts
<1>6. CASE o.ret # "OK"
  BY <1>1, <1>2, <1>3, <1>4, <1>5, <1>6, Failing DEF StageAfter
<1>7. CASE o.ret = "OK"
  <2>1. outStage' = "parts" /\ Holds(msgArray, whole[2])'
    BY <1>1, <1>4, <1>5, <1>7 DEF StageAfter, Holds
  <2>2. whole[1] \in Seq(LineParts) /\ Len(whole[1]) \in Nat /\ Lead \in Seq(LineChars) /\ Concatenated[0] = <<>>
    BY <1>2, LineText DEF Began
  <2>3. Lead \o Concatenated[0] = Lead
    BY <2>2, ConcatEmptySeq, Zenon
  <2>4. SubSeq(whole[1], 0 + 1, Len(whole[1])) = whole[1]
    BY <2>2
  <2>5. PartsDone(0)'
    BY <1>1, <1>2, <1>3, <2>3, <2>4 DEF PartsDone, HasText, Holds, OnStack
  <2>6. 0 \in 0 .. Len(whole'[1])
    BY <1>1, <2>2
  <2>7. LineIsWhole'
    BY <1>1, <1>2, <2>1 DEF LineIsWhole
  <2>8. QED
    BY <1>1, <1>2, <1>3, <1>4, <1>5, <2>1, <2>5, <2>6, <2>7 DEF OutInv
<1>8. QED
  BY <1>6, <1>7

LEMMA PartExpanded ==
  ASSUME OutInv, ExpandPart
  PROVE  OutInv'
<1>1. /\ outStage = "parts" /\ line # <<>> /\ line' = Tail(line) /\ whole' = whole /\ colorized' = colorized
      /\ msgArray' = msgArray /\ printed' = printed
  BY DEF ExpandPart
<1>2. /\ printed = NoString /\ Began /\ Holds(msgArray, whole[2])
      /\ SoundChars(outArray) /\ Usable(outArray) /\ SoundChars(msgArray)
  BY <1>1 DEF OutInv
<1>3. Lead' = Lead /\ Concatenated' = Concatenated /\ Began'
  BY <1>1, <1>2, LineStays
<1> DEFINE w == whole[1]
           n == Len(w)
<1>4. PICK k \in 0 .. n : PartsDone(k)
  BY <1>1 DEF OutInv
<1>5. /\ w \in Seq(LineParts) /\ n \in Nat /\ Lead \in Seq(LineChars)
      /\ \A i \in 0 .. n : Concatenated[i] \in Seq(LineChars)
      /\ \A i \in 1 .. n : ExpansionOf(w[i]) \in Seq(LineChars) /\ Concatenated[i] = Concatenated[i - 1] \o ExpansionOf(w[i])
  BY <1>2, LineText DEF Began
<1>6. k < n
  <2>1. line = SubSeq(w, k + 1, n)
    BY <1>4 DEF PartsDone
  <2>2. k = n => line = <<>>
    BY <1>5, <2>1
  <2>3. QED
    BY <1>1, <1>4, <1>5, <2>2
<1> DEFINE p == w[k + 1]
<1>7. k + 1 \in 1 .. n /\ k + 1 \in 0 .. n /\ k + 1 - 1 = k
  BY <1>5, <1>6
<1>8. Head(line) = p /\ Tail(line) = SubSeq(w, k + 1 + 1, n)
  <2>1. line = SubSeq(w, k + 1, n) /\ n \in k + 1 .. n
    BY <1>4, <1>5, <1>6 DEF PartsDone
  <2>2. QED
    BY <1>5, <1>7, <2>1, HeadTailOfSubSeq, Zenon
<1>9. Concatenated[k + 1] = Concatenated[k] \o ExpansionOf(p) /\ ExpansionOf(p) \in Seq(LineChars) /\ p \in LineParts
  <2> PICK j : j = k + 1
    OBVIOUS
  <2> HIDE DEF w, n
  <2>1. j \in 1 .. n /\ j - 1 = k /\ w[j] = p
    BY <1>7
  <2>2. ExpansionOf(w[j]) \in Seq(LineChars) /\ Concatenated[j] = Concatenated[j - 1] \o ExpansionOf(w[j])
    BY <1>5, <2>1, Zenon
  <2>3. p \in LineParts
    <3>1. j \in 1 .. Len(w)
      BY <2>1 DEF n
    <3>2. QED
      BY <1>5, <2>1, <3>1, ElementOfSeq, Zenon
  <2>4. QED
    BY <2>1, <2>2, <2>3, Zenon
<1> HIDE DEF p
<1>10. /\ Lead \o Concatenated[k] \in Seq(LineChars) /\ HasText(outArray, Lead \o Concatenated[k])
       /\ Lead \o Concatenated[k + 1] = (Lead \o Concatenated[k]) \o ExpansionOf(p)
  <2>1. Concatenated[k] \in Seq(LineChars)
    BY <1>4, <1>5, Zenon
  <2>2. Lead \o Concatenated[k] \in Seq(LineChars)
    BY <1>5, <2>1, ConcatProperties, Zenon
  <2>3. (Lead \o Concatenated[k]) \o ExpansionOf(p) = Lead \o (Concatenated[k] \o ExpansionOf(p))
    <3>1. ExpansionOf(p) \in Seq(LineChars) /\ Lead \in Seq(LineChars)
      BY <1>5, <1>9
    <3> DEFINE x == Lead
               y == Concatenated[k]
               z == ExpansionOf(p)
    <3>2. x \in Seq(LineChars) /\ y \in Seq(LineChars) /\ z \in Seq(LineChars)
      BY <2>1, <3>1
    <3> HIDE DEF x, y, z
    <3>3. (x \o y) \o z = x \o (y \o z)
      BY <3>2, ConcatAssociative
    <3>4. QED
      BY <3>3 DEF x, y, z
  <2>4. QED
    BY <1>4, <1>9, <2>2, <2>3 DEF PartsDone
<1> HIDE DEF w, n, p
<1>11. ASSUME outStage' = "parts", SoundChars(outArray'), Usable(outArray'), HasText(outArray', Lead \o Concatenated[k + 1])
       PROVE  OutInv'
  <2>1. PartsDone(k + 1)'
    BY <1>1, <1>3, <1>8, <1>11 DEF PartsDone, HasText, Holds, OnStack, w, n
  <2>2. Holds(msgArray, whole[2])' /\ k + 1 \in 0 .. Len(whole'[1])
    BY <1>1, <1>2, <1>7 DEF Holds, w, n
  <2>3. LineIsWhole'
    BY <1>1, <1>2, <1>11 DEF LineIsWhole
  <2>4. QED
    BY <1>1, <1>2, <1>3, <1>11, <2>1, <2>2, <2>3 DEF OutInv
<1>12. CASE p # MESSAGE /\ Expansion[p] = NONE
  <2>1. outStage' = "parts" /\ outArray' = outArray
    BY <1>1, <1>8, <1>12 DEF ExpandPart
  <2>2. ExpansionOf(p) = <<>>
    BY <1>12 DEF ExpansionOf
  <2>3. Lead \o Concatenated[k + 1] = Lead \o Concatenated[k]
    BY <1>10, <2>2, ConcatEmptySeq, Zenon
  <2>4. QED
    BY <1>2, <1>10, <1>11, <2>1, <2>3
<1>13. CASE ~(p # MESSAGE /\ Expansion[p] = NONE)
  <2> DEFINE s == IF p = MESSAGE THEN CString(msgArray.bytes) ELSE Expansion[p]
  <2>1. PICK o \in Strcatted(outArray, s) : outArray' = o.arr /\ outStage' = StageAfter(o.ret, "parts")
    <3>1. AppendToLine(s, "parts")
      BY <1>8, <1>13 DEF ExpandPart
    <3> HIDE DEF s
    <3>2. QED
      BY <3>1 DEF AppendToLine
  <2>2. s = ExpansionOf(p)
    <3>1. CASE p = MESSAGE
      <4>1. whole[2] \in Seq(LineChars) /\ HasText(msgArray, whole[2])
        BY <1>2, TextsAreChars DEF Began, HasText
      <4>2. CString(msgArray.bytes) = whole[2]
        BY <1>2, <4>1, TextIsRead
      <4>3. QED
        BY <3>1, <4>2 DEF ExpansionOf
    <3>2. CASE p # MESSAGE
      BY <1>13, <3>2 DEF ExpansionOf
    <3>3. QED
      BY <3>1, <3>2
  <2> HIDE DEF s
  <2>3. SoundChars(o.arr) /\ (o.ret = "OK" => Usable(o.arr) /\ HasText(o.arr, (Lead \o Concatenated[k]) \o s))
    BY <1>2, <1>9, <1>10, <2>1, <2>2, LineGrows
  <2>4. CASE o.ret = "OK"
    BY <1>10, <1>11, <2>1, <2>2, <2>3, <2>4 DEF StageAfter
  <2>5. CASE o.ret # "OK"
    BY <1>1, <1>2, <1>3, <2>1, <2>3, <2>5, Failing DEF StageAfter
  <2>6. QED
    BY <2>4, <2>5
<1>14. QED
  BY <1>12, <1>13

LEMMA NormalSet ==
  ASSUME OutInv, SetNormal
  PROVE  OutInv'
<1>1. /\ outStage = "parts" /\ line = <<>> /\ line' = line /\ whole' = whole /\ colorized' = colorized
      /\ msgArray' = msgArray /\ printed' = printed
  BY DEF SetNormal
<1>2. /\ printed = NoString /\ Began /\ SoundChars(outArray) /\ Usable(outArray) /\ SoundChars(msgArray)
  BY <1>1 DEF OutInv
<1>3. Lead' = Lead /\ Trail' = Trail /\ Concatenated' = Concatenated /\ Began'
  BY <1>1, <1>2, LineStays
<1> DEFINE w == whole[1]
           n == Len(w)
           t == Lead \o Concatenated[n]
<1>4. PICK k \in 0 .. n : PartsDone(k)
  BY <1>1 DEF OutInv
<1>5. /\ w \in Seq(LineParts) /\ n \in Nat /\ Lead \in Seq(LineChars) /\ Trail \in Seq(LineChars)
      /\ Concatenated[n] \in Seq(LineChars)
  <2>1. /\ w \in Seq(LineParts) /\ n \in Nat /\ Lead \in Seq(LineChars) /\ Trail \in Seq(LineChars)
        /\ \A i \in 0 .. n : Concatenated[i] \in Seq(LineChars)
    BY <1>2, LineText DEF Began
  <2> HIDE DEF n
  <2>2. n \in 0 .. n
    BY <2>1
  <2>3. QED
    BY <2>1, <2>2, Zenon
<1>6. k = n
  <2>1. <<>> = SubSeq(w, k + 1, n)
    BY <1>1, <1>4 DEF PartsDone
  <2>2. ASSUME k < n  PROVE SubSeq(w, k + 1, n) # <<>>
    <3>1. k + 1 \in 1 .. n /\ n \in k + 1 .. n
      BY <1>4, <1>5, <2>2
    <3>2. Len(SubSeq(w, k + 1, n)) = n - k
      BY <1>4, <1>5, <3>1
    <3> HIDE DEF w, n
    <3>3. n - k # 0 /\ Len(<<>>) = 0
      BY <1>4, <1>5, <2>2
    <3>4. QED
      BY <3>2, <3>3, Zenon
  <2>3. QED
    BY <1>4, <1>5, <2>1, <2>2
<1>7. t \in Seq(LineChars) /\ HasText(outArray, t)
  <2>1. t \in Seq(LineChars)
    BY <1>5, ConcatProperties, Zenon
  <2>2. QED
    BY <1>4, <1>6, <2>1 DEF PartsDone
<1> HIDE DEF w, n, t
<1>8. ASSUME outStage' = "print", SoundChars(outArray'), Usable(outArray'), HasText(outArray', t \o Trail)
      PROVE  OutInv'
  <2>1. HasText(outArray, Lead \o Concatenated[Len(whole[1])] \o Trail)'
    BY <1>1, <1>3, <1>8 DEF HasText, Holds, OnStack, w, n, t
  <2>2. LineIsWhole'
    BY <1>1, <1>2, <1>8 DEF LineIsWhole
  <2>3. QED
    BY <1>1, <1>2, <1>3, <1>8, <2>1, <2>2 DEF OutInv
<1>9. CASE colorized
  <2>1. PICK o \in Strcatted(outArray, NORMAL) : outArray' = o.arr /\ outStage' = StageAfter(o.ret, "print")
    BY <1>9 DEF SetNormal, AppendToLine
  <2>2. Trail = NORMAL
    BY <1>9 DEF Trail
  <2>3. SoundChars(o.arr) /\ (o.ret = "OK" => Usable(o.arr) /\ HasText(o.arr, t \o Trail))
    BY <1>2, <1>5, <1>7, <2>1, <2>2, LineGrows
  <2>4. CASE o.ret = "OK"
    BY <1>8, <2>1, <2>3, <2>4 DEF StageAfter
  <2>5. CASE o.ret # "OK"
    BY <1>1, <1>2, <1>3, <2>1, <2>3, <2>5, Failing DEF StageAfter
  <2>6. QED
    BY <2>4, <2>5
<1>10. CASE ~colorized
  <2>1. outStage' = "print" /\ outArray' = outArray /\ Trail = <<>>
    BY <1>10 DEF SetNormal, Trail
  <2>2. t \o Trail = t
    BY <1>7, <2>1, ConcatEmptySeq, Zenon
  <2>3. QED
    BY <1>2, <1>7, <1>8, <2>1, <2>2
<1>11. QED
  BY <1>9, <1>10

LEMMA LinePrinted ==
  ASSUME OutInv, PrintLine
  PROVE  OutInv'
<1>1. /\ outStage = "print" /\ outStage' = "fini" /\ printed' = CString(outArray.bytes) /\ line' = line
      /\ whole' = whole /\ colorized' = colorized /\ msgArray' = msgArray /\ outArray' = outArray
  BY DEF PrintLine
<1> DEFINE c == Concatenated[Len(whole[1])]
           t == Lead \o c \o Trail
<1>2. Began /\ SoundChars(outArray) /\ SoundChars(msgArray) /\ HasText(outArray, t)
  BY <1>1 DEF OutInv
<1>3. Lead' = Lead /\ Trail' = Trail /\ Concatenated' = Concatenated /\ Began'
  BY <1>1, <1>2, LineStays
<1>4. t \in Seq(LineChars)
  <2>1. Lead \in Seq(LineChars) /\ Trail \in Seq(LineChars) /\ c \in Seq(LineChars)
    BY <1>2, LineText
  <2> HIDE DEF c
  <2>2. Lead \o c \in Seq(LineChars)
    BY <2>1, ConcatProperties, Zenon
  <2>3. QED
    BY <2>1, <2>2, ConcatProperties, Zenon
<1>5. CString(outArray.bytes) = t
  BY <1>2, <1>4, TextIsRead
<1>6. LineIsWhole'
  BY <1>1, <1>3, <1>5 DEF LineIsWhole
<1>7. QED
  BY <1>1, <1>2, <1>3, <1>6 DEF OutInv

LEMMA ArraysFinalized ==
  ASSUME OutInv, FiniArrays
  PROVE  OutInv'
<1>1. /\ outStage = "fini" /\ outStage' = "done" /\ msgArray' = Finalized(msgArray) /\ outArray' = Finalized(outArray)
      /\ line' = line /\ whole' = whole /\ colorized' = colorized /\ printed' = printed
  BY DEF FiniArrays
<1>2. Began /\ SoundChars(outArray) /\ SoundChars(msgArray) /\ LineIsWhole
  BY <1>1 DEF OutInv
<1>3. Lead' = Lead /\ Trail' = Trail /\ Concatenated' = Concatenated /\ Began'
  BY <1>1, <1>2, LineStays
<1>4. SoundChars(msgArray') /\ SoundChars(outArray') /\ msgArray'.blocks = 0 /\ outArray'.blocks = 0
  BY <1>1, <1>2, FinalizedFacts
<1>5. LineIsWhole'
  BY <1>1, <1>2, <1>3, <1>4 DEF LineIsWhole
<1>6. QED
  BY <1>1, <1>3, <1>4, <1>5 DEF OutInv

(* Whatever the format, the message and the sizes of the buffers, and        *)
(* whichever step fails: a line that is printed is the whole line, and both  *)
(* arrays are freed in the end.                                              *)
THEOREM LinesAreWhole == OutSpec => []LineIsWhole
<1>1. OutInit => OutInv
  BY OnStackFacts DEF OutInit, OutInv, LineIsWhole
<1>2. OutInv /\ [OutNext]_outVars => OutInv'
  <2> SUFFICES ASSUME OutInv, [OutNext]_outVars PROVE OutInv'
    OBVIOUS
  <2>1. ASSUME NEW hs \in LineFormats, NEW m \in Strings, NEW c \in BOOLEAN, StartOutput(hs, m, c) PROVE OutInv'
    BY <2>1, OutputStarts
  <2>2. CASE SetColor
    BY <2>2, ColorSet
  <2>3. CASE FormatUserMessage
    BY <2>3, MessageFormatted
  <2>4. CASE ExpandPart
    BY <2>4, PartExpanded
  <2>5. CASE SetNormal
    BY <2>5, NormalSet
  <2>6. CASE PrintLine
    BY <2>6, LinePrinted
  <2>7. CASE FiniArrays
    BY <2>7, ArraysFinalized
  <2>8. CASE UNCHANGED outVars
    <3>1. /\ outStage' = outStage /\ line' = line /\ whole' = whole /\ colorized' = colorized
          /\ msgArray' = msgArray /\ outArray' = outArray /\ printed' = printed
      BY <2>8 DEF outVars
    <3>2. Lead' = Lead /\ Trail' = Trail /\ Concatenated' = Concatenated /\ (Began' <=> Began)
      BY <3>1, LineStays
    <3>3. LineIsWhole'
      BY <3>1, <3>2 DEF OutInv, LineIsWhole
    <3>4. QED
      BY <3>1, <3>2, <3>3 DEF OutInv, PartsDone, HasText, Holds, OnStack
  <2>9. QED
    BY <2>1, <2>2, <2>3, <2>4, <2>5, <2>6, <2>7, <2>8 DEF OutNext
<1>3. OutInv => LineIsWhole
  BY DEF OutInv
<1>4. QED
  BY <1>1, <1>2, <1>3, PTL DEF OutSpec
=============================================================================
