---------------------------- MODULE Uint8Array -----------------------------
(***************************************************************************)
(* src/uint8_array.c: a buffer of bytes that is always the array's own.    *)
(* The bytes are the caller's business: it writes them and sets            *)
(* buffer_length.                                                          *)
(***************************************************************************)
EXTENDS Integers

CONSTANTS
  ByteCapacities,   \* the sizes callers ask for
  MaxBytes          \* bound: a larger block cannot be allocated

ASSUME BytesAssumption == ByteCapacities \subseteq Nat

VARIABLES
  bytes,       \* the rcutils_uint8_array_t; buffer is "null", "heap" or "dangling"
  byteBlocks   \* blocks allocated and not freed

byteVars == <<bytes, byteBlocks>>

BytesOf(buffer, length, capacity) == [buffer |-> buffer, length |-> length, capacity |-> capacity]
NoBytes == BytesOf("null", 0, 0)
Held(b) == IF b.buffer = "heap" THEN 1 ELSE 0
BytesInit == bytes = NoBytes /\ byteBlocks = 0

\* rcutils_uint8_array_init: without a capacity the buffer stays NULL
InitBytes(n) ==
  /\ bytes.buffer = "null"
  /\ \/ n <= MaxBytes /\ bytes' = BytesOf(IF n > 0 THEN "heap" ELSE "null", 0, n)
     \/ n > 0 /\ bytes' = NoBytes
  /\ byteBlocks' = byteBlocks + Held(bytes')
\* The caller stores n bytes.
FillBytes(n) ==
  /\ n <= bytes.capacity /\ bytes' = [bytes EXCEPT !.length = n]
  /\ UNCHANGED byteBlocks
\* rcutils_uint8_array_fini
FiniBytes == bytes' = NoBytes /\ byteBlocks' = byteBlocks - Held(bytes)

(* rcutils_uint8_array_resize: rcutils_reallocf has freed what it could not  *)
(* enlarge, and the array forgets it                                         *)
\* Mutant: as in char_array.c, the array keeps the pointer.
KeptAfterFailure == [bytes EXCEPT !.buffer = IF @ = "heap" THEN "dangling" ELSE @]
AfterFailure == NoBytes
ResizeBytes(n) ==
  /\ n > 0 /\ n # bytes.capacity
  /\ \/ /\ n <= MaxBytes
        /\ bytes' = BytesOf("heap", IF n < bytes.length THEN n ELSE bytes.length, n)
        /\ byteBlocks' = byteBlocks + 1 - Held(bytes)
     \/ /\ bytes' = AfterFailure
        /\ byteBlocks' = byteBlocks - Held(bytes)
\* A size of zero is rejected, and the size it has is left alone.
ResizeBytesIgnored(n) == n \in {0, bytes.capacity} /\ UNCHANGED byteVars

BytesNext ==
  \/ \E n \in ByteCapacities : \/ InitBytes(n) \/ FillBytes(n)
                               \/ ResizeBytes(n) \/ ResizeBytesIgnored(n)
  \/ FiniBytes
BytesSpec == BytesInit /\ [][BytesNext]_byteVars

-----------------------------------------------------------------------------
(* Whatever fails, the array knows whether it has a block, and its length    *)
(* and capacity are those of the block.                                      *)
ByteBlocksAreAccounted ==
  /\ byteBlocks = Held(bytes)
  /\ bytes.length <= bytes.capacity
  /\ bytes.capacity > 0 <=> bytes.buffer = "heap"
=============================================================================
