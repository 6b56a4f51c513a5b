------------------------------ MODULE Buffers ------------------------------
(***************************************************************************)
(* The three arrays that own blocks of memory: char arrays, byte arrays    *)
(* and arrays of strings.  They share nothing but allocators.              *)
(***************************************************************************)
EXTENDS CharArray, Uint8Array, StringArray

(* The buffers of char arrays, byte arrays and string arrays: the blocks     *)
(* held are those the arrays point to, so that none is lost or freed twice,  *)
(* whichever allocation fails.  The exception is a char array whose own      *)
(* buffer could not be enlarged: char_array.c:105-109 leaves it pointing to  *)
(* the buffer that rcutils_reallocf freed, and fini frees it a second time.  *)
(* Byte arrays and string arrays have no such exception.                     *)
BuffersAreAccounted == CharBlocksAreAccounted /\ ByteBlocksAreAccounted /\ StringBlocksAreAccounted
=============================================================================
