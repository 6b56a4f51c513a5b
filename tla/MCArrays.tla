------------------------------ MODULE MCArrays ------------------------------
(***************************************************************************)
(* The arrays, which share no state but allocators: each of them is used   *)
(* while the others are as they were in the beginning.                     *)
(***************************************************************************)
EXTENDS ArrayList, LogOutput, Buffers

MCStrings == {<<>>, <<"a">>, <<"b", "a">>}
MCLineFormats == {<<>>, <<"name">>, <<"severity", "message">>, <<"message", "name", "severity", "message">>}
MCExpansion == [name |-> NONE, severity |-> <<"s">>]
MCColor == <<"c">>
MCNormal == <<"n">>

ArraysInit == Init /\ CharInit /\ OutInit /\ BytesInit /\ StrInit
ArraysNext ==
  \/ CharInit /\ OutInit /\ BytesInit /\ StrInit /\ Next /\ UNCHANGED <<charVars, outVars, byteVars, strVars>>
  \/ Init /\ OutInit /\ BytesInit /\ StrInit /\ CharNext /\ UNCHANGED <<vars, outVars, byteVars, strVars>>
  \/ Init /\ CharInit /\ BytesInit /\ StrInit /\ OutNext /\ UNCHANGED <<vars, charVars, byteVars, strVars>>
  \/ Init /\ CharInit /\ OutInit /\ StrInit /\ BytesNext /\ UNCHANGED <<vars, charVars, outVars, strVars>>
  \/ Init /\ CharInit /\ OutInit /\ BytesInit /\ StrNext /\ UNCHANGED <<vars, charVars, outVars, byteVars>>
ArraysSpec == ArraysInit /\ [][ArraysNext]_<<vars, charVars, outVars, byteVars, strVars>>
=============================================================================
