--------------------------- MODULE MCSequential ----------------------------
(***************************************************************************)
(* The parts that one thread uses on its own: the arrays of MCArrays and   *)
(* the utilities of MCUtilities share no state, and one of them is used    *)
(* while the rest are as they were in the beginning.                       *)
(***************************************************************************)
EXTENDS MCArrays, MCUtilities

arraysVars == <<vars, charVars, outVars, byteVars, strVars>>
utilitiesVars == <<roundVars, formatVars, splitVars, replVars, timeVars, dirVars, libVars>>

SequentialInit == ArraysInit /\ UtilitiesInit
SequentialNext ==
  \/ ArraysInit /\ UtilitiesNext /\ UNCHANGED arraysVars
  \/ /\ Idle(FormatInit /\ SplitInit /\ ReplInit /\ TimeInit /\ DirInit /\ LibInit,
             <<formatVars, splitVars, replVars, timeVars, dirVars, libVars>>)
     /\ ArraysNext
SequentialSpec == SequentialInit /\ [][SequentialNext]_<<arraysVars, utilitiesVars>>
=============================================================================
