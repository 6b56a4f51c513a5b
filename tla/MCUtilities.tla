---------------------------- MODULE MCUtilities ----------------------------
(***************************************************************************)
(* The utilities, which share no state: every word is rounded to a power   *)
(* of two, and after the call for the word 0 one of the others is used,    *)
(* while the rest of them are as they were in the beginning.               *)
(***************************************************************************)
EXTENDS MCLogFormat, NextPowerOfTwo, Split, ReplStr, TimeString, DirectorySize, SharedLibrary

CONSTANTS
  MaxSplit, MaxSubject,   \* bounds: the lengths of the strings to be split and searched
  Around                  \* bound: how far time points are from the interesting ones

StringsOver(chars, lengths) == UNION {[1 .. n -> chars] : n \in lengths}
MCInputs == StringsOver({"a", "/"}, 0 .. MaxSplit)
MCSubjects == StringsOver({"a", "b"}, 0 .. MaxSubject)
MCPatterns == StringsOver({"a", "b"}, 1 .. 2)
MCReplacements == {<<>>, <<"a">>, <<"b", "a", "b">>}
MCTimePoints ==
  {p + d : p \in {-10000, -1000, -100, 0, 100, 1000, 10000, 12345, 9999900}, d \in -Around .. Around}
\* Two files, a file in a directory, and one in a directory in that directory
MCParent == [a |-> "root", s |-> "root", d |-> "root", da |-> "d", de |-> "d", dea |-> "de"]
MCDepthOf == [root |-> 0, a |-> 1, s |-> 1, d |-> 1, da |-> 2, de |-> 2, dea |-> 3]
MCKind == [root |-> "dir", a |-> "file", s |-> "other", d |-> "dir", da |-> "file", de |-> "dir", dea |-> "file"]
MCSizeOf == [root |-> 0, a |-> 1, s |-> 0, d |-> 0, da |-> 10, de |-> 0, dea |-> 100]
MCSymbolsOf == [libA |-> {"sym1", "sym2"}, libB |-> {"sym1"}]

UtilitiesInit == RoundInit /\ FormatInit /\ SplitInit /\ ReplInit /\ TimeInit /\ DirInit /\ LibInit
RoundZeroReturned == asked = 0 /\ rounded # 0
Idle(initial, others) == RoundZeroReturned /\ initial /\ UNCHANGED <<roundVars, others>>
UtilitiesNext ==
  \/ RoundNext /\ UNCHANGED <<formatVars, splitVars, replVars, timeVars, dirVars, libVars>>
  \/ /\ Idle(SplitInit /\ ReplInit /\ TimeInit /\ DirInit /\ LibInit, <<splitVars, replVars, timeVars, dirVars, libVars>>)
     /\ FormatNext
  \/ /\ Idle(FormatInit /\ ReplInit /\ TimeInit /\ DirInit /\ LibInit, <<formatVars, replVars, timeVars, dirVars, libVars>>)
     /\ SplitNext
  \/ /\ Idle(FormatInit /\ SplitInit /\ TimeInit /\ DirInit /\ LibInit, <<formatVars, splitVars, timeVars, dirVars, libVars>>)
     /\ ReplNext
  \/ /\ Idle(FormatInit /\ SplitInit /\ ReplInit /\ DirInit /\ LibInit, <<formatVars, splitVars, replVars, dirVars, libVars>>)
     /\ TimeNext
  \/ /\ Idle(FormatInit /\ SplitInit /\ ReplInit /\ TimeInit /\ LibInit, <<formatVars, splitVars, replVars, timeVars, libVars>>)
     /\ DirNext
  \/ /\ Idle(FormatInit /\ SplitInit /\ ReplInit /\ TimeInit /\ DirInit, <<formatVars, splitVars, replVars, timeVars, dirVars>>)
     /\ LibNext
UtilitiesSpec ==
  UtilitiesInit
  /\ [][UtilitiesNext]_<<roundVars, formatVars, splitVars, replVars, timeVars, dirVars, libVars>>
=============================================================================
