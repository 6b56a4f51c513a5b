----------------------------- MODULE LogOutput -----------------------------
(***************************************************************************)
(* src/logging.c: rcutils_logging_console_output_handler formats a message *)
(* into one char array and, part by part, a line into another one, then    *)
(* prints the line.  Both arrays begin in buffers on the stack and are     *)
(* operated on by the operators of CharArray: each step may need memory    *)
(* and fail.  The parts are the handlers of LogFormat: literal text, or    *)
(* tokens that expand to a string or, the name and the location if there   *)
(* is none, to nothing.                                                    *)
(***************************************************************************)
EXTENDS CharArray

CONSTANTS
  LineFormats,  \* the lists of handlers, g_handlers
  Expansion,    \* what a part other than the message expands to; NONE: not appended
  MESSAGE,      \* the part that is the message
  NONE,
  StackSize,    \* the size of msg_buf and output_buf
  COLOR, NORMAL \* the escape sequences for the color

LineParts == DOMAIN Expansion \union {MESSAGE}
LineTexts == Strings \union {COLOR, NORMAL} \union ({Expansion[p] : p \in DOMAIN Expansion} \ {NONE})
LineChars == UNION {{s[i] : i \in DOMAIN s} : s \in LineTexts}
\* Texts are C strings: the terminating character is not one of theirs.
ASSUME OutputAssumption ==
  /\ LineFormats \subseteq Seq(LineParts) /\ LineTexts \subseteq Seq(LineChars)
  /\ NUL \notin LineChars /\ StackSize \in Nat \ {0}

VARIABLES
  outStage,     \* "idle", "color", "message", "parts", "normal", "print", "fini", "done"
  line,         \* the handlers still to be called
  whole,        \* history: the parts of the line, and the message
  colorized,    \* is_colorized
  msgArray, outArray,
  printed       \* what has been printed; NoString: nothing

outVars == <<outStage, line, whole, colorized, msgArray, outArray, printed>>

OnStack == [ZeroChars EXCEPT !.buffer = "caller", !.capacity = StackSize,
                             !.bytes = [k \in 1 .. StackSize |-> NUL]]
OutInit ==
  /\ outStage = "idle" /\ line = <<>> /\ whole = <<<<>>, <<>>>> /\ colorized = FALSE
  /\ msgArray = OnStack /\ outArray = OnStack /\ printed = NoString

\* The text of a buffer, up to its end if it has one.
CString(buf) ==
  LET ends == {k \in DOMAIN buf : buf[k] = NUL}
  IN IF ends = {} THEN NoString ELSE SubSeq(buf, 1, (CHOOSE k \in ends : \A j \in ends : k <= j) - 1)

StartOutput(hs, m, c) ==
  /\ outStage = "idle" /\ outStage' = "color"
  /\ line' = hs /\ whole' = <<hs, m>> /\ colorized' = c
  /\ UNCHANGED <<msgArray, outArray, printed>>

\* The rest is skipped, apart from the two calls of fini, once a call has failed.
\* Mutant: a failure is reported, and the line goes on.
StageRegardless(ret, stage) == stage
StageAfter(ret, stage) == IF ret = "OK" THEN stage ELSE "fini"
AppendToLine(s, stage) ==
  \E o \in Strcatted(outArray, s) : outArray' = o.arr /\ outStage' = StageAfter(o.ret, stage)

\* SET_OUTPUT_COLOR_WITH_SEVERITY
SetColor ==
  /\ outStage = "color"
  /\ IF colorized THEN AppendToLine(COLOR, "message") ELSE outStage' = "message" /\ UNCHANGED outArray
  /\ UNCHANGED <<line, whole, colorized, msgArray, printed>>
FormatUserMessage ==
  /\ outStage = "message"
  /\ \E o \in Formatted(msgArray, whole[2]) : msgArray' = o.arr /\ outStage' = StageAfter(o.ret, "parts")
  /\ UNCHANGED <<line, whole, colorized, outArray, printed>>
(* rcutils_logging_format_message: one handler after the other *)
ExpandPart ==
  /\ outStage = "parts" /\ line # <<>> /\ line' = Tail(line)
  /\ IF Head(line) # MESSAGE /\ Expansion[Head(line)] = NONE
     THEN UNCHANGED <<outStage, outArray>>
     ELSE AppendToLine(IF Head(line) = MESSAGE THEN CString(msgArray.bytes) ELSE Expansion[Head(line)], "parts")
  /\ UNCHANGED <<whole, colorized, msgArray, printed>>
\* SET_STANDARD_COLOR_IN_BUFFER
SetNormal ==
  /\ outStage = "parts" /\ line = <<>>
  /\ IF colorized THEN AppendToLine(NORMAL, "print") ELSE outStage' = "print" /\ UNCHANGED outArray
  /\ UNCHANGED <<line, whole, colorized, msgArray, printed>>
PrintLine ==
  /\ outStage = "print" /\ outStage' = "fini"
  /\ printed' = CString(outArray.bytes)
  /\ UNCHANGED <<line, whole, colorized, msgArray, outArray>>
FiniArrays ==
  /\ outStage = "fini" /\ outStage' = "done"
  /\ msgArray' = Finalized(msgArray) /\ outArray' = Finalized(outArray)
  /\ UNCHANGED <<line, whole, colorized, printed>>

OutNext ==
  \/ \E hs \in LineFormats, m \in Strings, c \in BOOLEAN : StartOutput(hs, m, c)
  \/ SetColor \/ FormatUserMessage \/ ExpandPart \/ SetNormal \/ PrintLine \/ FiniArrays
OutSpec == OutInit /\ [][OutNext]_outVars

-----------------------------------------------------------------------------
(* A line is printed whole or not at all, in the order of its parts, with    *)
(* the whole message and between its colors, however often the two arrays    *)
(* had to leave their buffers and grow; and no block they grew into is left  *)
(* behind, whether or not the line was printed.  Blocks held are counted: an *)
(* array that fails to grow a second time has its buffer freed by that, and  *)
(* again by its fini (see BufferIsAllocated).                                *)
ExpansionOf(part) == IF part = MESSAGE THEN whole[2] ELSE IF Expansion[part] = NONE THEN <<>> ELSE Expansion[part]
Concatenated[n \in 0 .. Len(whole[1])] ==
  IF n = 0 THEN <<>> ELSE Concatenated[n - 1] \o ExpansionOf(whole[1][n])
Lead == IF colorized THEN COLOR ELSE <<>>
Trail == IF colorized THEN NORMAL ELSE <<>>
LineIsWhole ==
  /\ printed # NoString => printed = Lead \o Concatenated[Len(whole[1])] \o Trail
  /\ outStage = "done" => msgArray.blocks = 0 /\ outArray.blocks = 0
=============================================================================
