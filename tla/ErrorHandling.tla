--------------------------- MODULE ErrorHandling ---------------------------
(***************************************************************************)
(* src/error_handling.c, src/error_handling_helpers.h and the macros of    *)
(* include/rcutils/error_handling.h, as one thread sees them: all state is *)
(* thread-local.  A string is a sequence of symbols; ", at " and ":" are   *)
(* one symbol each, digits are numbers.                                    *)
(***************************************************************************)
EXTENDS Integers, Sequences, SequencesExt

CONSTANTS
  Messages, Files,   \* the strings callers pass
  Lines,             \* the line numbers
  StringMax,         \* RCUTILS_ERROR_MESSAGE_MAX_LENGTH
  MessageMax,        \* RCUTILS_ERROR_STATE_MESSAGE_MAX_LENGTH
  LineMax,           \* RCUTILS_ERROR_STATE_LINE_NUMBER_STR_MAX_LENGTH
  UINT64_MAX         \* the largest line number

AT == ", at "
COLON == ":"
\* RCUTILS_ERROR_STATE_FILE_MAX_LENGTH, from the other lengths
FileMax == StringMax - MessageMax - LineMax - 2 - 1

VARIABLES
  tlsInitialized,   \* gtls_rcutils_thread_local_initialized
  errorState,       \* gtls_rcutils_error_state
  isFormatted,      \* gtls_rcutils_error_string_is_formatted
  errorString,      \* gtls_rcutils_error_string
  isSet,            \* gtls_rcutils_error_is_set
  answer,           \* what rcutils_get_error_string last returned
  lastError         \* history: what was set last since the last reset, if anything was

errorVars == <<tlsInitialized, errorState, isFormatted, errorString, isSet, answer, lastError>>

(* __rcutils_copy_string: what fits in front of the terminating NUL *)
\* Mutant: no room is left for the terminating NUL.
CopyWithoutRoom(s, size) == SubSeq(s, 1, IF Len(s) > size THEN size ELSE Len(s))
CopyString(s, size) == SubSeq(s, 1, IF Len(s) >= size THEN size - 1 ELSE Len(s))

(* __rcutils_convert_uint64_t_into_c_str: digits from the last to the first, *)
(* then reversed                                                             *)
LastFirst[n \in 0 .. UINT64_MAX] == IF n = 0 THEN <<>> ELSE <<n % 10>> \o LastFirst[n \div 10]
\* Mutant: zero has no digit.
DigitsOfPositive(n) == Reverse(LastFirst[n])
Digits(n) == IF n = 0 THEN <<0>> ELSE Reverse(LastFirst[n])

\* The characters of what callers pass; a line number has no more digits than
\* there is room for.
Texts == Messages \union Files
ErrorChars == UNION {{s[k] : k \in DOMAIN s} : s \in Texts}
ASSUME ErrorAssumption ==
  /\ Texts \subseteq Seq(ErrorChars)
  /\ {StringMax, MessageMax, LineMax, UINT64_MAX} \subseteq Nat /\ FileMax > 0 /\ MessageMax > 0
  /\ Lines \subseteq 0 .. UINT64_MAX /\ \A n \in Lines : Len(Digits(n)) <= LineMax

(* __rcutils_format_error_string: the parts, each cut to the bytes left *)
AddPart(s, part) == s \o CopyString(part, StringMax - Len(s))
FormatErrorString(e) ==
  AddPart(AddPart(AddPart(AddPart(AddPart(<<>>, e.message), <<AT>>), e.file), <<COLON>>), Digits(e.line))

NoError == [message |-> <<>>, file |-> <<>>, line |-> 0]
NotSet == <<"error not set">>

ErrorInit ==
  /\ tlsInitialized = FALSE
  /\ errorState = NoError /\ isFormatted = FALSE /\ errorString = <<>> /\ isSet = FALSE
  /\ answer = NotSet
  /\ lastError = <<>>

\* rcutils_reset_error
Reset ==
  /\ errorState' = NoError /\ isFormatted' = FALSE /\ errorString' = <<>> /\ isSet' = FALSE
  /\ lastError' = <<>>

(* rcutils_set_error_state: copies what fits; the formatted string is stale. *)
(* Overwriting an error that was not reset may format it, to report it, but  *)
(* all of that is overwritten.                                               *)
\* Mutant: the flag stays, as if the string were the new error's.
FlagKept == isFormatted
FlagAfterSet == FALSE
StateOf(message, file, line) ==
  [message |-> CopyString(message, MessageMax), file |-> CopyString(file, FileMax), line |-> line]
Set(message, file, line) ==
  /\ errorState' = StateOf(message, file, line)
  /\ isFormatted' = FlagAfterSet /\ errorString' = <<>> /\ isSet' = TRUE
  /\ lastError' = <<[message |-> message, file |-> file, line |-> line]>>

\* rcutils_get_error_string, formatted when it is first asked for
CurrentString == IF ~isSet THEN NotSet ELSE IF isFormatted THEN errorString ELSE FormatErrorString(errorState)

-----------------------------------------------------------------------------
(* rcutils_initialize_error_handling_thread_local_storage, which forgets any *)
(* error the first time; an invalid allocator changes nothing                *)
InitializeStorage ==
  /\ ~tlsInitialized /\ tlsInitialized' = TRUE
  /\ Reset
  /\ UNCHANGED answer
SetError(message, file, line) ==
  /\ Set(message, file, line)
  /\ UNCHANGED <<tlsInitialized, answer>>
GetErrorString ==
  /\ answer' = CurrentString
  /\ isFormatted' = (isFormatted \/ isSet)
  /\ errorString' = IF isSet THEN CurrentString ELSE errorString
  /\ UNCHANGED <<tlsInitialized, errorState, isSet, lastError>>
ResetError ==
  /\ Reset
  /\ UNCHANGED <<tlsInitialized, answer>>
(* RCUTILS_SET_ERROR_MSG_AND_APPEND_PREV_ERROR and the variant with a format: *)
(* the previous string, "error not set" included, becomes part of the message *)
SetAndAppendPrevious(message, file, line) ==
  /\ answer' = CurrentString
  /\ Set(CopyString(message \o <<COLON>> \o CurrentString, StringMax), file, line)
  /\ UNCHANGED tlsInitialized
\* The variants that write to stderr instead
WriteAndAppendPrevious ==
  /\ answer' = CurrentString
  /\ Reset
  /\ UNCHANGED tlsInitialized

ErrorNext ==
  \/ InitializeStorage \/ GetErrorString \/ ResetError \/ WriteAndAppendPrevious
  \/ \E m \in Messages, f \in Files, l \in Lines : SetError(m, f, l) \/ SetAndAppendPrevious(m, f, l)

ErrorSpec == ErrorInit /\ [][ErrorNext]_errorVars

-----------------------------------------------------------------------------
(* The first characters of a string, and the number a row of digits denotes  *)
FirstOf(s, n) == SubSeq(s, 1, IF Len(s) < n THEN Len(s) ELSE n)
DecimalValue(s) ==
  LET value[k \in 0 .. Len(s)] == IF k = 0 THEN 0 ELSE 10 * value[k - 1] + s[k]
  IN  value[Len(s)]
(* Whenever it is asked for, the error string is the last error's: as much   *)
(* of its message and of its file as the buffers for them take, and the      *)
(* decimal digits of its line, whole, whatever was set, formatted, chained   *)
(* or reset before; "error not set" exactly if nothing was set since the     *)
(* last reset.                                                               *)
ErrorStringIsCurrent ==
  IF lastError = <<>> THEN CurrentString = NotSet
  ELSE LET e == lastError[1]
           head == FirstOf(e.message, MessageMax - 1) \o <<AT>> \o FirstOf(e.file, FileMax - 1) \o <<COLON>>
           digits == SubSeq(CurrentString, Len(head) + 1, Len(CurrentString))
       IN /\ Len(CurrentString) > Len(head) /\ SubSeq(CurrentString, 1, Len(head)) = head
          /\ \A i \in DOMAIN digits : digits[i] \in 0 .. 9
          /\ DecimalValue(digits) = e.line
=============================================================================
