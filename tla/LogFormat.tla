----------------------------- MODULE LogFormat -----------------------------
(***************************************************************************)
(* src/logging.c: how an initialization of logging turns the environment   *)
(* variable RCUTILS_CONSOLE_OUTPUT_FORMAT into the list of handlers that   *)
(* format messages.  create_format_string decodes escapes into a static    *)
(* buffer, parse_and_create_handlers_list cuts its text into literal parts *)
(* and tokens; both are loops, one action per iteration.                   *)
(*                                                                         *)
(* Strings are sequences of characters; offsets count from 0, as in C.     *)
(* The value is preceded in memory by the variable's name and "=", none of *)
(* whose characters is a backslash, a brace or EOS.                        *)
(***************************************************************************)
EXTENDS Integers, Sequences

CONSTANTS
  Formats,      \* the values of the environment variable
  Tokens,       \* the names in the table of tokens
  MaxLen,       \* RCUTILS_LOGGING_MAX_OUTPUT_FORMAT_LEN
  MaxHandlers,  \* the size of g_handlers
  MaxInits      \* bound: how often logging is initialized

EOS == "EOS"
NAME == "NAME"         \* any character of the variable's name
BACKSLASH == "\\"

\* A C string does not contain its terminator.
FormatChars == UNION {{f[k] : k \in DOMAIN f} : f \in Formats}
ASSUME FormatAssumption ==
  /\ Formats \subseteq Seq(FormatChars) /\ EOS \notin FormatChars
  /\ <<>> \notin Formats /\ <<>> \notin Tokens
  /\ MaxLen \in Nat \ {0} /\ MaxHandlers \in Nat /\ MaxInits \in Nat

VARIABLES
  stage,       \* "down", "decode", "parse", "ready", or "undefined": the buffer
               \* has been left, and the program goes on in no defined way
  inits,       \* how often logging has been initialized
  format,      \* the value of the environment variable
  buffer,      \* g_rcutils_logging_output_format_string
  decode,      \* the local variables of create_format_string
  at,          \* the i of parse_and_create_handlers_list
  handlers     \* the first g_num_log_msg_handlers entries of g_handlers

formatVars == <<stage, inits, format, buffer, decode, at, handlers>>

AtStart == [i |-> 0, dest |-> 0, start |-> 0, not_copied |-> 0]
FormatInit ==
  /\ stage = "down" /\ inits = 0
  /\ format = <<>>
  /\ buffer = [k \in 0 .. MaxLen - 1 |-> EOS]
  /\ decode = AtStart
  /\ at = 0
  /\ handlers = <<>>

-----------------------------------------------------------------------------
(* C strings: the character at an offset; the text of the buffer *)
CharAt(s, k) ==
  CASE k < 0 -> NAME [] k \in 0 .. Len(s) - 1 -> s[k + 1] [] OTHER -> EOS
First(ks) == CHOOSE k \in ks : \A j \in ks : k <= j
IsText(b) == \E k \in DOMAIN b : b[k] = EOS
Text(b) == [k \in 1 .. First({j \in DOMAIN b : b[j] = EOS}) |-> b[k - 1]]

(* rcutils_findn: the offsets of c in s from one offset to before another *)
Finds(s, c, from, to) == {k \in from .. to - 1 : CharAt(s, k) = c}

(* memcpy into the buffer, as far as the buffer goes *)
Copied(dest, from, n) ==
  [k \in DOMAIN buffer |->
     IF k \in dest .. dest + n - 1 THEN CharAt(format, from + k - dest) ELSE buffer[k]]

(* The escapes, after the backslash at offset k: what they mean, and how many *)
(* characters follow the first one                                            *)
Letters == [a |-> "BEL", b |-> "BS", n |-> "NL", r |-> "CR", t |-> "TAB"]
IsX1b(s, k) == CharAt(s, k + 1) = "x" /\ CharAt(s, k + 2) = "1" /\ CharAt(s, k + 3) = "b"
IsKnown(s, k) == IsX1b(s, k) \/ CharAt(s, k + 1) \in DOMAIN Letters
Meaning(s, k) == IF IsX1b(s, k) THEN "ESC" ELSE Letters[CharAt(s, k + 1)]
SkipChars(s, k) == IF IsX1b(s, k) THEN 2 ELSE 0

-----------------------------------------------------------------------------
(* rcutils_logging_initialize_with_allocator, up to create_format_string *)
Initialize(f) ==
  /\ stage = "down" /\ inits < MaxInits
  /\ stage' = "decode" /\ inits' = inits + 1
  /\ format' = f
  /\ decode' = AtStart
  /\ UNCHANGED <<buffer, at, handlers>>

\* create_format_string
Length == IF Len(format) > MaxLen - 1 THEN MaxLen - 1 ELSE Len(format)
Backslashes == Finds(format, BACKSLASH, decode.i, Length)

\* No backslash is left: the rest is copied and the loop ends.
DecodeRest ==
  /\ stage = "decode" /\ decode.i < Length
  /\ Backslashes = {}
  /\ LET n == Length - decode.start + decode.not_copied
     IN  /\ buffer' = Copied(decode.dest, decode.start - decode.not_copied, n)
         /\ stage' = IF decode.dest + n > MaxLen THEN "undefined" ELSE "decode"
  /\ decode' = [decode EXCEPT !.i = Length]
  /\ UNCHANGED <<inits, format, at, handlers>>

\* An escape: what precedes it is copied, then the character it stands for.
DecodeEscape ==
  LET k == First(Backslashes)
      ahead == k - decode.i
      len == IF ahead > 0 THEN ahead + decode.not_copied ELSE 0
  IN  /\ stage = "decode" /\ decode.i < Length
      /\ Backslashes # {} /\ IsKnown(format, k)
      /\ buffer' = [j \in DOMAIN buffer |->
                      IF j = decode.dest + len THEN Meaning(format, k)
                      ELSE Copied(decode.dest, decode.start, len)[j]]
      /\ decode' = [i          |-> k + 2 + SkipChars(format, k),
                    dest       |-> decode.dest + len + 1,
                    start      |-> decode.start + len + 2 + SkipChars(format, k),
                    not_copied |-> IF ahead > 0 THEN 0 ELSE decode.not_copied]
      /\ UNCHANGED <<stage, inits, format, at, handlers>>

\* A backslash before any other character.
DecodeUnknown ==
  LET k == First(Backslashes)
  IN  /\ stage = "decode" /\ decode.i < Length
      /\ Backslashes # {} /\ ~IsKnown(format, k)
      /\ decode' = [decode EXCEPT !.i = k + 2, !.not_copied = @ + (k - decode.i) + 2]
      /\ UNCHANGED <<stage, inits, format, buffer, at, handlers>>

\* The severities map comes next; without it the initialization fails.
DecodeEnds ==
  /\ stage = "decode" /\ decode.i >= Length
  /\ \/ /\ stage' = IF IsText(buffer) THEN "parse" ELSE "undefined"
        /\ at' = 0 /\ handlers' = <<>>
     \/ stage' = "down" /\ UNCHANGED <<at, handlers>>
  /\ UNCHANGED <<inits, format, buffer, decode>>

-----------------------------------------------------------------------------
(* add_handler, and the return of its caller when there is no room.  A part  *)
(* of the text is a handler whose token is empty.                            *)
Literal(from, to) == [token |-> <<>>, start_offset |-> from, end_offset |-> to]
ExpandToken(token) == [token |-> token, start_offset |-> 0, end_offset |-> 0]
AddHandler(h, next) ==
  IF Len(handlers) >= MaxHandlers
  THEN stage' = "ready" /\ UNCHANGED <<handlers, at>>
  ELSE handlers' = Append(handlers, h) /\ at' = next /\ UNCHANGED stage

(* parse_and_create_handlers_list: one iteration *)
Size == Len(Text(buffer))
NextDelimiter(c) == Finds(Text(buffer), c, at, Size)
TokenTo(end) == SubSeq(Text(buffer), at + 2, end)

ParseText ==
  LET to == IF NextDelimiter("{") = {} THEN Size ELSE First(NextDelimiter("{"))
  IN  /\ stage = "parse" /\ at < Size
      /\ CharAt(Text(buffer), at) # "{"
      /\ AddHandler(Literal(at, to), to)
      /\ UNCHANGED <<inits, format, buffer, decode>>

\* Mutant: characters of what is no token are skipped.
NotATokenSkipped(end) == end + 1
NotAToken(end) == at + 1
ParseDelimiter ==
  LET ends == NextDelimiter("}")
      end == First(ends)
  IN  /\ stage = "parse" /\ at < Size
      /\ CharAt(Text(buffer), at) = "{"
      /\ \/ ends = {} /\ AddHandler(Literal(at, Size), Size)
         \/ /\ ends # {} /\ TokenTo(end) \in Tokens
            /\ AddHandler(ExpandToken(TokenTo(end)), end + 1)
         \/ /\ ends # {} /\ TokenTo(end) \notin Tokens
            /\ AddHandler(Literal(at, at + 1), NotAToken(end))
      /\ UNCHANGED <<inits, format, buffer, decode>>

ParseEnds ==
  /\ stage = "parse" /\ at >= Size
  /\ stage' = "ready"
  /\ UNCHANGED <<inits, format, buffer, decode, at, handlers>>

(* rcutils_logging_shutdown *)
Shutdown ==
  /\ stage = "ready"
  /\ stage' = "down" /\ handlers' = <<>>
  /\ UNCHANGED <<inits, format, buffer, decode, at>>

FormatNext ==
  \/ \E f \in Formats : Initialize(f)
  \/ DecodeRest \/ DecodeEscape \/ DecodeUnknown \/ DecodeEnds
  \/ ParseText \/ ParseDelimiter \/ ParseEnds
  \/ Shutdown

FormatSpec == FormatInit /\ [][FormatNext]_formatVars

-----------------------------------------------------------------------------
\* What a format means: every escape is the character it stands for, every other
\* character is itself.  What it means from an offset on:
IsEscape(s, k) == CharAt(s, k) = BACKSLASH /\ IsKnown(s, k)
PartAt(s, k) == IF IsEscape(s, k) THEN Meaning(s, k) ELSE CharAt(s, k)
PartLength(s, k) == IF IsEscape(s, k) THEN 2 + SkipChars(s, k) ELSE 1
Decoded[k \in 0 .. Len(format) + 3] ==
  IF k >= Len(format) THEN <<>> ELSE <<PartAt(format, k)>> \o Decoded[k + PartLength(format, k)]
OnlyKnownEscapes(s) ==
  \A k \in 0 .. Len(s) - 1 : CharAt(s, k) = BACKSLASH => IsKnown(s, k)

\* The three offsets of create_format_string stay in step through any mixture of
\* text and escapes: the first initialization leaves the meaning of the format in
\* the buffer and nothing behind it, a later one at the beginning of the buffer.
\* That writing and reading stay inside the buffer, however long the format, is
\* said of the first initialization only: before a later one, the buffer may have
\* been filled to its end.  (Formats with other backslashes are excluded: their
\* text can be lost, or preceded by a part of the variable's name.)
FormatIsDecoded ==
  OnlyKnownEscapes(format) =>
    /\ inits = 1 => stage # "undefined"
    /\ (stage = "parse" /\ Len(format) < MaxLen) =>
         LET meant == Decoded[0]
         IN  /\ SubSeq(Text(buffer), 1, Len(meant)) = meant
             /\ inits = 1 => Text(buffer) = meant

\* The environment variable "can be used to set the output format": the format that
\* messages get is the one that was set when logging was last initialized.
FormatIsTheOneSet ==
  (stage = "ready" /\ OnlyKnownEscapes(format) /\ Len(format) < MaxLen)
     => Text(buffer) = Decoded[0]

\* What a text means: "{token}" for a token of the table is that token, every
\* other character is itself, unmatched and unknown braces too.  What it means from
\* an offset on:
Closes(s, k) == Finds(s, "}", k, Len(s))
TokenName(s, k) == SubSeq(s, k + 2, First(Closes(s, k)))
IsToken(s, k) == CharAt(s, k) = "{" /\ Closes(s, k) # {} /\ TokenName(s, k) \in Tokens
PieceAt(s, k) == IF IsToken(s, k) THEN [token |-> TokenName(s, k)] ELSE [char |-> CharAt(s, k)]
PieceEnd(s, k) == 1 + IF IsToken(s, k) THEN First(Closes(s, k)) ELSE k
Pieces[k \in 0 .. Size] ==
  IF k = Size THEN <<>> ELSE <<PieceAt(Text(buffer), k)>> \o Pieces[PieceEnd(Text(buffer), k)]
\* What the first handlers add to a message, one after the other.
PiecesOf(h) ==
  IF h.token # <<>> THEN << [token |-> h.token] >>
  ELSE [k \in 1 .. h.end_offset - h.start_offset |->
          [char |-> buffer[h.start_offset + k - 1]]]
Spelled[n \in 0 .. Len(handlers)] ==
  IF n = 0 THEN <<>> ELSE Spelled[n - 1] \o PiecesOf(handlers[n])

\* parse_and_create_handlers_list loses and repeats nothing: the handlers, one after
\* the other, are the text of the buffer with its tokens recognized, nested and
\* unmatched braces included; when g_handlers is full they are the beginning of it.
HandlersSpellTheFormat ==
  stage = "ready" =>
    LET spelled == Spelled[Len(handlers)]
    IN  IF at < Size THEN Len(handlers) = MaxHandlers /\ spelled = SubSeq(Pieces[0], 1, Len(spelled))
        ELSE spelled = Pieces[0]

\* From the environment variable to the handlers, both halves of the way.
FormatIsRead == FormatIsDecoded /\ HandlersSpellTheFormat
=============================================================================
