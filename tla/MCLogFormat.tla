---------------------------- MODULE MCLogFormat ----------------------------
(***************************************************************************)
(* Every format of up to MaxShort characters out of a letter that is also  *)
(* an escape and the name of the only token, backslash and braces; and     *)
(* longer ones: escape sequences between text, nested braces, a format     *)
(* that is too long, and other backslashes in a format that almost is.     *)
(***************************************************************************)
EXTENDS LogFormat

CONSTANT MaxShort   \* bound: the length up to which all formats are tried

Chars == {"a", "\\", "{", "}"}
Long ==
  { <<"\\", "x", "1", "b">>,
    <<"{", "a", "}", "\\", "x", "1", "b", "a">>,
    <<"a", "\\", "a", "\\", "x", "1", "b", "a">>,
    <<"{", "{", "a", "}", "}", "{", "a", "}">>,
    <<"{", "{", "}", "{", "a", "}", "a", "}">>,
    <<"a", "a", "a", "a", "a", "{", "a", "}", "a", "a">>,
    <<"\\", "}", "a", "a", "a", "a", "a", "a">>,
    <<"\\", "}", "a", "a", "a", "a", "a">> }
MCFormats == UNION {[1 .. n -> Chars] : n \in 1 .. MaxShort} \cup Long
MCTokens == { <<"a">> }
=============================================================================
