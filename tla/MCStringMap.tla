---------------------------- MODULE MCStringMap ----------------------------
(***************************************************************************)
(* Keys "a", "ab" and "b": one of them is the beginning of another.        *)
(***************************************************************************)
EXTENDS StringMap

ThreeKeys == {<<"a">>, <<"a", "b">>, <<"b">>}
TwoKeys == {<<"a">>, <<"a", "b">>}

\* Whole keys, and a key inside a longer string that goes on differently.
WholeKeys == {<<k, Len(k)>> : k \in ThreeKeys}
             \union {<< <<"a", "x">>, 1>>, << <<"b", "a">>, 1>>, << <<"b", "a">>, 2>>}
\* The first character of "ab".
PartOfKey == {<< <<"a", "b">>, 1>>}
NoLookups == {}
=============================================================================
