----------------------------- MODULE MCLogging -----------------------------
(* Loggers for TLC to check Logging with. *)
EXTENDS Logging

\* The empty name is the default logger: an ancestor of ".a" and of ".a.b", and a
\* name that "a" begins with without descending from it.
Hierarchy == {<<>>, <<"a">>, <<".", "a">>, <<".", "a", ".", "b">>}
\* The default logger and one logger more.
TwoNames == {<<>>, <<"a">>}
\* Any integer is taken as the default level, -1 (an error elsewhere) too.
LevelsOrError == {0, 10, -1}
=============================================================================
