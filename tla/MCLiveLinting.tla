--------------------------- MODULE MCLiveLinting ---------------------------
(* Two examples, one with both plugins and one with a single one.          *)
EXTENDS LiveLinting

CONSTANTS s1, s2, a, b

MCPluginsOf == [s \in Snippets |-> IF s = s1 THEN {a, b} ELSE {b}]
=============================================================================
