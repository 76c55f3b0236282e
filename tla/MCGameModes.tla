---------------------------- MODULE MCGameModes -----------------------------
EXTENDS GameModes

\* A zombie game of four has two humans, so that one can fall without ending it.
MCSize == [g \in Games |-> IF g \in {"zombie", "tournament"} THEN {4} ELSE {3}]
=============================================================================
