---------------------------- MODULE MCGameState ----------------------------
(* Small instances of GameState. *)
EXTENDS GameState

CONSTANTS c1, c2, a, p1

TwoCallers  == {c1, c2}
OneTeam     == {a}
OneProfile  == {p1}
TwoTicks    == {60, 120}
=============================================================================
