--------------------------- MODULE MCControlRoom ---------------------------
(* A small instance of ControlRoom. *)
EXTENDS ControlRoom

CONSTANTS other, a, p1

TwoCallers == {me, other}
OneTeam    == {a}
OneProfile == {p1}
TwoTicks   == {60, 120}
=============================================================================
