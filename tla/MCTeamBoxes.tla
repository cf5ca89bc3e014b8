---------------------------- MODULE MCTeamBoxes ----------------------------
(* Small instances of TeamBoxes. *)
EXTENDS TeamBoxes

CONSTANTS a, b, t1

TwoTeams     == {a, b}
TerminalForA == {<<t1, a>>}
=============================================================================
