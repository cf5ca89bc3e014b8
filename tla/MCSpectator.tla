---------------------------- MODULE MCSpectator ----------------------------
(* A small instance of Spectator. *)
EXTENDS Spectator, TLC

CONSTANTS r1, r2, organizer, settings

TwoRequests == {r1, r2}
TwoChangers == {roundLoop, organizer}
OnePart     == {settings}

Symmetric == Permutations(Requests)
=============================================================================
