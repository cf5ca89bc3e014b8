-------------------------- MODULE MCNetworkControl --------------------------
(* Small instances of NetworkControl. *)
EXTENDS NetworkControl

CONSTANTS r1, r2, c1, c2, a

OneRouter  == {r1}
TwoCallers == {c1, c2}
OneTeam    == {a}

AllStates    == NetworkStates
=============================================================================
