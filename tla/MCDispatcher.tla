---------------------------- MODULE MCDispatcher ----------------------------
(* Small instances of Dispatcher for TLC: the .cfg files choose the values. *)
EXTENDS Dispatcher

CONSTANTS j1, e1, w1

OneJob == {j1}

OnlyEmbedded == {e1}
Mixed == {e1, w1}

TwoStatuses == {"OK", "DOWN"}

(* The round has room for three leases, or for one and a retry at its end. *)
LongRound == {3}
=============================================================================
