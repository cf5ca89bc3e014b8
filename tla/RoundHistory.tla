---------------------------- MODULE RoundHistory ----------------------------
(***************************************************************************)
(* What players may rely on when they read the scoreboard: an append-only  *)
(* table of rounds.  A round appears at once and complete, one row for     *)
(* every (team, service) pair, rounds appear in order, and what has been   *)
(* published never changes.  Rounds may be skipped (the game server was    *)
(* down), but a skipped round stays empty.                                 *)
(***************************************************************************)
EXTENDS Integers

CONSTANT Targets      (* the (team, service) pairs *)

VARIABLES
  last,               (* the last published round, -1 before the first      *)
  table               (* the published rows: records with target and round  *)

Init == last = -1 /\ table = {}

Publish ==
  /\ last' > last
  /\ table \subseteq table'
  /\ LET new == table' \ table
     IN  /\ \A row \in new : row.round = last' /\ row.target \in Targets
         /\ \A t \in Targets : \E row \in new : row.target = t
         /\ \A x, y \in new : x.target = y.target => x = y

Spec == Init /\ [][Publish]_<<last, table>>
=============================================================================
