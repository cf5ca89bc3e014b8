------------------------------ MODULE MCRounds ------------------------------
(* Small instances of Rounds for TLC. *)
EXTENDS ServiceCells

CONSTANTS a, b    (* two (team, service) pairs *)

OneTarget  == {a}
TwoTargets == {a, b}

OnlyOk     == {"OK"}
OkOrCritical == {"OK", "CRITICAL"}

AtZero == {0}
AtOne  == {1}
AtFour == {4}

Unplanned == {Never}

(* Bound: of two targets only the first one ever fails; the answers for   *)
(* the other one come in one order, and of the actions of the first       *)
(* CHECK_SLA passes and GET_FLAG is not killed.                            *)
OnlyAFails ==
  /\ task[a].check \in {Waiting, "OK"}
  /\ task[a].get # "KILLED"
  /\ \A t \in Targets \ {a} :
       /\ {task[t].put, task[t].check, task[t].get}
             \cap {"CRITICAL", "KILLED"} = {}
       /\ task[t].check # Waiting => task[t].put # Waiting
       /\ task[t].put # Waiting => task[t].asked = {}
=============================================================================
