---------------------------- MODULE ScoreLedger ----------------------------
(***************************************************************************)
(* What a stolen flag is worth, whatever requests race: the books of the   *)
(* service scores.  Every entry pays one team for one flag of another      *)
(* team, once.  The thief's score in that service grows by what the flag   *)
(* is worth, the victim's shrinks by as much, but never below zero.        *)
(* Nothing else moves a score and no entry is taken back.                  *)
(***************************************************************************)
EXTENDS Integers

CONSTANTS
  Accounts,           (* the (team, service) pairs that have a score        *)
  InitialScore

VARIABLES
  score,
  paid                (* the entries: flag, team, offense, defense          *)

Init ==
  /\ score = [a \in Accounts |-> InitialScore]
  /\ paid = {}

Smaller(x, y) == IF x < y THEN x ELSE y

Thief(e) == <<e.team, e.flag.service>>
Victim(e) == <<e.flag.team, e.flag.service>>

Pay(e) ==
  /\ e.team # e.flag.team
  /\ \A p \in paid : ~(p.flag = e.flag /\ p.team = e.team)
  /\ e.offense > 0
  /\ e.defense = Smaller(score[Victim(e)], e.offense)
  /\ paid' = paid \cup {e}
  /\ score' = [score EXCEPT ![Thief(e)] = score[Thief(e)] + e.offense,
                            ![Victim(e)] = score[Victim(e)] - e.defense]

Spec == Init /\ [][\E e \in paid' : Pay(e)]_<<score, paid>>
=============================================================================
