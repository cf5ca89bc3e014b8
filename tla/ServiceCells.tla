---------------------------- MODULE ServiceCells ----------------------------
(***************************************************************************)
(* The service cells of the ranking and of the page of a team:             *)
(* gameserver/frontend, ServiceScoreData.tsx, DiffArrow.tsx and the tables *)
(* of ScoreboardPage.tsx and ScoreboardTeamDetail.tsx, over the rows of    *)
(* the status history that Rounds writes and scoreboard.go serves.         *)
(*                                                                         *)
(* A cell shows how the three checks of a round went, a lamp that sums     *)
(* them up, the SLA, and an arrow for how the SLA has changed.  The server *)
(* computes the SLA, the page the lamp: the same rule, written twice.  (A  *)
(* scoreboard that is frozen shows these as of now.)                       *)
(***************************************************************************)
EXTENDS StatusPage

NotYet == "0"          (* the status of a check before the first round *)

-----------------------------------------------------------------------------
(* What is served.                                                         *)

(* SLA of a row: a team nothing was checked for has all of it. *)
sla(x) == IF x.tot = 0 THEN [n |-> 1, d |-> 1] ELSE [n |-> x.up, d |-> x.tot]

diff_sla(x, y) ==
  [n |-> sla(x).n * sla(y).d - sla(y).n * sla(x).d, d |-> sla(x).d * sla(y).d]

(* history[i-1]: none after a round that a restart has skipped. *)
livePrev(x) == {y \in RowsOf(x.target) : y.round = x.round - 1}

(* DiffArrow, of Math.round(diff_sla * 10000) / 100. *)
RoundsUp(q)   == 20000 * q.n >= q.d
RoundsDown(q) == 20000 * q.n < -q.d

DiffArrow(x) ==
  IF \E y \in livePrev(x) : RoundsUp(diff_sla(x, y)) THEN "up"
  ELSE IF \E y \in livePrev(x) : RoundsDown(diff_sla(x, y)) THEN "down"
  ELSE "same"

(* makeServiceStatus: its live half. *)
makeServiceStatus(x) ==
  [put_flag |-> x.put, get_flag |-> x.get, sla_check |-> x.check,
   ticks_up |-> x.up, ticks_down |-> x.tot - x.up, arrow |-> DiffArrow(x)]

-----------------------------------------------------------------------------
(* ServiceScoreData *)

(* Mutant: a check that never ran brings the service down. *)
isUpOnlyOk(s) == s = "OK"

isUp(s) == s \in {"OK", "NOT_CHECKED"}

slaOk(c) == isUp(c.sla_check) /\ isUp(c.get_flag) /\ isUp(c.put_flag)

slaUnknown(c) == {c.sla_check, c.get_flag, c.put_flag} = {NotYet}

Lamp(c) == IF slaOk(c) THEN "green" ELSE IF slaUnknown(c) THEN "gray" ELSE "red"

checkColor(c, s) ==
  IF slaUnknown(c) \/ s = "NOT_CHECKED" THEN "gray"
  ELSE IF s = "OK" THEN "green" ELSE "red"

-----------------------------------------------------------------------------
(* The tables.                                                             *)

Cells(t, r) == {makeServiceStatus(x) : x \in {y \in RowsOf(t) : y.round = r}}

NoScores ==
  [put_flag |-> NotYet, get_flag |-> NotYet, sla_check |-> NotYet,
   ticks_up |-> 0, ticks_down |-> 0, arrow |-> "same"]

(* ScoreboardPage: the round that is exposed, or nothing but the teams. *)
TeamRow(t) == IF exposed < 0 THEN {NoScores} ELSE Cells(t, exposed)

(* ScoreboardTeamDetail: a line for every round that is exposed. *)
TeamRoundRow(t, r) == IF r \in 0..exposed THEN Cells(t, r) ELSE {}

-----------------------------------------------------------------------------
(* Properties.                                                             *)

(* "A round counts towards ticks_up only when every check performed in it  *)
(* succeeded" (RulesContent.tsx:444): the lamp of the page is green in the *)
(* rounds that counted, and in no other; the SLA never falls under a green *)
(* lamp and never rises under a red one, whatever restarts have skipped or *)
(* left behind; and the rounds that did not count are no negative number,  *)
(* which would be shown as a huge one (they are unsigned).                 *)
Counted(c) == IF Lamp(c) = "green" THEN 1 ELSE 0

CellAgrees(t, r, c) ==
  /\ c.ticks_down >= 0
  /\ c.arrow = "up" => Lamp(c) = "green"
  /\ c.arrow = "down" => Lamp(c) = "red"
  /\ r = 0 => c.ticks_up = Counted(c)
  /\ \A p \in TeamRoundRow(t, r - 1) : c.ticks_up = p.ticks_up + Counted(c)

CellsTellTheSla ==
  \A t \in Targets :
    /\ \A c \in TeamRow(t) : Lamp(c) = "gray" <=> exposed < 0
    /\ \A r \in 0..exposed : \A c \in TeamRoundRow(t, r) : CellAgrees(t, r, c)

=============================================================================
