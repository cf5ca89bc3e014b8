----------------------------- MODULE StatusPage -----------------------------
(***************************************************************************)
(* What the page tells the players of the game above every ranking:        *)
(* gameserver/frontend, RoundCounter.tsx and GameBanners.tsx, over the     *)
(* clock and the round loop of Rounds.                                     *)
(*                                                                         *)
(* Both are functions of /api/status and of the clock of the browser.  The *)
(* page asks every three seconds and counts every second, which is fresh   *)
(* compared to a tick; the clock of the browser is right.  (How a ranking  *)
(* follows a status that comes late is in Spectator.)                      *)
(***************************************************************************)
EXTENDS Rounds

Serving == pc # "down"

(* handleStatus: the fields the two components look at. *)
status ==
  [start |-> gs.start, start_grace |-> gs.start - Grace, end |-> gs.end,
   roundTime |-> RoundLen, current_round |-> exposed,
   game_paused |-> paused, scoreboard_frozen |-> frozen,
   freeze_round |-> freezeRound, network_state |-> net]

-----------------------------------------------------------------------------
(* updateRoundInfo *)

(* Mutant: the round after the current one begins when that is exposed. *)
nextRoundAtLate(s) == s.start + (s.current_round + 3) * s.roundTime

(* A round is exposed when it is over: while round r is shown, r + 1 is    *)
(* played, and is shown in turn when r + 2 begins.                         *)
nextRoundAt(s) == s.start + (s.current_round + 2) * s.roundTime

timeForNextRound(s) == nextRoundAt(s) - now

hasInit(s)    == now >= s.start_grace
hasStarted(s) == s.start < now
hasEnded(s)   == s.end # Never /\ s.end < now

(* The progress bar; RoundLen is full. *)
Bar(s) ==
  IF hasEnded(s) THEN s.roundTime
  ELSE IF ~hasStarted(s) THEN 0
  ELSE IF timeForNextRound(s) < 0 THEN s.roundTime
  ELSE s.roundTime - timeForNextRound(s)

(* genInfoText *)
InfoText(s) ==
  CASE ~hasInit(s)                  -> "not started"
    [] hasInit(s) /\ ~hasStarted(s) -> "you can access your VM"
    [] hasStarted(s) /\ hasEnded(s) -> "ended, network is locked"
    [] OTHER                        -> "running"

-----------------------------------------------------------------------------
(* GameBanners *)
Banners(s) ==
  {b \in {"FROZEN", "LOCKED"} : s.network_state = b}
  \cup {b \in {"paused"} : s.game_paused}
  \cup {b \in {"scoreboard frozen"} : s.scoreboard_frozen}

-----------------------------------------------------------------------------
(* Properties.                                                             *)

(* The counter announces no wait longer than a round, however the clock    *)
(* was shifted and whatever a restart has skipped; and no round is exposed *)
(* while it is still counting down to it.                                  *)
BarInRange == Serving => Bar(status) \in 0..RoundLen

NotEarly == exposed' # exposed => timeForNextRound(status) <= 0

CountdownStep == BarInRange /\ NotEarly
CountdownHolds == [][CountdownStep]_vars

(* The players are told the truth about the network and the ranking        *)
(* whenever time passes: who "can access your VM" can, a game that runs    *)
(* has the network open, a ranking that is "frozen at round r" shows round *)
(* r if that was played.  Only "The game network is locked" is early: by   *)
(* the rest of the round (or of the wait for one) in which the game ended. *)
LastRoundLasts ==
  \/ pc = "checking" /\ RoundStart(round) <= gs.end
  \/ pc \in {"boot", "paused"} /\ RoundStart(round - 1) <= gs.end

PlayersAreTold ==
  Serving /\ AllWait =>
    LET text == InfoText(status)
    IN  /\ text = "not started" => "FROZEN" \in Banners(status)
        /\ text = "you can access your VM" => "FROZEN" \notin Banners(status)
        /\ text = "running" => Banners(status) \cap {"FROZEN", "LOCKED"} = {}
        /\ text = "ended, network is locked" =>
             "LOCKED" \in Banners(status) \/ LastRoundLasts
        /\ /\ "scoreboard frozen" \in Banners(status)
           /\ Played(status.freeze_round)
           /\ status.freeze_round <= exposed
           => \A t \in Targets : ShownRound(t) = status.freeze_round

=============================================================================
