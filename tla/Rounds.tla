------------------------------- MODULE Rounds -------------------------------
(***************************************************************************)
(* The game clock and the round loop of the game server:                   *)
(* gameserver/src/checkers.go.                                             *)
(*                                                                         *)
(* checkerRoutine runs the game round by round.  In each round one         *)
(* goroutine per (team, service) pair generates a flag, submits the        *)
(* PUT_FLAG, CHECK_SLA and GET_FLAG jobs, collects their answers and       *)
(* writes one row of the status history; when all of them are done and the *)
(* round is over, it is exposed to the players.  Organizers pause and      *)
(* resume the game while this goes on; on resume the clock is shifted.     *)
(* The scoreboard freezes at a scheduled time, the game ends at another.   *)
(* The process may be killed between any two database writes and started   *)
(* again; everything but the database is then read anew.                   *)
(*                                                                         *)
(* The steps of the control process take no time compared to a tick: the   *)
(* clock moves only while all of its goroutines wait.  The database is     *)
(* assumed to accept every write.                                          *)
(***************************************************************************)
EXTENDS Integers, FiniteSets

CONSTANTS
  Targets,          (* the (team, service) pairs that are checked           *)
  RoundLen,         (* tick_time                                            *)
  Slack,            (* how long past the deadline an answer is awaited      *)
  Grace,            (* grace_time                                           *)
  FlagExpireTicks,
  Answers,          (* statuses a checker may report                        *)
  InitialStarts,    (* configured start times                               *)
  InitialEnds,      (* configured end times; Never: none                    *)
  InitialFreezes,   (* scheduled freeze times; Never: none                  *)
  Never,
  Horizon,          (* bound: the clock stops here                          *)
  MaxRestarts,      (* bound: crashes of the control process                *)
  MaxPauses         (* bound: how often the organizers pause the game       *)

ASSUME RoundsAssumption ==
  /\ RoundLen \in Nat \ {0}
  /\ Slack \in Nat
  /\ Grace \in Nat
  /\ FlagExpireTicks \in Nat
  /\ Answers \subseteq {"OK", "DOWN", "CRITICAL"}
  /\ InitialStarts \subseteq Nat
  /\ InitialEnds \subseteq Nat \cup {Never}
  /\ InitialFreezes \subseteq Nat \cup {Never}
  /\ Never \notin Nat
  /\ Horizon \in Nat
  /\ MaxRestarts \in Nat
  /\ MaxPauses \in Nat

VARIABLES
  now,          (* the wall clock                                           *)
  db,           (* START_TIME, end_time and freeze time in the database     *)
  gs,           (* the same in memory (GameState)                           *)
  paused,       (* setting game_paused                                      *)
  frozen,       (* setting scoreboard_frozen                                *)
  freezeRound,  (* setting scoreboard_freeze_round, -1 before it is set     *)
  exposed,      (* ACTUAL_ROUND_EXPOSED                                     *)
  flags,        (* table flags                                              *)
  rows,         (* table sla_statues                                        *)
  net,          (* the network state the game server last asked for         *)
  pc,           (* where checkerRoutine is                                  *)
  round,        (* its currentRound                                         *)
  pausedAt,     (* waitWhilePaused's pausedAt                               *)
  task,         (* the goroutines of runServiceRound                        *)
  restarts,     (* crashes so far                                           *)
  pauses,       (* pauses so far                                            *)
  interrupted   (* history: the round that was on when the game was paused; *)
                (* -1 from the next round on                                *)

dbVars     == <<db, paused, frozen, freezeRound>>
gameVars   == <<exposed, flags, rows>>
loopVars   == <<gs, round, pausedAt>>
boundVars  == <<restarts, pauses>>

vars == <<now, dbVars, gameVars, net, pc, loopVars, task, boundVars,
          interrupted>>

-----------------------------------------------------------------------------
Statuses == Answers \cup {"OK", "KILLED", "NOT_CHECKED"}

Waiting == "waiting"       (* no answer yet *)

Points == {"down", "grace", "clearing", "boot", "top", "paused", "shiftEnd",
           "shiftFreeze", "reload", "go", "freeze", "start", "checking", "ended"}

Phases == {"idle", "new", "asking", "publish", "done"}

Times == [start : Nat, end : Nat \cup {Never}, freezeAt : Nat \cup {Never}]

(* A flag is random: a round that is played again after a restart gets a   *)
(* new one.                                                                *)
Flags == [target : Targets, round : Nat, boot : 0..MaxRestarts]

Rows == [target : Targets, round : Nat, put : Statuses, check : Statuses,
         get : Statuses, tot : Nat, up : Nat]

(* statusData of a goroutine and the jobs it still waits for: asked are    *)
(* the flags of the GET_FLAG jobs.  getFailed is history.                  *)
TaskRecords ==
  [phase : Phases, put : Statuses \cup {Waiting},
   check : Statuses \cup {Waiting}, get : Statuses,
   asked : SUBSET Flags, getFailed : BOOLEAN]

Tasks ==
  {k \in TaskRecords :
     k.phase = "publish" => k.put # Waiting /\ k.check # Waiting}

NoTask == [phase |-> "idle", put |-> Waiting, check |-> Waiting,
           get |-> "NOT_CHECKED", asked |-> {}, getFailed |-> FALSE]

TypeOK ==
  /\ now \in 0..Horizon
  /\ db \in Times
  /\ gs \in Times
  /\ paused \in BOOLEAN
  /\ frozen \in BOOLEAN
  /\ freezeRound \in Nat \cup {-1}
  /\ exposed \in Int
  /\ flags \subseteq Flags
  /\ rows \subseteq Rows /\ IsFiniteSet(rows)
  /\ net \in {"FROZEN", "LOCKED", "UNLOCKED"}
  /\ pc \in Points
  /\ round \in Nat
  /\ pausedAt \in 0..now
  /\ task \in [Targets -> Tasks]
  /\ restarts \in 0..MaxRestarts
  /\ pauses \in 0..MaxPauses
  /\ interrupted \in Int

Init ==
  /\ now = 0
  /\ \E s \in InitialStarts, e \in InitialEnds, f \in InitialFreezes :
       db = [start |-> s, end |-> e, freezeAt |-> f]
  /\ gs = db
  /\ paused = FALSE
  /\ frozen = FALSE
  /\ freezeRound = -1
  /\ exposed = -1
  /\ flags = {}
  /\ rows = {}
  /\ net = "FROZEN"
  /\ pc = "down"
  /\ round = 0
  /\ pausedAt = 0
  /\ task = [t \in Targets |-> NoTask]
  /\ restarts = 0
  /\ pauses = 0
  /\ interrupted = -1

-----------------------------------------------------------------------------
(* The clock. *)

(* calcRoundStartTime *)
RoundStart(r) == gs.start + RoundLen * r

PastExactly(time) == time = now
Past(time) == time # Never /\ now > time

(* The round the clock is in. *)
ClockRound == IF now < gs.start THEN 0 ELSE (now - gs.start) \div RoundLen

Deadline == RoundStart(round + 1)

Resting(t) ==
  \/ task[t].phase = "done"
  \/ task[t].phase = "asking" /\ now < Deadline + Slack

(* Every goroutine of the control process sleeps. *)
AllWait ==
  \/ pc \in {"down", "ended"}
  \/ pc = "grace" /\ now < gs.start - Grace
  \/ pc = "boot" /\ now < RoundStart(round)
  \/ pc = "paused" /\ paused
  \/ /\ pc = "checking"
     /\ \A t \in Targets : Resting(t)
     /\ now < Deadline \/ \E t \in Targets : task[t].phase # "done"

Tick ==
  /\ now < Horizon
  /\ AllWait
  /\ now' = now + 1
  /\ UNCHANGED <<dbVars, gameVars, net, pc, loopVars, task, boundVars,
                 interrupted>>

-----------------------------------------------------------------------------
(* Organizers. *)

Pause ==
  /\ ~paused
  /\ pauses < MaxPauses
  /\ pc # "down"
  /\ paused' = TRUE
  /\ pauses' = pauses + 1
  /\ interrupted' = IF interrupted = -1 THEN ClockRound ELSE interrupted
  /\ UNCHANGED <<now, db, frozen, freezeRound, gameVars, net, pc, loopVars,
                 task, restarts>>

Resume ==
  /\ paused
  /\ pc # "down"
  /\ paused' = FALSE
  /\ UNCHANGED <<now, db, frozen, freezeRound, gameVars, net, pc, loopVars,
                 task, boundVars, interrupted>>

-----------------------------------------------------------------------------
(* The process starts and dies. *)

(* What a restart throws away as half written. *)
LeftoverNone(table) == {}
LeftoverInclusive(table) == {x \in table : x.round >= exposed}
Leftover(table) == {x \in table : x.round > exposed}

(* main: the state is read from the database and checkerRoutine starts.    *)
BootEnded ==
  /\ Past(db.end)
  /\ net' = "LOCKED"
  /\ pc' = "ended"
  /\ UNCHANGED <<gameVars, round>>

BootRunning ==
  /\ ~Past(db.end)
  /\ now > db.start
  /\ net' = "UNLOCKED"
  /\ LET current == (now - db.start) \div RoundLen
     IN  IF current > 0
         THEN /\ flags' = flags \ Leftover(flags)
              /\ round' = current + 1
              /\ pc' = "clearing"
         ELSE /\ round' = 0
              /\ pc' = "grace"
              /\ UNCHANGED flags
  /\ UNCHANGED <<exposed, rows>>

BootEarly ==
  /\ ~Past(db.end)
  /\ now <= db.start
  /\ round' = 0
  /\ IF now > db.start - Grace
     THEN net' = "LOCKED" /\ pc' = "boot"
     ELSE pc' = "grace" /\ UNCHANGED net
  /\ UNCHANGED gameVars

Boot ==
  /\ pc = "down"
  /\ gs' = db
  /\ BootEnded \/ BootRunning \/ BootEarly
  /\ UNCHANGED <<now, dbVars, pausedAt, task, boundVars, interrupted>>

(* The flags are deleted first, the rows by a statement of their own.      *)
ClearRows ==
  /\ pc = "clearing"
  /\ rows' = rows \ Leftover(rows)
  /\ pc' = "boot"
  /\ UNCHANGED <<now, dbVars, exposed, flags, net, loopVars, task, boundVars,
                 interrupted>>

(* waitForGraceTime, then the network is locked until the game begins. *)
GraceBegins ==
  /\ pc = "grace"
  /\ now >= gs.start - Grace
  /\ net' = "LOCKED"
  /\ pc' = "boot"
  /\ UNCHANGED <<now, dbVars, gameVars, loopVars, task, boundVars, interrupted>>

(* waitForRound of the first round of this process. *)
EnterLoop ==
  /\ pc = "boot"
  /\ now >= RoundStart(round)
  /\ net' = IF round = 0 THEN "UNLOCKED" ELSE net
  /\ pc' = "top"
  /\ UNCHANGED <<now, dbVars, gameVars, loopVars, task, boundVars, interrupted>>

Crash ==
  /\ pc # "down"
  /\ restarts < MaxRestarts
  /\ restarts' = restarts + 1
  /\ pc' = "down"
  /\ task' = [t \in Targets |-> NoTask]
  /\ interrupted' = IF paused THEN interrupted ELSE -1
  /\ UNCHANGED <<now, dbVars, gameVars, net, loopVars, pauses>>

-----------------------------------------------------------------------------
(* The loop of checkerRoutine. *)

(* waitWhilePaused *)
CheckPause ==
  /\ pc = "top"
  /\ pc' = IF paused THEN "paused" ELSE "go"
  /\ pausedAt' = IF paused THEN now ELSE pausedAt
  /\ UNCHANGED <<now, dbVars, gameVars, net, gs, round, task, boundVars,
                 interrupted>>

(* shiftGameClock, one database write at a time. *)
ElapsedNone == 0
Elapsed == now - pausedAt

Shifted(time) == IF time = Never THEN Never ELSE time + Elapsed

ShiftStart ==
  /\ pc = "paused"
  /\ ~paused
  /\ db' = [db EXCEPT !.start = gs.start + Elapsed]
  /\ pc' = "shiftEnd"
  /\ UNCHANGED <<now, paused, frozen, freezeRound, gameVars, net, loopVars,
                 task, boundVars, interrupted>>

ShiftEnd ==
  /\ pc = "shiftEnd"
  /\ db' = [db EXCEPT !.end = Shifted(gs.end)]
  /\ pc' = "shiftFreeze"
  /\ UNCHANGED <<now, paused, frozen, freezeRound, gameVars, net, loopVars,
                 task, boundVars, interrupted>>

ShiftFreeze ==
  /\ pc = "shiftFreeze"
  /\ db' = [db EXCEPT !.freezeAt = Shifted(gs.freezeAt)]
  /\ pc' = "reload"
  /\ UNCHANGED <<now, paused, frozen, freezeRound, gameVars, net, loopVars,
                 task, boundVars, interrupted>>

Reload ==
  /\ pc = "reload"
  /\ gs' = db
  /\ pc' = "go"
  /\ UNCHANGED <<now, dbVars, gameVars, net, round, pausedAt, task, boundVars,
                 interrupted>>

(* The game is over: the network is locked and the loop ends. *)
EndGame ==
  /\ pc = "go"
  /\ Past(gs.end)
  /\ net' = "LOCKED"
  /\ pc' = "ended"
  /\ UNCHANGED <<now, dbVars, gameVars, loopVars, task, boundVars, interrupted>>

(* applyScheduledFreeze: SetScoreboardFreeze writes first that the         *)
(* scoreboard is frozen, then at which round.                              *)
FreezeIsDue ==
  ~frozen /\ gs.freezeAt # Never /\ now >= gs.freezeAt

GoOn ==
  /\ pc = "go"
  /\ ~Past(gs.end)
  /\ IF FreezeIsDue
     THEN frozen' = TRUE /\ pc' = "freeze"
     ELSE pc' = "start" /\ UNCHANGED frozen
  /\ UNCHANGED <<now, db, paused, freezeRound, gameVars, net, loopVars, task,
                 boundVars, interrupted>>

RoundToFreezeOffByOne == round
RoundToFreeze == IF round = 0 THEN 0 ELSE round - 1

SetFreezeRound ==
  /\ pc = "freeze"
  /\ freezeRound' = RoundToFreeze
  /\ pc' = "start"
  /\ UNCHANGED <<now, db, paused, frozen, gameVars, net, loopVars, task,
                 boundVars, interrupted>>

(* One goroutine per target. *)
StartRound ==
  /\ pc = "start"
  /\ pc' = "checking"
  /\ task' = [t \in Targets |-> [NoTask EXCEPT !.phase = "new"]]
  /\ interrupted' = IF paused THEN interrupted ELSE -1
  /\ UNCHANGED <<now, dbVars, gameVars, net, loopVars, boundVars>>

(* wg.Wait, waitForRound of the next round, SetExposedRound. *)
CloseRound ==
  /\ pc = "checking"
  /\ \A t \in Targets : task[t].phase = "done"
  /\ now >= Deadline
  /\ round' = round + 1
  /\ exposed' = round
  /\ pc' = "top"
  /\ UNCHANGED <<now, dbVars, flags, rows, net, gs, pausedAt, task, boundVars,
                 interrupted>>

-----------------------------------------------------------------------------
(* runServiceRound *)

ValidFlags(t) ==
  {f \in flags : f.target = t /\ round - f.round < FlagExpireTicks}

NewFlag(t) == [target |-> t, round |-> round, boot |-> restarts]

(* The valid flags are selected, a new one is stored and the jobs are      *)
(* submitted.                                                              *)
Ask(t) ==
  /\ task[t].phase = "new"
  /\ flags' = flags \cup {NewFlag(t)}
  /\ task' = [task EXCEPT ![t] =
       [NoTask EXCEPT !.phase = "asking", !.asked = ValidFlags(t)]]
  /\ UNCHANGED <<now, dbVars, exposed, rows, net, pc, loopVars, boundVars,
                 interrupted>>

(* What a goroutine may read from a job's result channel, or make of its   *)
(* silence.                                                                *)
Replies == Answers \cup {"KILLED"}

(* The goroutine publishes once every answer is in (jobsWg). *)
PhaseAfterGet(k) ==
  IF k.put # Waiting /\ k.check # Waiting /\ k.asked = {}
     /\ k.get # "NOT_CHECKED"
  THEN "publish" ELSE "asking"
Phase(k) ==
  IF k.put # Waiting /\ k.check # Waiting /\ k.asked = {}
  THEN "publish" ELSE "asking"

Answered(k) == [k EXCEPT !.phase = Phase(k)]

(* A flag that could not be put is forgotten. *)
FlagsKept(t, s) == flags
FlagsAfterPut(t, s) == IF s = "OK" THEN flags ELSE flags \ {NewFlag(t)}

PutAnswer(t, s) ==
  /\ task[t].phase = "asking"
  /\ task[t].put = Waiting
  /\ task' = [task EXCEPT ![t] = Answered([@ EXCEPT !.put = s])]
  /\ flags' = FlagsAfterPut(t, s)
  /\ UNCHANGED <<now, dbVars, exposed, rows, net, pc, loopVars, boundVars,
                 interrupted>>

CheckAnswer(t, s) ==
  /\ task[t].phase = "asking"
  /\ task[t].check = Waiting
  /\ task' = [task EXCEPT ![t] = Answered([@ EXCEPT !.check = s])]
  /\ UNCHANGED <<now, dbVars, gameVars, net, pc, loopVars, boundVars,
                 interrupted>>

(* The first failure is kept. *)
GetStatusLast(old, s) == s
GetStatus(old, s) == IF old \in {"NOT_CHECKED", "OK"} THEN s ELSE old

Got(k, f, s) == [k EXCEPT !.asked = k.asked \ {f},
                          !.get = GetStatus(k.get, s),
                          !.getFailed = k.getFailed \/ s # "OK"]

GetAnswer(t, f, s) ==
  /\ task[t].phase = "asking"
  /\ f \in task[t].asked
  /\ task' = [task EXCEPT ![t] = Answered(Got(task[t], f, s))]
  /\ UNCHANGED <<now, dbVars, gameVars, net, pc, loopVars, boundVars,
                 interrupted>>

(* calcSLA over a set of rows of one target. *)
Checked(S) ==
  {x \in S : "CRITICAL" \notin {x.put, x.check, x.get}}

Up(S) ==
  {x \in S : x.put = "OK" /\ x.check = "OK" /\ x.get \in {"OK", "NOT_CHECKED"}}

RowsOf(t) == {x \in rows : x.target = t}

(* The rows the SLA is computed from: inside the transaction, the new one  *)
(* included.                                                               *)
SlaRowsFromPool(t, row) == RowsOf(t)
SlaRows(t, row) == RowsOf(t) \cup {row}

(* waitForRound(currentRound), which is over at once, and the transaction. *)
(* A row that is already there makes it fail as a whole.                   *)
PublishRow(t) ==
  /\ task[t].phase = "publish"
  /\ now >= RoundStart(round)
  /\ LET row == [target |-> t, round |-> round, put |-> task[t].put,
                 check |-> task[t].check, get |-> task[t].get,
                 tot |-> 0, up |-> 0]
         S   == SlaRows(t, row)
     IN  rows' = IF \E x \in RowsOf(t) : x.round = round
                 THEN rows
                 ELSE rows \cup {[row EXCEPT !.tot = Cardinality(Checked(S)),
                                             !.up = Cardinality(Up(S))]}
  /\ task' = [task EXCEPT ![t] = [NoTask EXCEPT !.phase = "done"]]
  /\ UNCHANGED <<now, dbVars, exposed, flags, net, pc, loopVars, boundVars,
                 interrupted>>

-----------------------------------------------------------------------------
Loop ==
  \/ Boot \/ ClearRows \/ GraceBegins \/ EnterLoop
  \/ CheckPause \/ ShiftStart \/ ShiftEnd \/ ShiftFreeze \/ Reload
  \/ EndGame \/ GoOn \/ SetFreezeRound \/ StartRound \/ CloseRound

(* Answers come when they come, and until the orchestrator's own timeout.  *)
Answer(t) ==
  \E s \in Replies :
    \/ PutAnswer(t, s)
    \/ CheckAnswer(t, s)
    \/ \E f \in task[t].asked : GetAnswer(t, f, s)

Next ==
  \/ Tick
  \/ Pause \/ Resume \/ Crash
  \/ Loop
  \/ \E t \in Targets : Ask(t) \/ Answer(t) \/ PublishRow(t)

(* Time passes, the goroutines are scheduled, and a killed process is      *)
(* started again.  Answers are fair because the goroutine stops waiting on *)
(* its own.  Organizers resume the game only if they like.                 *)
Fairness ==
  /\ WF_vars(Tick)
  /\ WF_vars(Loop)
  /\ \A t \in Targets :
       /\ WF_vars(Ask(t))
       /\ WF_vars(now >= Deadline + Slack /\ Answer(t))
       /\ WF_vars(PublishRow(t))

Spec == Init /\ [][Next]_vars

FairSpec == Spec /\ Fairness
-----------------------------------------------------------------------------
(* What players are shown is append-only: rounds are exposed complete and  *)
(* in order, and neither a crash nor a late answer changes an exposed one. *)
History ==
  INSTANCE RoundHistory
  WITH last <- exposed, table <- {x \in rows : x.round <= exposed}

ImplementsHistory == History!Spec

(* The flags of an exposed round are final as well: nobody is paid for a   *)
(* flag that vanishes later, and none appears in hindsight.                *)
FlagsFinal ==
  [][\A f \in flags \cup flags' :
       f.round <= exposed => f \in flags /\ f \in flags']_vars

(* A row tells whether the flag of its round is in the game: there is one  *)
(* flag if PUT_FLAG succeeded and none otherwise; and GET_FLAG was skipped *)
(* if there was "no valid flag left to look for" (RulesContent.tsx:438),   *)
(* and only then, as long as the row's round was played once.  It is so    *)
(* for every exposed round, for good, and for the round in progress; what  *)
(* a crash left behind of another round may be a row without its flag, and *)
(* nobody is shown it.                                                     *)
PlayedOnce(r) == r > 0 \/ restarts = 0

FlagsAt(t, r) == {f \in flags : f.target = t /\ f.round = r}
FlagsBefore(t, r) ==
  {f \in flags : f.target = t /\ r - f.round \in 1..FlagExpireTicks - 1}

RowMatchesFlags(x) ==
  /\ Cardinality(FlagsAt(x.target, x.round)) = IF x.put = "OK" THEN 1 ELSE 0
  /\ x.get = "NOT_CHECKED" <=> FlagsBefore(x.target, x.round) = {}

InLoop ==
  pc \in {"top", "paused", "shiftEnd", "shiftFreeze", "reload", "go", "freeze",
          "start", "checking"}

StatusMatchesFlags ==
  \A x \in rows :
    PlayedOnce(x.round) /\ (x.round <= exposed \/ InLoop) => RowMatchesFlags(x)

(* Once one of the valid flags could not be read back, no later answer     *)
(* makes GET_FLAG look fine again, in whatever order they come.            *)
FailureKept ==
  \A t \in Targets :
    task[t].getFailed => task[t].get \notin {"OK", "NOT_CHECKED"}

(* The SLA counters of a row can be recomputed from the history up to it:  *)
(* restarts and replayed rounds leave no row counted twice or missed.      *)
SlaReproducible ==
  \A x \in rows :
    LET S == {y \in RowsOf(x.target) : y.round <= x.round}
    IN  x.tot = Cardinality(Checked(S)) /\ x.up = Cardinality(Up(S))

(* A round starts when the clock says so and at most Slack late, however   *)
(* often the game was paused; only the first one may be picked up in its   *)
(* middle, by a process that was started then.                             *)
StartStep ==
  StartRound =>
    now - RoundStart(round) \in 0..(IF round = 0 THEN RoundLen - 1 ELSE Slack)
StartsOnTime == [][StartStep]_vars

(* No round is lost because of a pause: the game goes on with the round    *)
(* that was interrupted or the one after it (and each crash in between may *)
(* cost one more).                                                         *)
ContinueStep ==
  StartRound /\ interrupted # -1 /\ ~paused =>
    round <= interrupted + 1 + restarts
NoRoundLost == [][ContinueStep]_vars

(* While the scoreboard is frozen it shows the scores of the freeze round: *)
(* scoreRound picks the round, and buildTeamRound falls back to the live   *)
(* row where that round has none.                                          *)
ScoreRound ==
  IF frozen /\ freezeRound \in 0..(exposed - 1) THEN freezeRound ELSE exposed

ShownRound(t) ==
  IF \E x \in RowsOf(t) : x.round = ScoreRound THEN ScoreRound ELSE exposed

FrozenStep ==
  frozen /\ frozen' /\ exposed >= 0 =>
    \A t \in Targets : ShownRound(t)' = ShownRound(t)

FrozenScoresFixed == [][FrozenStep]_vars

(* So it is if the freeze round was played at all.                         *)
Played(r) == \A t \in Targets : \E x \in RowsOf(t) : x.round = r

FrozenAtPlayedRound == [][Played(freezeRound) => FrozenStep]_vars

(* A round closes, whatever the checkers do (jobsWg and wg.Wait): at the   *)
(* latest Slack after its deadline, when nobody waits for answers anymore. *)
RoundCloses ==
  (pc = "checking" /\ Deadline + Slack <= Horizon) ~> pc # "checking"

(* The end of the game is noticed: at the latest when the round in         *)
(* progress closes, the loop stops and the network is locked, unless the   *)
(* organizers pause the game or the process is down.                       *)
EndIsNoticed ==
  (pc = "checking" /\ gs.end # Never /\ now + RoundLen + Slack <= Horizon
     /\ now > gs.end) ~>
  ((pc = "ended" /\ net = "LOCKED") \/ paused \/ pc = "down")

-----------------------------------------------------------------------------
(* Why the history is append-only. *)

Playing == InLoop \/ pc \in {"grace", "clearing", "boot"}

(* unique:sla-check *)
KeysUnique ==
  \A x, y \in rows : x.target = y.target /\ x.round = y.round => x = y

(* The clock of the database never falls behind what was played: a shift   *)
(* takes it back to where the pause was noticed, not further.              *)
ClockCovers ==
  /\ \A x \in rows : db.start + RoundLen * x.round <= now
  /\ exposed >= 0 => db.start + RoundLen * (exposed + 1) <= now
  /\ InLoop => db.start + RoundLen * round <= now
  /\ pc = "paused" => db.start + RoundLen * round <= pausedAt

(* Memory agrees with the database, but for a shift in progress. *)
ClockLoaded ==
  pc \notin {"down", "ended", "shiftEnd", "shiftFreeze", "reload"} =>
    gs.start = db.start

(* The round being played is ahead of the exposed ones, and the only one   *)
(* with rows among those, once the leftovers are cleared.                  *)
RoundAhead ==
  /\ exposed >= -1
  /\ Playing => exposed < round
  /\ Playing /\ pc # "clearing" =>
       \A x \in rows : x.round > exposed => x.round = round

(* Goroutines are at work in the checking phase only, and one that is done *)
(* left its row.                                                           *)
TasksInRound ==
  \A t \in Targets :
    /\ pc # "checking" => task[t].phase \in {"idle", "done"}
    /\ pc = "checking" /\ task[t].phase = "done" =>
         \E x \in rows : x.target = t /\ x.round = round

HistoryInv ==
  /\ KeysUnique
  /\ ClockCovers
  /\ ClockLoaded
  /\ RoundAhead
  /\ TasksInRound

IInv == TypeOK /\ HistoryInv

(* ------- Why the rows match the flags. --------------------------------- *)

(* Like the rows, flags are no later than the clock, and those beyond the  *)
(* exposed rounds belong to the round in progress; which begins with none, *)
(* and without rows.                                                       *)
FlagsInRound ==
  /\ \A f \in flags : db.start + RoundLen * f.round <= now
  /\ pc = "down" /\ restarts = 0 => flags = {} /\ rows = {}
  /\ Playing =>
       \A f \in flags : f.round > exposed => f.round = round

RoundIsFresh ==
  Playing /\ PlayedOnce(round) =>
    /\ \A f \in flags : f.round = round =>
         pc = "checking" /\ task[f.target].phase \notin {"idle", "new"}
    /\ \A x \in rows : x.round = round =>
         pc = "checking" /\ task[x.target].phase = "done"

(* What a goroutine knows of the flags of its target.                      *)
TaskMatchesFlags(t) ==
  /\ FlagsAt(t, round) =
       IF task[t].put \in {Waiting, "OK"} THEN {NewFlag(t)} ELSE {}
  /\ task[t].asked \subseteq FlagsBefore(t, round)
  /\ task[t].get = "NOT_CHECKED" => task[t].asked = FlagsBefore(t, round)
  /\ task[t].get # "NOT_CHECKED" => FlagsBefore(t, round) # {}
  /\ task[t].phase = "publish" => task[t].asked = {}

AnswersMatchFlags ==
  PlayedOnce(round) =>
    \A t \in Targets :
      task[t].phase \in {"asking", "publish"} => TaskMatchesFlags(t)

FlagsInv == FlagsInRound /\ RoundIsFresh /\ AnswersMatchFlags /\ StatusMatchesFlags

-----------------------------------------------------------------------------
(* What the code says of itself and does not do. *)

(* "only publish the status when the round is over" (checkers.go:301).     *)
PublishedWhenOver ==
  [][\A x \in rows' \ rows : now >= RoundStart(x.round + 1)]_vars

(* "Data after the last exposed round is probably half written"            *)
(* (checkers.go:375) and is thrown away before the game goes on.           *)
NothingHalfWritten ==
  [][EnterLoop => Leftover(flags) = {} /\ Leftover(rows) = {}]_vars
=============================================================================
