---------------------------- MODULE RoundsProofs ----------------------------
(* Proofs about Rounds, for any targets, times, bounds and restarts.       *)
EXTENDS ServiceCells, FiniteSetTheorems, TLAPS

USE RoundsAssumption DEF RoundsAssumption, Playing

(***************************************************************************)
(* Arithmetic of rounds.                                                   *)
(***************************************************************************)
LEMMA RoundOfTime ==
  ASSUME NEW d \in Nat
  PROVE  /\ d \div RoundLen \in Nat
         /\ RoundLen * (d \div RoundLen) <= d
         /\ d < RoundLen * (d \div RoundLen + 1)
OBVIOUS

LEMMA LaterRound ==
  ASSUME NEW r \in Int, NEW s \in Int, r <= s
  PROVE  RoundLen * r <= RoundLen * s
OBVIOUS
(***************************************************************************)
(* Type correctness.                                                       *)
(***************************************************************************)
LEMMA NoTaskType == NoTask \in Tasks
BY DEF NoTask, Tasks, TaskRecords, Phases, Waiting, Statuses

LEMMA TaskFields ==
  ASSUME TypeOK, NEW t \in Targets
  PROVE  /\ task[t] \in Tasks
         /\ task[t].put \in Statuses \cup {Waiting}
         /\ task[t].check \in Statuses \cup {Waiting}
         /\ task[t].get \in Statuses
         /\ task[t].asked \in SUBSET Flags
         /\ task[t].getFailed \in BOOLEAN
         /\ task[t] \in TaskRecords
BY DEF TypeOK, Tasks, TaskRecords

LEMMA AnsweredType ==
  ASSUME NEW k \in TaskRecords
  PROVE  Answered(k) \in Tasks
<1>1. CASE Phase(k) = "publish"
  <2>1. k.put # Waiting /\ k.check # Waiting
    BY <1>1 DEF Phase
  <2>. QED
    BY <1>1, <2>1 DEF Answered, Tasks, TaskRecords, Phases
<1>2. CASE Phase(k) = "asking"
  BY <1>2 DEF Answered, Tasks, TaskRecords, Phases
<1>. QED
  BY <1>1, <1>2 DEF Phase

LEMMA BootType ==
  ASSUME TypeOK, Boot
  PROVE  TypeOK'
<1>1. gs' \in Times
  BY DEF TypeOK, Boot
<1>2. CASE BootEnded
  BY <1>1, <1>2 DEF TypeOK, Boot, BootEnded, dbVars, gameVars, boundVars, Points
<1>3. CASE BootRunning
  <2>1. (now - db.start) \div RoundLen \in Nat
    <3>1. now - db.start \in Nat
      BY <1>3 DEF TypeOK, BootRunning, Times
    <3>. QED
      BY <3>1, RoundOfTime
  <2>2. round' \in Nat /\ pc' \in Points
    BY <1>3, <2>1 DEF BootRunning, Points
  <2>3. flags' \subseteq flags /\ rows' \subseteq rows
    BY <1>3 DEF BootRunning
  <2>4. IsFiniteSet(rows')
    BY <2>3, FS_Subset DEF TypeOK
  <2>. QED
    BY <1>1, <1>3, <2>2, <2>3, <2>4
    DEF TypeOK, Boot, BootRunning, dbVars, boundVars
<1>4. CASE BootEarly
  BY <1>1, <1>4 DEF TypeOK, Boot, BootEarly, dbVars, gameVars, boundVars, Points
<1>. QED
  BY <1>2, <1>3, <1>4 DEF Boot

LEMMA ClearRowsType ==
  ASSUME TypeOK, ClearRows
  PROVE  TypeOK'
<1>1. rows' \subseteq rows /\ IsFiniteSet(rows')
  BY FS_Subset DEF TypeOK, ClearRows
<1>. QED
  BY <1>1 DEF TypeOK, ClearRows, Points, dbVars, loopVars, boundVars

LEMMA PublishRowType ==
  ASSUME TypeOK, NEW t \in Targets, PublishRow(t)
  PROVE  TypeOK'
<1>. DEFINE row == [target |-> t, round |-> round, put |-> task[t].put,
                    check |-> task[t].check, get |-> task[t].get,
                    tot |-> 0, up |-> 0]
            S   == SlaRows(t, row)
            new == [row EXCEPT !.tot = Cardinality(Checked(S)),
                               !.up = Cardinality(Up(S))]
<1>1. IsFiniteSet(S)
  <2>1. IsFiniteSet(RowsOf(t))
    BY FS_Subset DEF TypeOK, RowsOf
  <2>. QED
    BY <2>1, FS_AddElement DEF SlaRows
<1>2. Cardinality(Checked(S)) \in Nat /\ Cardinality(Up(S)) \in Nat
  <2>1. Checked(S) \subseteq S /\ Up(S) \subseteq S
    BY DEF Checked, Up
  <2>2. IsFiniteSet(Checked(S)) /\ IsFiniteSet(Up(S))
    BY <1>1, <2>1, FS_Subset
  <2>. QED
    BY <2>2, FS_CardinalityType
<1>3. new \in Rows
  <2>1. task[t].put # Waiting /\ task[t].check # Waiting
    BY DEF TypeOK, PublishRow, Tasks
  <2>. QED
    BY <1>2, <2>1, TaskFields DEF TypeOK, Rows
<1>4. rows' = rows \/ rows' = rows \cup {new}
  BY DEF PublishRow
<1>5. IsFiniteSet(rows')
  BY <1>4, FS_AddElement DEF TypeOK
<1>6. task' \in [Targets -> Tasks]
  BY NoTaskType DEF TypeOK, PublishRow, Tasks, TaskRecords, Phases
<1>7. rows' \subseteq Rows
  <2>. HIDE DEF new
  <2>. QED
    BY <1>3, <1>4 DEF TypeOK
<1>. QED
  BY <1>5, <1>6, <1>7 DEF TypeOK, PublishRow, dbVars, loopVars, boundVars

LEMMA AnswerType ==
  ASSUME TypeOK, NEW t \in Targets, Answer(t)
  PROVE  TypeOK'
<1>1. PICK s \in Replies :
         \/ PutAnswer(t, s)
         \/ CheckAnswer(t, s)
         \/ \E f \in task[t].asked : GetAnswer(t, f, s)
  BY DEF Answer
<1>2. s \in Statuses
  BY DEF Replies, Statuses
<1>3. CASE PutAnswer(t, s)
  <2>1. [task[t] EXCEPT !.put = s] \in TaskRecords
    BY <1>2, TaskFields DEF TaskRecords
  <2>2. task' \in [Targets -> Tasks]
    BY <1>3, <2>1, AnsweredType DEF TypeOK, PutAnswer
  <2>3. flags' \subseteq flags
    BY <1>3 DEF PutAnswer, FlagsAfterPut
  <2>. QED
    BY <1>3, <2>2, <2>3 DEF TypeOK, PutAnswer, dbVars, loopVars, boundVars
<1>4. CASE CheckAnswer(t, s)
  <2>1. [task[t] EXCEPT !.check = s] \in TaskRecords
    BY <1>2, TaskFields DEF TaskRecords
  <2>2. task' \in [Targets -> Tasks]
    BY <1>4, <2>1, AnsweredType DEF TypeOK, CheckAnswer
  <2>. QED
    BY <1>4, <2>2
    DEF TypeOK, CheckAnswer, dbVars, gameVars, loopVars, boundVars
<1>5. ASSUME NEW f \in task[t].asked, GetAnswer(t, f, s)
      PROVE  TypeOK'
  <2>1. Got(task[t], f, s) \in TaskRecords
    <3>1. GetStatus(task[t].get, s) \in Statuses
      BY <1>2, TaskFields DEF GetStatus
    <3>. QED
      BY <3>1, TaskFields DEF Got, TaskRecords
  <2>2. task' \in [Targets -> Tasks]
    BY <1>5, <2>1, AnsweredType DEF TypeOK, GetAnswer
  <2>. QED
    BY <1>5, <2>2
    DEF TypeOK, GetAnswer, dbVars, gameVars, loopVars, boundVars
<1>. QED
  BY <1>1, <1>3, <1>4, <1>5

(* The steps of checkerRoutine after the first wait. *)
LEMMA ShiftType ==
  ASSUME TypeOK, ShiftStart \/ ShiftEnd \/ ShiftFreeze \/ Reload
  PROVE  TypeOK'
<1>1. Elapsed \in Nat
  BY DEF TypeOK, Elapsed
<1>2. gs.start + Elapsed \in Nat
  BY <1>1 DEF TypeOK, Times
<1>3. \A time \in Nat \cup {Never} : Shifted(time) \in Nat \cup {Never}
  BY <1>1 DEF Shifted
<1>4. Shifted(gs.end) \in Nat \cup {Never}
      /\ Shifted(gs.freezeAt) \in Nat \cup {Never}
  BY <1>3 DEF TypeOK, Times
<1>5. CASE ShiftStart
  <2>1. db' \in Times
    BY <1>2, <1>5 DEF TypeOK, Times, ShiftStart
  <2>. QED
    BY <1>5, <2>1
    DEF TypeOK, ShiftStart, Points, gameVars, loopVars, boundVars
<1>6. CASE ShiftEnd
  <2>1. db' \in Times
    BY <1>4, <1>6 DEF TypeOK, Times, ShiftEnd
  <2>. QED
    BY <1>6, <2>1
    DEF TypeOK, ShiftEnd, Points, gameVars, loopVars, boundVars
<1>7. CASE ShiftFreeze
  <2>1. db' \in Times
    BY <1>4, <1>7 DEF TypeOK, Times, ShiftFreeze
  <2>. QED
    BY <1>7, <2>1
    DEF TypeOK, ShiftFreeze, Points, gameVars, loopVars, boundVars
<1>8. CASE Reload
  BY <1>8 DEF TypeOK, Reload, Points, dbVars, gameVars, boundVars
<1>. QED
  BY <1>5, <1>6, <1>7, <1>8

LEMMA LoopType ==
  ASSUME TypeOK, Loop
  PROVE  TypeOK'
<1>1. CASE Boot
  BY <1>1, BootType
<1>2. CASE GraceBegins
  BY <1>2 DEF TypeOK, GraceBegins, Points, dbVars, gameVars, loopVars, boundVars
<1>3. CASE EnterLoop
  BY <1>3 DEF TypeOK, EnterLoop, Points, dbVars, gameVars, loopVars, boundVars
<1>4. CASE CheckPause
  BY <1>4 DEF TypeOK, CheckPause, Points, dbVars, gameVars, boundVars
<1>5. CASE ShiftStart \/ ShiftEnd \/ ShiftFreeze \/ Reload
  BY <1>5, ShiftType
<1>6. CASE EndGame
  BY <1>6 DEF TypeOK, EndGame, Points, dbVars, gameVars, loopVars, boundVars
<1>7. CASE GoOn
  BY <1>7 DEF TypeOK, GoOn, Points, gameVars, loopVars, boundVars
<1>8. CASE SetFreezeRound
  BY <1>8
  DEF TypeOK, SetFreezeRound, RoundToFreeze, Points, gameVars, loopVars,
      boundVars
<1>9. CASE StartRound
  <2>1. [NoTask EXCEPT !.phase = "new"] \in Tasks
    BY NoTaskType DEF Tasks, TaskRecords, Phases
  <2>2. task' \in [Targets -> Tasks]
    BY <1>9, <2>1 DEF StartRound
  <2>. QED
    BY <1>9, <2>2
    DEF TypeOK, StartRound, Points, dbVars, gameVars, loopVars, boundVars
<1>10. CASE CloseRound
  BY <1>10 DEF TypeOK, CloseRound, Points, dbVars, boundVars
<1>. QED
  BY <1>1, <1>2, <1>3, <1>4, <1>5, <1>6, <1>7, <1>8, <1>9, <1>10, ClearRowsType
  DEF Loop

LEMMA AskType ==
  ASSUME TypeOK, NEW t \in Targets, Ask(t)
  PROVE  TypeOK'
<1>1. NewFlag(t) \in Flags
  BY DEF TypeOK, NewFlag, Flags
<1>2. ValidFlags(t) \subseteq Flags
  BY DEF TypeOK, ValidFlags
<1>3. task' \in [Targets -> Tasks]
  <2>1. [NoTask EXCEPT !.phase = "asking", !.asked = ValidFlags(t)] \in Tasks
    BY <1>2, NoTaskType DEF Tasks, TaskRecords, Phases
  <2>. QED
    BY <2>1 DEF TypeOK, Ask
<1>. QED
  BY <1>1, <1>3 DEF TypeOK, Ask, dbVars, loopVars, boundVars

LEMMA InitType == Init => TypeOK
<1>. SUFFICES ASSUME Init
              PROVE  TypeOK
  OBVIOUS
<1>1. db \in Times
  BY DEF Init, Times
<1>2. IsFiniteSet(rows)
  BY FS_EmptySet DEF Init
<1>3. /\ now \in 0..Horizon /\ pausedAt \in 0..now
      /\ freezeRound \in Nat \cup {-1} /\ exposed \in Int
      /\ interrupted \in Int
      /\ restarts \in 0..MaxRestarts /\ pauses \in 0..MaxPauses
  BY DEF Init
<1>4. pc \in Points /\ task \in [Targets -> Tasks]
  BY NoTaskType DEF Init, Points
<1>. QED
  BY <1>1, <1>2, <1>3, <1>4 DEF Init, TypeOK

LEMMA StepType == TypeOK /\ [Next]_vars => TypeOK'
<1>. SUFFICES ASSUME TypeOK, [Next]_vars
              PROVE  TypeOK'
  OBVIOUS
<1>1. CASE Tick
  BY <1>1 DEF TypeOK, Tick, dbVars, gameVars, loopVars, boundVars
<1>2. CASE Pause
  <2>1. ClockRound \in Nat
    <3>1. now < gs.start \/ now - gs.start \in Nat
      BY DEF TypeOK, Times
    <3>. QED
      BY <3>1, RoundOfTime DEF ClockRound
  <2>. QED
    BY <1>2, <2>1 DEF TypeOK, Pause, gameVars, loopVars
<1>3. CASE Resume
  BY <1>3 DEF TypeOK, Resume, gameVars, loopVars, boundVars
<1>4. CASE Crash
  BY <1>4, NoTaskType DEF TypeOK, Crash, Points, dbVars, gameVars, loopVars
<1>5. CASE Loop
  BY <1>5, LoopType
<1>6. ASSUME NEW t \in Targets, Ask(t) \/ Answer(t) \/ PublishRow(t)
      PROVE  TypeOK'
  BY <1>6, AskType, AnswerType, PublishRowType
<1>7. CASE UNCHANGED vars
  BY <1>7 DEF TypeOK, vars, dbVars, gameVars, loopVars, boundVars
<1>. QED
  BY <1>1, <1>2, <1>3, <1>4, <1>5, <1>6, <1>7 DEF Next

(* The state is always well formed; in particular the clock is never       *)
(* shifted into the past and only answered jobs make it into a row.        *)
THEOREM TypeCorrect == Spec => []TypeOK
<1>. QED
  BY InitType, StepType, PTL DEF Spec

(***************************************************************************)
(* The history shown to the players is append-only.                        *)
(***************************************************************************)
LEMMA InitInv == Init => HistoryInv
BY DEF Init, HistoryInv, KeysUnique, ClockCovers, ClockLoaded, RoundAhead,
       TasksInRound, InLoop, NoTask

(* Steps that leave the tables, the goroutines and the clock alone and do  *)
(* not move the loop to another part of the game.                          *)
LEMMA QuietStep ==
  ASSUME TypeOK, HistoryInv,
         UNCHANGED <<db, gs, exposed, rows, pc, round, pausedAt, task>>,
         now' \in Nat, now <= now'
  PROVE  HistoryInv'
<1>1. KeysUnique' /\ ClockLoaded' /\ RoundAhead' /\ TasksInRound'
  BY DEF HistoryInv, KeysUnique, ClockLoaded, RoundAhead, TasksInRound, InLoop
<1>2. ClockCovers'
  <2>1. /\ db.start \in Int /\ now \in Int /\ exposed \in Int /\ round \in Int
        /\ \A x \in rows : x.round \in Int
    BY DEF TypeOK, Times, Rows
  <2>2. \A x \in rows : db.start + RoundLen * x.round <= now'
    BY <2>1 DEF HistoryInv, ClockCovers
  <2>. QED
    BY <2>1, <2>2 DEF HistoryInv, ClockCovers, InLoop
<1>. QED
  BY <1>1, <1>2 DEF HistoryInv

(* A goroutine at work that changes neither the rows nor whether it is     *)
(* done.                                                                   *)
LEMMA GoroutineStep ==
  ASSUME TypeOK, HistoryInv, NEW t \in Targets,
         task[t].phase \in {"new", "asking"},
         task'[t].phase \in {"asking", "publish"},
         \A u \in Targets \ {t} : task'[u] = task[u],
         UNCHANGED <<now, db, gs, exposed, rows, pc, round, pausedAt>>
  PROVE  HistoryInv'
<1>1. pc = "checking"
  BY DEF HistoryInv, TasksInRound
<1>2. TasksInRound'
  BY <1>1 DEF HistoryInv, TasksInRound, TypeOK
<1>3. KeysUnique' /\ ClockCovers' /\ ClockLoaded' /\ RoundAhead'
  BY DEF HistoryInv, KeysUnique, ClockCovers, ClockLoaded, RoundAhead, InLoop
<1>. QED
  BY <1>2, <1>3 DEF HistoryInv

(* Boot: the process comes up in the round the clock is in, or before the  *)
(* first one has been exposed.                                             *)
LEMMA BootInv ==
  ASSUME TypeOK, HistoryInv, Boot
  PROVE  HistoryInv'
<1>1. /\ db.start \in Nat /\ now \in Nat /\ exposed \in Int
      /\ \A x \in rows : x.round \in Nat
  BY DEF TypeOK, Times, Rows
<1>2. /\ rows' = rows
      /\ pc' \in {"ended", "grace", "clearing", "boot"}
      /\ UNCHANGED <<now, db, exposed, task, pausedAt>>
      /\ gs' = db
  BY DEF Boot, BootEnded, BootRunning, BootEarly, gameVars, dbVars
<1>3. KeysUnique' /\ ClockLoaded'
  BY <1>2 DEF HistoryInv, KeysUnique, ClockLoaded
<1>4. ClockCovers'
  BY <1>2 DEF HistoryInv, ClockCovers, InLoop
<1>5. TasksInRound'
  BY <1>2 DEF HistoryInv, TasksInRound, Boot
<1>6. RoundAhead'
  <2>1. CASE BootEnded
    BY <1>2, <2>1 DEF BootEnded, HistoryInv, RoundAhead, InLoop
  <2>2. ASSUME round' = 0, rows' = rows, now < db.start + RoundLen
        PROVE  RoundAhead'
    <3>1. exposed = -1
      <4>1. exposed >= 0 => RoundLen <= RoundLen * (exposed + 1)
        BY <1>1, LaterRound
      <4>. QED
        BY <1>1, <2>2, <4>1 DEF HistoryInv, RoundAhead, ClockCovers
    <3>2. \A x \in rows : x.round = 0
      <4>1. \A x \in rows : x.round > 0 => RoundLen <= RoundLen * x.round
        BY <1>1, LaterRound
      <4>. QED
        BY <1>1, <2>2, <4>1 DEF HistoryInv, ClockCovers
    <3>. QED
      BY <1>2, <2>2, <3>1, <3>2 DEF RoundAhead
  <2>3. CASE BootEarly
    <3>1. round' = 0 /\ rows' = rows /\ now < db.start + RoundLen
      BY <1>1, <2>3 DEF BootEarly, gameVars
    <3>. QED
      BY <2>2, <3>1
  <2>4. CASE BootRunning
    <3>. DEFINE current == (now - db.start) \div RoundLen
    <3>1. /\ current \in Nat
          /\ RoundLen * current <= now - db.start
          /\ now - db.start < RoundLen * (current + 1)
      BY <1>1, <2>4, RoundOfTime DEF BootRunning
    <3>2. CASE current = 0
      <4>1. round' = 0 /\ rows' = rows
        BY <2>4, <3>2 DEF BootRunning
      <4>2. now < db.start + RoundLen
        <5>1. RoundLen * (current + 1) = RoundLen
          <6>1. current + 1 = 1
            BY <3>2
          <6>. HIDE DEF current
          <6>. QED
            BY <6>1
        <5>. HIDE DEF current
        <5>. QED
          BY <1>1, <3>1, <5>1
      <4>. QED
        BY <2>2, <4>1, <4>2
    <3>3. CASE current > 0
      <4>1. round' = current + 1 /\ pc' = "clearing"
        BY <2>4, <3>3 DEF BootRunning
      <4>2. exposed < current + 1
        <5>1. SUFFICES ASSUME exposed >= current + 1
                       PROVE  FALSE
          BY <1>1, <3>1
        <5>2. RoundLen * (current + 1) <= RoundLen * (exposed + 1)
          BY <1>1, <3>1, <5>1, LaterRound
        <5>3. db.start + RoundLen * (exposed + 1) <= now
          BY <3>1, <5>1, <1>1 DEF HistoryInv, ClockCovers
        <5>. QED
          BY <1>1, <3>1, <5>2, <5>3
      <4>. QED
        BY <1>2, <4>1, <4>2 DEF HistoryInv, RoundAhead
    <3>. QED
      BY <3>1, <3>2, <3>3
  <2>. QED
    BY <2>1, <2>3, <2>4 DEF Boot
<1>. QED
  BY <1>3, <1>4, <1>5, <1>6 DEF HistoryInv

(* The rows beyond the exposed rounds are deleted. *)
LEMMA ClearRowsInv ==
  ASSUME TypeOK, HistoryInv, ClearRows
  PROVE  HistoryInv'
<1>1. /\ rows' \subseteq rows /\ pc = "clearing" /\ pc' = "boot"
      /\ \A x \in rows' : ~(x.round > exposed)
      /\ UNCHANGED <<now, db, gs, exposed, round, pausedAt, task>>
  BY DEF ClearRows, Leftover, dbVars, loopVars
<1>2. KeysUnique' /\ ClockCovers' /\ ClockLoaded'
  BY <1>1 DEF HistoryInv, KeysUnique, ClockCovers, ClockLoaded, InLoop
<1>3. RoundAhead' /\ TasksInRound'
  BY <1>1 DEF HistoryInv, RoundAhead, TasksInRound, InLoop
<1>. QED
  BY <1>2, <1>3 DEF HistoryInv

(* PublishRow adds the row of the round being played, unless it is there.  *)
LEMMA PublishRowInv ==
  ASSUME TypeOK, HistoryInv, NEW t \in Targets, PublishRow(t)
  PROVE  HistoryInv'
<1>1. pc = "checking" /\ pc' = "checking"
  BY DEF HistoryInv, TasksInRound, PublishRow
<1>2. PICK new : /\ new.target = t /\ new.round = round
                 /\ rows' = IF \E x \in RowsOf(t) : x.round = round
                            THEN rows ELSE rows \cup {new}
  <2>. DEFINE row == [target |-> t, round |-> round, put |-> task[t].put,
                      check |-> task[t].check, get |-> task[t].get,
                      tot |-> 0, up |-> 0]
              S   == SlaRows(t, row)
              n   == [row EXCEPT !.tot = Cardinality(Checked(S)),
                                 !.up = Cardinality(Up(S))]
  <2>1. n.target = t /\ n.round = round
    OBVIOUS
  <2>2. rows' = IF \E x \in RowsOf(t) : x.round = round
                THEN rows ELSE rows \cup {n}
    BY DEF PublishRow
  <2>. HIDE DEF n
  <2>. QED
    BY <2>1, <2>2
<1>3. /\ UNCHANGED <<now, db, gs, exposed, round, pausedAt>>
      /\ task' = [task EXCEPT ![t] = [NoTask EXCEPT !.phase = "done"]]
  BY DEF PublishRow, dbVars, loopVars
<1>4. KeysUnique'
  BY <1>2 DEF HistoryInv, KeysUnique, RowsOf
<1>5. ClockCovers'
  BY <1>1, <1>2, <1>3 DEF HistoryInv, ClockCovers, InLoop
<1>6. ClockLoaded' /\ RoundAhead'
  BY <1>1, <1>2, <1>3 DEF HistoryInv, ClockLoaded, RoundAhead, InLoop
<1>7. TasksInRound'
  <2>1. \E x \in rows' : x.target = t /\ x.round = round
    BY <1>2 DEF RowsOf
  <2>2. \A u \in Targets \ {t} : task'[u] = task[u]
    BY <1>3 DEF TypeOK
  <2>3. rows \subseteq rows'
    BY <1>2
  <2>. QED
    BY <1>1, <1>3, <2>1, <2>2, <2>3 DEF HistoryInv, TasksInRound
<1>. QED
  BY <1>4, <1>5, <1>6, <1>7 DEF HistoryInv

(* CloseRound exposes the round that was played: it is over.               *)
LEMMA CloseRoundInv ==
  ASSUME TypeOK, HistoryInv, CloseRound
  PROVE  HistoryInv'
<1>1. /\ pc = "checking" /\ pc' = "top" /\ round' = round + 1
      /\ exposed' = round
      /\ \A t \in Targets : task[t].phase = "done"
      /\ UNCHANGED <<now, db, gs, rows, task, pausedAt>>
  BY DEF CloseRound, dbVars
<1>2. db.start + RoundLen * (round + 1) <= now
  BY <1>1 DEF HistoryInv, ClockLoaded, CloseRound, Deadline, RoundStart
<1>3. KeysUnique' /\ ClockLoaded'
  BY <1>1 DEF HistoryInv, KeysUnique, ClockLoaded
<1>4. ClockCovers'
  BY <1>1, <1>2 DEF HistoryInv, ClockCovers, InLoop
<1>5. RoundAhead'
  BY <1>1 DEF HistoryInv, RoundAhead, InLoop, TypeOK, Rows
<1>6. TasksInRound'
  BY <1>1 DEF TasksInRound
<1>. QED
  BY <1>3, <1>4, <1>5, <1>6 DEF HistoryInv

(* The clock moves on resume, to where the pause was noticed. *)
LEMMA ShiftInv ==
  ASSUME TypeOK, HistoryInv, ShiftStart \/ ShiftEnd \/ ShiftFreeze \/ Reload
  PROVE  HistoryInv'
<1>1. /\ UNCHANGED <<now, exposed, rows, round, pausedAt, task>>
      /\ InLoop /\ InLoop' /\ pc # "checking" /\ pc' # "checking"
      /\ pc' # "paused"
  BY DEF ShiftStart, ShiftEnd, ShiftFreeze, Reload, gameVars, loopVars, dbVars,
         InLoop
<1>2. KeysUnique' /\ RoundAhead' /\ TasksInRound'
  BY <1>1 DEF HistoryInv, KeysUnique, RoundAhead, TasksInRound, InLoop
<1>3. ClockLoaded'
  BY DEF ShiftStart, ShiftEnd, ShiftFreeze, Reload, ClockLoaded, dbVars
<1>4. ClockCovers'
  <2>1. CASE ShiftStart
    <3>1. db'.start = db.start + (now - pausedAt)
      BY <2>1 DEF ShiftStart, Elapsed, HistoryInv, ClockLoaded, TypeOK, Times
    <3>2. /\ db.start \in Int /\ now \in Int /\ pausedAt \in Int
          /\ \A x \in rows : x.round \in Int
          /\ round \in Int /\ exposed \in Int
      BY DEF TypeOK, Times, Rows
    <3>3. db.start + RoundLen * round <= pausedAt
      BY <2>1 DEF HistoryInv, ClockCovers, ShiftStart
    <3>4. exposed < round /\ \A x \in rows : x.round <= round
      BY <1>1, <3>2 DEF HistoryInv, RoundAhead, InLoop
    <3>5. \A x \in rows : RoundLen * x.round <= RoundLen * round
      BY <3>2, <3>4, LaterRound
    <3>6. RoundLen * (exposed + 1) <= RoundLen * round
      BY <3>2, <3>4, LaterRound
    <3>7. \A x \in rows : db'.start + RoundLen * x.round <= now
      BY <3>1, <3>2, <3>3, <3>5
    <3>8. db'.start + RoundLen * (exposed + 1) <= now
      BY <3>1, <3>2, <3>3, <3>6
    <3>9. db'.start + RoundLen * round <= now
      BY <3>1, <3>2, <3>3
    <3>. QED
      BY <1>1, <3>7, <3>8, <3>9 DEF ClockCovers
  <2>2. CASE ShiftEnd \/ ShiftFreeze \/ Reload
    <3>1. db'.start = db.start
      BY <2>2 DEF ShiftEnd, ShiftFreeze, Reload, dbVars, TypeOK, Times
    <3>. QED
      BY <1>1, <3>1 DEF HistoryInv, ClockCovers
  <2>. QED
    BY <2>1, <2>2
<1>. QED
  BY <1>2, <1>3, <1>4 DEF HistoryInv

(* Steps of the loop that touch neither clock nor tables. *)
LEMMA LoopMoveInv ==
  ASSUME TypeOK, HistoryInv,
         \/ GraceBegins \/ EnterLoop \/ CheckPause \/ EndGame \/ GoOn
         \/ SetFreezeRound \/ StartRound
  PROVE  HistoryInv'
<1>1. UNCHANGED <<now, db, gs, exposed, rows, round>>
  BY DEF GraceBegins, EnterLoop, CheckPause, EndGame, GoOn, SetFreezeRound,
         StartRound, dbVars, gameVars, loopVars
<1>2. KeysUnique'
  BY <1>1 DEF HistoryInv, KeysUnique
<1>3. ClockLoaded'
  BY <1>1 DEF HistoryInv, ClockLoaded, GraceBegins, EnterLoop, CheckPause, EndGame,
              GoOn, SetFreezeRound, StartRound
<1>4. RoundAhead'
  BY <1>1 DEF HistoryInv, RoundAhead, InLoop, GraceBegins, EnterLoop, CheckPause,
              EndGame, GoOn, SetFreezeRound, StartRound
<1>5. TasksInRound'
  <2>1. CASE StartRound
    BY <2>1 DEF StartRound, TasksInRound, NoTask
  <2>2. CASE ~StartRound
    BY <1>1, <2>2 DEF HistoryInv, TasksInRound, GraceBegins, EnterLoop, CheckPause,
                      EndGame, GoOn, SetFreezeRound
  <2>. QED
    BY <2>1, <2>2
<1>6. ClockCovers'
  <2>1. CASE EnterLoop
    BY <1>1, <2>1 DEF HistoryInv, ClockCovers, ClockLoaded, InLoop, EnterLoop, RoundStart
  <2>2. CASE ~EnterLoop
    BY <1>1, <2>2 DEF HistoryInv, ClockCovers, InLoop, GraceBegins, CheckPause,
                      EndGame, GoOn, SetFreezeRound, StartRound
  <2>. QED
    BY <2>1, <2>2
<1>. QED
  BY <1>2, <1>3, <1>4, <1>5, <1>6 DEF HistoryInv

LEMMA StepInv == TypeOK /\ HistoryInv /\ [Next]_vars => HistoryInv'
<1>. SUFFICES ASSUME TypeOK, HistoryInv, [Next]_vars
              PROVE  HistoryInv'
  OBVIOUS
<1>1. CASE Tick
  BY <1>1, QuietStep DEF Tick, TypeOK, dbVars, gameVars, loopVars
<1>2. CASE Pause \/ Resume
  BY <1>2, QuietStep DEF Pause, Resume, TypeOK, gameVars, loopVars
<1>3. CASE Crash
  <2>1. /\ UNCHANGED <<now, db, exposed, rows>>
        /\ pc' = "down"
        /\ task' = [t \in Targets |-> NoTask]
    BY <1>3 DEF Crash, dbVars, gameVars
  <2>. QED
    BY <2>1 DEF HistoryInv, KeysUnique, ClockCovers, ClockLoaded, RoundAhead,
                TasksInRound, InLoop, NoTask
<1>4. CASE Loop
  BY <1>4, BootInv, ClearRowsInv, LoopMoveInv, ShiftInv, CloseRoundInv DEF Loop
<1>5. ASSUME NEW t \in Targets, Ask(t)
      PROVE  HistoryInv'
  <2>1. task[t].phase \in {"new", "asking"}
    BY <1>5 DEF Ask
  <2>2. task'[t].phase \in {"asking", "publish"}
    BY <1>5 DEF Ask, NoTask, TypeOK
  <2>3. \A u \in Targets \ {t} : task'[u] = task[u]
    BY <1>5 DEF Ask, TypeOK
  <2>4. UNCHANGED <<now, db, gs, exposed, rows, pc, round, pausedAt>>
    BY <1>5 DEF Ask, dbVars, loopVars
  <2>. QED
    BY <2>1, <2>2, <2>3, <2>4, GoroutineStep
<1>6. ASSUME NEW t \in Targets, Answer(t)
      PROVE  HistoryInv'
  <2>1. UNCHANGED <<now, db, gs, exposed, rows, pc, round, pausedAt>>
    BY <1>6 DEF Answer, PutAnswer, CheckAnswer, GetAnswer, dbVars, gameVars,
                loopVars
  <2>2. PICK k \in TaskRecords : task' = [task EXCEPT ![t] = Answered(k)]
    <3>1. PICK s \in Replies :
             \/ PutAnswer(t, s)
             \/ CheckAnswer(t, s)
             \/ \E f \in task[t].asked : GetAnswer(t, f, s)
      BY <1>6 DEF Answer
    <3>2. s \in Statuses
      BY DEF Replies, Statuses
    <3>3. CASE PutAnswer(t, s)
      <4>1. [task[t] EXCEPT !.put = s] \in TaskRecords
        BY <3>2, TaskFields DEF TaskRecords
      <4>. QED
        BY <3>3, <4>1 DEF PutAnswer
    <3>4. CASE CheckAnswer(t, s)
      <4>1. [task[t] EXCEPT !.check = s] \in TaskRecords
        BY <3>2, TaskFields DEF TaskRecords
      <4>. QED
        BY <3>4, <4>1 DEF CheckAnswer
    <3>5. ASSUME NEW f \in task[t].asked, GetAnswer(t, f, s)
          PROVE  \E k \in TaskRecords : task' = [task EXCEPT ![t] = Answered(k)]
      <4>1. GetStatus(task[t].get, s) \in Statuses
        BY <3>2, TaskFields DEF GetStatus
      <4>2. Got(task[t], f, s) \in TaskRecords
        BY <4>1, TaskFields DEF Got, TaskRecords
      <4>. QED
        BY <3>5, <4>2 DEF GetAnswer
    <3>. QED
      BY <3>1, <3>3, <3>4, <3>5
  <2>3. task[t].phase \in {"new", "asking"}
    BY <1>6 DEF Answer, PutAnswer, CheckAnswer, GetAnswer
  <2>4. Answered(k).phase \in {"asking", "publish"}
    BY DEF Answered, Phase, TaskRecords
  <2>5. task'[t].phase \in {"asking", "publish"}
    BY <2>2, <2>4 DEF TypeOK
  <2>6. \A u \in Targets \ {t} : task'[u] = task[u]
    BY <2>2 DEF TypeOK
  <2>. QED
    BY <2>1, <2>3, <2>5, <2>6, GoroutineStep
<1>7. ASSUME NEW t \in Targets, PublishRow(t)
      PROVE  HistoryInv'
  BY <1>7, PublishRowInv
<1>8. CASE UNCHANGED vars
  BY <1>8, QuietStep DEF vars, TypeOK, dbVars, gameVars, loopVars
<1>. QED
  BY <1>1, <1>2, <1>3, <1>4, <1>5, <1>6, <1>7, <1>8 DEF Next

(* HistoryInv holds in every state: no round is recorded twice, the clock covers *)
(* what was played, and what is recorded beyond the exposed rounds belongs *)
(* to the round in progress.                                               *)
THEOREM RoundsInvariant == Spec => []IInv
<1>. QED
  BY InitType, StepType, InitInv, StepInv, PTL DEF Spec, IInv

Shown == {x \in rows : x.round <= exposed}

LEMMA CloseRoundPublishes ==
  ASSUME TypeOK, HistoryInv, CloseRound
  PROVE  History!Publish
<1>1. /\ exposed' = round /\ rows' = rows /\ exposed < round
      /\ \A x \in rows : x.round > exposed => x.round = round
      /\ \A t \in Targets : \E x \in rows : x.target = t /\ x.round = round
  BY DEF CloseRound, HistoryInv, RoundAhead, TasksInRound, InLoop
<1>2. /\ exposed \in Int /\ round \in Int
      /\ \A x \in rows : x.round \in Int /\ x.target \in Targets
  BY DEF TypeOK, Rows
<1>3. Shown' = {x \in rows : x.round <= round}
  BY <1>1 DEF Shown
<1>4. Shown \subseteq Shown'
  BY <1>1, <1>2, <1>3 DEF Shown
<1>5. Shown' \ Shown = {x \in rows : x.round = round}
  BY <1>1, <1>2, <1>3 DEF Shown
<1>6. \A x, y \in Shown' \ Shown : x.target = y.target => x = y
  BY <1>5 DEF HistoryInv, KeysUnique
<1>7. \A t \in Targets : \E x \in Shown' \ Shown : x.target = t
  BY <1>1, <1>5
<1>8. \A x \in Shown' \ Shown : x.round = exposed' /\ x.target \in Targets
  BY <1>1, <1>2, <1>5
<1>. QED
  BY <1>1, <1>4, <1>6, <1>7, <1>8 DEF History!Publish, Shown

LEMMA HistoryStep ==
  TypeOK /\ HistoryInv /\ [Next]_vars => [History!Publish]_<<exposed, Shown>>
<1>. SUFFICES ASSUME TypeOK, HistoryInv, [Next]_vars
              PROVE  History!Publish \/ UNCHANGED <<exposed, Shown>>
  OBVIOUS
<1>1. CASE UNCHANGED <<rows, exposed>>
  BY <1>1 DEF Shown
<1>2. CASE Boot \/ ClearRows
  <2>1. exposed' = exposed /\ (rows' = rows \/ rows' = rows \ Leftover(rows))
    BY <1>2 DEF Boot, ClearRows, BootEnded, BootRunning, BootEarly, gameVars
  <2>2. \A x \in rows : x.round \in Int
    BY DEF TypeOK, Rows
  <2>3. exposed \in Int
    BY DEF TypeOK
  <2>. QED
    BY <2>1, <2>2, <2>3 DEF Shown, Leftover
<1>3. CASE CloseRound
  BY <1>3, CloseRoundPublishes
<1>4. ASSUME NEW t \in Targets, PublishRow(t)
      PROVE  UNCHANGED <<exposed, Shown>>
  <2>1. exposed' = exposed /\ exposed < round
    BY <1>4 DEF PublishRow, HistoryInv, RoundAhead, TasksInRound, InLoop
  <2>. DEFINE row == [target |-> t, round |-> round, put |-> task[t].put,
                      check |-> task[t].check, get |-> task[t].get,
                      tot |-> 0, up |-> 0]
              S   == SlaRows(t, row)
              n   == [row EXCEPT !.tot = Cardinality(Checked(S)),
                                 !.up = Cardinality(Up(S))]
  <2>2. n.round = round
    OBVIOUS
  <2>3. rows' = rows \/ rows' = rows \cup {n}
    BY <1>4 DEF PublishRow
  <2>4. ~(n.round <= exposed)
    BY <2>1, <2>2 DEF TypeOK
  <2>. HIDE DEF n
  <2>. QED
    BY <2>1, <2>3, <2>4 DEF Shown
<1>5. CASE Loop /\ ~Boot /\ ~ClearRows /\ ~CloseRound
  <2>1. UNCHANGED <<rows, exposed>>
    BY <1>5 DEF Loop, ClearRows, GraceBegins, EnterLoop, CheckPause, ShiftStart, ShiftEnd,
                ShiftFreeze, Reload, EndGame, GoOn, SetFreezeRound, StartRound,
                gameVars
  <2>. QED
    BY <1>1, <2>1
<1>6. CASE Tick \/ Pause \/ Resume \/ Crash \/ UNCHANGED vars
  <2>1. UNCHANGED <<rows, exposed>>
    BY <1>6 DEF Tick, Pause, Resume, Crash, vars, gameVars
  <2>. QED
    BY <1>1, <2>1
<1>7. ASSUME NEW t \in Targets, Ask(t) \/ Answer(t)
      PROVE  UNCHANGED <<exposed, Shown>>
  <2>1. UNCHANGED <<rows, exposed>>
    BY <1>7 DEF Ask, Answer, PutAnswer, CheckAnswer, GetAnswer, gameVars
  <2>. QED
    BY <2>1 DEF Shown
<1>. QED
  BY <1>2, <1>3, <1>4, <1>5, <1>6, <1>7 DEF Next

(* Whatever crashes, restarts, pauses and answers do, the players see an   *)
(* append-only history of complete rounds (SetExposedRound after wg.Wait,  *)
(* the cleanup at the start of checkerRoutine, unique:sla-check).          *)
THEOREM HistoryIsAppendOnly == Spec => ImplementsHistory
<1>1. Init => History!Init
  BY DEF Init, History!Init
<1>2. TypeOK /\ HistoryInv /\ [Next]_vars
      => [History!Publish]_<<exposed, {x \in rows : x.round <= exposed}>>
  BY HistoryStep DEF Shown
<1>. QED
  BY <1>1, <1>2, RoundsInvariant, PTL
  DEF Spec, IInv, ImplementsHistory, History!Spec

-----------------------------------------------------------------------------
(***************************************************************************)
(* Flags, answers and SLA counters.                                        *)
(***************************************************************************)

(* Only the flags of the round in progress come and go, and that round is  *)
(* not exposed.                                                            *)
LEMMA FlagsStep ==
  ASSUME TypeOK, HistoryInv, [Next]_vars, NEW f \in flags \cup flags',
         f.round <= exposed
  PROVE  f \in flags /\ f \in flags'
<1>1. exposed \in Int /\ round \in Int
  BY DEF TypeOK
<1>2. CASE UNCHANGED flags
  BY <1>2
<1>3. CASE Boot
  <2>1. flags' = flags \/ flags' = flags \ Leftover(flags)
    BY <1>3 DEF Boot, BootEnded, BootRunning, BootEarly, gameVars
  <2>2. f \in flags /\ f.round \in Int
    BY <2>1 DEF TypeOK, Flags
  <2>. QED
    BY <1>1, <2>1, <2>2 DEF Leftover
<1>4. ASSUME NEW t \in Targets, NEW s, Ask(t) \/ PutAnswer(t, s)
      PROVE  f \in flags /\ f \in flags'
  <2>1. exposed < round
    BY <1>4 DEF Ask, PutAnswer, HistoryInv, RoundAhead, TasksInRound, InLoop
  <2>2. NewFlag(t).round = round
    BY DEF NewFlag
  <2>3. f # NewFlag(t)
    BY <1>1, <2>1, <2>2
  <2>4. flags' = flags \cup {NewFlag(t)} \/ flags' = flags
        \/ flags' = flags \ {NewFlag(t)}
    BY <1>4 DEF Ask, PutAnswer, FlagsAfterPut
  <2>. QED
    BY <2>3, <2>4
<1>5. CASE Loop /\ ~Boot
  BY <1>2, <1>5 DEF Loop, ClearRows, GraceBegins, EnterLoop, CheckPause, ShiftStart,
     ShiftEnd, ShiftFreeze, Reload, EndGame, GoOn, SetFreezeRound, StartRound,
     CloseRound, gameVars
<1>6. CASE Tick \/ Pause \/ Resume \/ Crash \/ UNCHANGED vars
  BY <1>2, <1>6 DEF Tick, Pause, Resume, Crash, vars, gameVars
<1>7. ASSUME NEW t \in Targets, Answer(t) \/ PublishRow(t)
      PROVE  f \in flags /\ f \in flags'
  BY <1>2, <1>4, <1>7 DEF Answer, CheckAnswer, GetAnswer, PublishRow, gameVars
<1>. QED
  BY <1>3, <1>4, <1>5, <1>6, <1>7 DEF Next

(* No flag of an exposed round vanishes and none appears in hindsight,     *)
(* through late and lost PUT_FLAG answers, crashes and clean-ups.          *)
THEOREM ExposedFlagsFinal == Spec => FlagsFinal
<1>1. IInv /\ [Next]_vars
      => [\A f \in flags \cup flags' :
            f.round <= exposed => f \in flags /\ f \in flags']_vars
  BY FlagsStep DEF IInv
<1>. QED
  BY <1>1, RoundsInvariant, PTL DEF Spec, FlagsFinal

LEMMA AnsweredKeeps ==
  ASSUME NEW k \in TaskRecords
  PROVE  Answered(k).get = k.get /\ Answered(k).getFailed = k.getFailed
BY DEF Answered, TaskRecords

LEMMA FailureStep == TypeOK /\ FailureKept /\ [Next]_vars => FailureKept'
<1>. SUFFICES ASSUME TypeOK, FailureKept, [Next]_vars
              PROVE  FailureKept'
  OBVIOUS
<1>1. CASE UNCHANGED task
  BY <1>1 DEF FailureKept
<1>2. ASSUME NEW t \in Targets, NEW k, task' = [task EXCEPT ![t] = k],
             k.getFailed => k.get \notin {"OK", "NOT_CHECKED"}
      PROVE  FailureKept'
  BY <1>2 DEF FailureKept, TypeOK
<1>3. CASE Crash \/ StartRound
  <2>1. \A t \in Targets : ~task'[t].getFailed
    BY <1>3 DEF Crash, StartRound, NoTask
  <2>. QED
    BY <2>1 DEF FailureKept
<1>4. ASSUME NEW t \in Targets, Ask(t) \/ PublishRow(t)
      PROVE  FailureKept'
  <2>1. \A p, a : ~[NoTask EXCEPT !.phase = p, !.asked = a].getFailed
    BY DEF NoTask
  <2>2. \A p : ~[NoTask EXCEPT !.phase = p].getFailed
    BY DEF NoTask
  <2>. QED
    BY <1>2, <1>4, <2>1, <2>2 DEF Ask, PublishRow
<1>5. ASSUME NEW t \in Targets, NEW s \in Replies, PutAnswer(t, s)
      PROVE  FailureKept'
  <2>. DEFINE k == [task[t] EXCEPT !.put = s]
  <2>1. k \in TaskRecords
    BY TaskFields DEF TaskRecords, Replies, Statuses
  <2>2. k.get = task[t].get /\ k.getFailed = task[t].getFailed
    BY TaskFields DEF TaskRecords
  <2>3. task' = [task EXCEPT ![t] = Answered(k)]
    BY <1>5 DEF PutAnswer, TypeOK
  <2>4. task[t].getFailed => task[t].get \notin {"OK", "NOT_CHECKED"}
    BY DEF FailureKept
  <2>. HIDE DEF k
  <2>5. Answered(k).get = task[t].get /\ Answered(k).getFailed = task[t].getFailed
    BY <2>1, <2>2, AnsweredKeeps
  <2>. QED
    BY <1>2, <2>3, <2>4, <2>5
<1>6. ASSUME NEW t \in Targets, NEW s \in Replies, CheckAnswer(t, s)
      PROVE  FailureKept'
  <2>. DEFINE k == [task[t] EXCEPT !.check = s]
  <2>1. k \in TaskRecords
    BY TaskFields DEF TaskRecords, Replies, Statuses
  <2>2. k.get = task[t].get /\ k.getFailed = task[t].getFailed
    BY TaskFields DEF TaskRecords
  <2>3. task' = [task EXCEPT ![t] = Answered(k)]
    BY <1>6 DEF CheckAnswer, TypeOK
  <2>4. task[t].getFailed => task[t].get \notin {"OK", "NOT_CHECKED"}
    BY DEF FailureKept
  <2>. HIDE DEF k
  <2>5. Answered(k).get = task[t].get /\ Answered(k).getFailed = task[t].getFailed
    BY <2>1, <2>2, AnsweredKeeps
  <2>. QED
    BY <1>2, <2>3, <2>4, <2>5
<1>7. ASSUME NEW t \in Targets, NEW s \in Replies, NEW f \in task[t].asked,
             GetAnswer(t, f, s)
      PROVE  FailureKept'
  <2>1. s # "NOT_CHECKED" /\ s \in Statuses
    BY DEF Replies, Statuses
  <2>2. Got(task[t], f, s) \in TaskRecords
    <3>1. GetStatus(task[t].get, s) \in Statuses
      BY <2>1, TaskFields DEF GetStatus
    <3>. QED
      BY <3>1, TaskFields DEF Got, TaskRecords
  <2>3. /\ Got(task[t], f, s).get = GetStatus(task[t].get, s)
        /\ Got(task[t], f, s).getFailed = (task[t].getFailed \/ s # "OK")
    BY TaskFields DEF Got, TaskRecords
  <2>4. task[t].getFailed \/ s # "OK"
        => GetStatus(task[t].get, s) \notin {"OK", "NOT_CHECKED"}
    BY <2>1 DEF GetStatus, FailureKept
  <2>. QED
    BY <1>2, <1>7, <2>2, <2>3, <2>4, AnsweredKeeps DEF GetAnswer
<1>8. CASE Loop /\ ~StartRound
  BY <1>1, <1>8 DEF Loop, Boot, ClearRows, GraceBegins, EnterLoop, CheckPause, ShiftStart,
     ShiftEnd, ShiftFreeze, Reload, EndGame, GoOn, SetFreezeRound, CloseRound
<1>9. CASE Tick \/ Pause \/ Resume \/ UNCHANGED vars
  BY <1>1, <1>9 DEF Tick, Pause, Resume, vars
<1>. QED
  BY <1>3, <1>4, <1>5, <1>6, <1>7, <1>8, <1>9 DEF Next, Answer

(* One failed GET_FLAG decides the row, whatever the answers for the other *)
(* flags say and in whatever order they come.                              *)
THEOREM FailuresStay == Spec => []FailureKept
<1>1. Init => FailureKept
  BY DEF Init, FailureKept, NoTask
<1>. QED
  BY <1>1, FailureStep, TypeCorrect, PTL DEF Spec

(* What the SLA of a row is computed from.                                 *)
Before(x) == {y \in RowsOf(x.target) : y.round <= x.round}

Reproduced(x) ==
  x.tot = Cardinality(Checked(Before(x))) /\ x.up = Cardinality(Up(Before(x)))

LEMMA PublishedCounts ==
  ASSUME TypeOK, HistoryInv, SlaReproducible, NEW t \in Targets, PublishRow(t)
  PROVE  SlaReproducible'
<1>1. CASE rows' = rows
  BY <1>1 DEF SlaReproducible, RowsOf
<1>2. ASSUME NEW row, NEW n,
             row.target = t, row.round = round, n.target = t, n.round = round,
             n.put = row.put, n.check = row.check, n.get = row.get,
             n.tot = Cardinality(Checked(RowsOf(t) \cup {row})),
             n.up = Cardinality(Up(RowsOf(t) \cup {row})),
             \A x \in RowsOf(t) : x.round # round,
             rows' = rows \cup {n}
      PROVE  SlaReproducible'
  <2>. DEFINE S == RowsOf(t) \cup {row}
  <2>1. /\ exposed < round /\ exposed \in Int /\ round \in Int
        /\ \A x \in rows : x.round > exposed => x.round = round
        /\ \A x \in rows : x.round \in Int
    BY DEF PublishRow, HistoryInv, RoundAhead, TasksInRound, InLoop, TypeOK, Rows
  <2>2. \A x \in RowsOf(t) : x \in rows /\ x.round < round
    BY <1>2, <2>1 DEF RowsOf
  <2>3. row \notin RowsOf(t) /\ n \notin RowsOf(t)
    BY <1>2, <2>1, <2>2
  <2>4. IsFiniteSet(RowsOf(t))
    BY FS_Subset DEF TypeOK, RowsOf
  <2>5. RowsOf(t)' = RowsOf(t) \cup {n}
    BY <1>2 DEF RowsOf
  <2>6. Before(n)' = RowsOf(t) \cup {n}
    BY <1>2, <2>1, <2>2, <2>5 DEF Before
  <2>7. Cardinality(Checked(RowsOf(t) \cup {n})) = Cardinality(Checked(S))
    <3>1. Checked(RowsOf(t)) \subseteq RowsOf(t) /\ IsFiniteSet(Checked(RowsOf(t)))
      BY <2>4, FS_Subset DEF Checked
    <3>2. CASE "CRITICAL" \notin {n.put, n.check, n.get}
      <4>1. /\ Checked(RowsOf(t) \cup {n}) = Checked(RowsOf(t)) \cup {n}
            /\ Checked(S) = Checked(RowsOf(t)) \cup {row}
        BY <1>2, <3>2 DEF Checked
      <4>2. n \notin Checked(RowsOf(t)) /\ row \notin Checked(RowsOf(t))
        BY <2>3, <3>1
      <4>3. /\ Cardinality(Checked(RowsOf(t)) \cup {n}) = Cardinality(Checked(RowsOf(t))) + 1
            /\ Cardinality(Checked(RowsOf(t)) \cup {row}) = Cardinality(Checked(RowsOf(t))) + 1
        BY <3>1, <4>2, FS_AddElement
      <4>. QED
        BY <4>1, <4>3, Zenon
    <3>3. CASE "CRITICAL" \in {n.put, n.check, n.get}
      <4>1. /\ Checked(RowsOf(t) \cup {n}) = Checked(RowsOf(t))
            /\ Checked(S) = Checked(RowsOf(t))
        BY <1>2, <3>3 DEF Checked
      <4>. QED
        BY <4>1
    <3>. QED
      BY <3>2, <3>3
  <2>8. Cardinality(Up(RowsOf(t) \cup {n})) = Cardinality(Up(S))
    <3>. DEFINE Good == n.put = "OK" /\ n.check = "OK" /\ n.get \in {"OK", "NOT_CHECKED"}
    <3>1. Up(RowsOf(t)) \subseteq RowsOf(t) /\ IsFiniteSet(Up(RowsOf(t)))
      BY <2>4, FS_Subset DEF Up
    <3>2. CASE Good
      <4>1. /\ Up(RowsOf(t) \cup {n}) = Up(RowsOf(t)) \cup {n}
            /\ Up(S) = Up(RowsOf(t)) \cup {row}
        BY <1>2, <3>2 DEF Up
      <4>2. n \notin Up(RowsOf(t)) /\ row \notin Up(RowsOf(t))
        BY <2>3, <3>1
      <4>3. /\ Cardinality(Up(RowsOf(t)) \cup {n}) = Cardinality(Up(RowsOf(t))) + 1
            /\ Cardinality(Up(RowsOf(t)) \cup {row}) = Cardinality(Up(RowsOf(t))) + 1
        BY <3>1, <4>2, FS_AddElement
      <4>. QED
        BY <4>1, <4>3, Zenon
    <3>3. CASE ~Good
      <4>1. /\ Up(RowsOf(t) \cup {n}) = Up(RowsOf(t))
            /\ Up(S) = Up(RowsOf(t))
        BY <1>2, <3>3 DEF Up
      <4>. QED
        BY <4>1
    <3>. QED
      BY <3>2, <3>3
  <2>9. ASSUME NEW x \in rows
         PROVE  Before(x)' = Before(x)
    <3>1. CASE x.target = t
      <4>1. x \in RowsOf(t) /\ x.round < round /\ x.round \in Int
        BY <2>1, <2>2, <3>1 DEF RowsOf
      <4>. QED
        BY <1>2, <2>1, <2>5, <3>1, <4>1 DEF Before
    <3>2. CASE x.target # t
      <4>1. RowsOf(x.target)' = RowsOf(x.target)
        BY <1>2, <3>2 DEF RowsOf
      <4>. QED
        BY <4>1 DEF Before
    <3>. QED
      BY <3>1, <3>2
  <2>10. \A x \in rows : Reproduced(x)'
    BY <2>9 DEF SlaReproducible, Reproduced, Before
  <2>11. Reproduced(n)'
    BY <1>2, <2>6, <2>7, <2>8 DEF Reproduced
  <2>. QED
    BY <1>2, <2>10, <2>11 DEF SlaReproducible, Reproduced, Before
<1>3. CASE ~(\E x \in RowsOf(t) : x.round = round)
  <2>. DEFINE row == [target |-> t, round |-> round, put |-> task[t].put,
                      check |-> task[t].check, get |-> task[t].get,
                      tot |-> 0, up |-> 0]
              n   == [row EXCEPT !.tot = Cardinality(Checked(RowsOf(t) \cup {row})),
                                 !.up = Cardinality(Up(RowsOf(t) \cup {row}))]
  <2>1. /\ row.target = t /\ row.round = round /\ n.target = t /\ n.round = round
        /\ n.put = row.put /\ n.check = row.check /\ n.get = row.get
        /\ n.tot = Cardinality(Checked(RowsOf(t) \cup {row}))
        /\ n.up = Cardinality(Up(RowsOf(t) \cup {row}))
    OBVIOUS
  <2>2. rows' = rows \cup {n}
    BY <1>3 DEF PublishRow, SlaRows
  <2>. HIDE DEF row, n
  <2>3. PICK r, m : r = row /\ m = n
    OBVIOUS
  <2>. QED
    BY <1>2, <1>3, <2>1, <2>2, <2>3
<1>. QED
  BY <1>1, <1>3 DEF PublishRow

LEMMA CountsStep ==
  TypeOK /\ HistoryInv /\ SlaReproducible /\ [Next]_vars => SlaReproducible'
<1>. SUFFICES ASSUME TypeOK, HistoryInv, SlaReproducible, [Next]_vars
              PROVE  SlaReproducible'
  OBVIOUS
<1>1. CASE UNCHANGED rows
  BY <1>1 DEF SlaReproducible, RowsOf
<1>2. CASE ClearRows
  <2>1. CASE rows' = rows \ Leftover(rows)
    <3>1. exposed \in Int /\ \A x \in rows : x.round \in Int
      BY DEF TypeOK, Rows
    <3>2. \A x \in rows : x \in rows' <=> x.round <= exposed
      BY <2>1, <3>1 DEF Leftover
    <3>3. rows' \subseteq rows
      BY <2>1
    <3>4. ASSUME NEW x \in rows'
          PROVE  Before(x)' = Before(x)
      BY <3>1, <3>2, <3>3 DEF Before, RowsOf
    <3>. QED
      BY <3>3, <3>4 DEF SlaReproducible, Before
  <2>. QED
    BY <1>2, <2>1 DEF ClearRows
<1>3. CASE Loop /\ ~ClearRows
  BY <1>1, <1>3 DEF Loop, Boot, BootEnded, BootRunning, BootEarly, GraceBegins, EnterLoop, CheckPause, ShiftStart,
     ShiftEnd, ShiftFreeze, Reload, EndGame, GoOn, SetFreezeRound, StartRound,
     CloseRound, gameVars
<1>4. CASE Tick \/ Pause \/ Resume \/ Crash \/ UNCHANGED vars
  BY <1>1, <1>4 DEF Tick, Pause, Resume, Crash, vars, gameVars
<1>5. ASSUME NEW t \in Targets, Ask(t) \/ Answer(t)
      PROVE  SlaReproducible'
  BY <1>1, <1>5 DEF Ask, Answer, PutAnswer, CheckAnswer, GetAnswer, gameVars
<1>. QED
  BY <1>2, <1>3, <1>4, <1>5, PublishedCounts DEF Next

(* Anybody can recompute the SLA counters of every row from the rows up to *)
(* it: restarts, clean-ups and replayed rounds count nothing twice and     *)
(* miss nothing.                                                           *)
THEOREM SlaIsReproducible == Spec => []SlaReproducible
<1>1. Init => SlaReproducible
  BY DEF Init, SlaReproducible
<1>. QED
  BY <1>1, CountsStep, RoundsInvariant, PTL DEF Spec, IInv

-----------------------------------------------------------------------------
(***************************************************************************)
(* The countdown.                                                          *)
(***************************************************************************)

(* Memory never has a later start than the database: shiftGameClock writes *)
(* the new one before it is loaded.                                        *)
StartLoaded == gs.start <= db.start

LEMMA StartLoadedStep == TypeOK /\ StartLoaded /\ [Next]_vars => StartLoaded'
<1>. SUFFICES ASSUME TypeOK, StartLoaded, [Next]_vars
              PROVE  StartLoaded'
  OBVIOUS
<1>0. db \in Times /\ gs \in Times
  BY DEF TypeOK
<1>1. CASE gs' = gs /\ db' = db
  BY <1>1 DEF StartLoaded
<1>2. CASE gs' = db /\ db' = db
  BY <1>0, <1>2 DEF StartLoaded, Times
<1>3. CASE ShiftStart
  <2>1. gs' = gs /\ db' = [db EXCEPT !.start = gs.start + Elapsed]
    BY <1>3 DEF ShiftStart, loopVars
  <2>2. db'.start = gs.start + Elapsed
    BY <1>0, <2>1 DEF Times
  <2>3. Elapsed \in Nat
    BY DEF TypeOK, Elapsed
  <2>. QED
    BY <1>0, <2>1, <2>2, <2>3 DEF StartLoaded, Times
<1>4. CASE ShiftEnd
  <2>1. gs' = gs /\ db'.start = db.start
    BY <1>0, <1>4 DEF ShiftEnd, loopVars, Times
  <2>. QED
    BY <2>1 DEF StartLoaded
<1>5. CASE ShiftFreeze
  <2>1. gs' = gs /\ db'.start = db.start
    BY <1>0, <1>5 DEF ShiftFreeze, loopVars, Times
  <2>. QED
    BY <2>1 DEF StartLoaded
<1>6. CASE Boot \/ Reload
  BY <1>2, <1>6 DEF Boot, Reload, dbVars
<1>7. CASE ClearRows \/ GraceBegins \/ EnterLoop \/ CheckPause \/ EndGame \/ GoOn
           \/ SetFreezeRound \/ StartRound \/ CloseRound
  BY <1>1, <1>7 DEF ClearRows, GraceBegins, EnterLoop, CheckPause, EndGame, GoOn,
     SetFreezeRound, StartRound, CloseRound, dbVars, loopVars
<1>8. CASE Tick \/ Pause \/ Resume \/ Crash \/ UNCHANGED vars
  BY <1>1, <1>8 DEF Tick, Pause, Resume, Crash, vars, dbVars, loopVars
<1>9. ASSUME NEW t \in Targets, Ask(t) \/ Answer(t) \/ PublishRow(t)
      PROVE  StartLoaded'
  BY <1>1, <1>9 DEF Ask, Answer, PutAnswer, CheckAnswer, GetAnswer, PublishRow,
     dbVars, loopVars
<1>. QED
  BY <1>3, <1>4, <1>5, <1>6, <1>7, <1>8, <1>9 DEF Next, Loop

LEMMA BarStaysInRange == TypeOK /\ HistoryInv /\ StartLoaded => BarInRange
<1>. SUFFICES ASSUME TypeOK, HistoryInv, StartLoaded
              PROVE  Bar(status) \in 0..RoundLen
  BY DEF BarInRange
<1>. DEFINE left == timeForNextRound(status)
<1>1. /\ gs.start \in Nat /\ db.start \in Nat /\ now \in Nat
      /\ exposed \in Int /\ RoundLen \in Nat
  BY DEF TypeOK, Times
<1>2. /\ status.start = gs.start /\ status.roundTime = RoundLen
      /\ status.current_round = exposed
  BY DEF status
<1>3. left = gs.start + (exposed + 2) * RoundLen - now
  BY <1>1 DEF timeForNextRound, nextRoundAt, status
<1>4. (exposed + 2) * RoundLen = RoundLen * (exposed + 1) + RoundLen
  BY <1>1
<1>5. RoundLen * (exposed + 1) \in Int /\ left \in Int
  BY <1>1, <1>3
<1>6. ASSUME hasStarted(status)
      PROVE  left <= RoundLen
  <2>1. gs.start < now
    BY <1>2, <1>6 DEF hasStarted
  <2>2. CASE exposed = -1
    BY <1>1, <1>3, <2>1, <2>2
  <2>3. CASE exposed >= 0
    <3>1. db.start + RoundLen * (exposed + 1) <= now
      BY <2>3 DEF HistoryInv, ClockCovers
    <3>2. gs.start <= db.start
      BY DEF StartLoaded
    <3>. QED
      BY <1>1, <1>3, <1>4, <1>5, <3>1, <3>2
  <2>. QED
    BY <1>1, <2>2, <2>3 DEF HistoryInv, RoundAhead
<1>. HIDE DEF left
<1>7. CASE hasEnded(status)
  BY <1>1, <1>2, <1>7 DEF Bar
<1>8. CASE ~hasEnded(status) /\ ~hasStarted(status)
  BY <1>1, <1>8 DEF Bar
<1>9. CASE ~hasEnded(status) /\ hasStarted(status)
  BY <1>1, <1>2, <1>5, <1>6, <1>9 DEF Bar, left
<1>. QED
  BY <1>7, <1>8, <1>9

LEMMA RoundsAreNotEarly == TypeOK /\ HistoryInv /\ [Next]_vars => NotEarly
<1>. SUFFICES ASSUME TypeOK, HistoryInv, [Next]_vars, exposed' # exposed
              PROVE  timeForNextRound(status) <= 0
  BY DEF NotEarly
<1>1. CloseRound
  <2>1. ~Boot
    BY DEF Boot, BootEnded, BootRunning, BootEarly, gameVars
  <2>. QED
    BY <2>1 DEF Next, Loop, vars, gameVars, Tick, Pause, Resume, Crash,
       ClearRows, GraceBegins, EnterLoop, CheckPause, ShiftStart, ShiftEnd, ShiftFreeze,
       Reload, EndGame, GoOn, SetFreezeRound, StartRound, Ask, Answer,
       PutAnswer, CheckAnswer, GetAnswer, PublishRow
<1>2. /\ gs.start \in Nat /\ now \in Nat /\ exposed \in Int /\ round \in Nat
      /\ RoundLen \in Nat
  BY DEF TypeOK, Times
<1>3. exposed + 2 <= round + 1
  BY <1>1, <1>2 DEF CloseRound, HistoryInv, RoundAhead, InLoop
<1>4. now >= gs.start + RoundLen * (round + 1)
  BY <1>1 DEF CloseRound, Deadline, RoundStart
<1>5. RoundLen * (exposed + 2) <= RoundLen * (round + 1)
  BY <1>2, <1>3, LaterRound
<1>6. timeForNextRound(status) = gs.start + RoundLen * (exposed + 2) - now
  BY <1>2 DEF timeForNextRound, nextRoundAt, status
<1>7. RoundLen * (exposed + 2) \in Int /\ RoundLen * (round + 1) \in Int
  BY <1>2
<1>. QED
  BY <1>2, <1>4, <1>5, <1>6, <1>7

(* The round counter of the page (RoundCounter.tsx) stays within a round   *)
(* and never counts down to a round that has come already, through any     *)
(* number of pauses, shifts of the clock, crashes and skipped rounds.      *)
THEOREM CountdownIsHonest == Spec => CountdownHolds
<1>1. Init => StartLoaded
  BY InitType DEF Init, StartLoaded, TypeOK, Times
<1>2. Spec => []StartLoaded
  BY <1>1, StartLoadedStep, TypeCorrect, PTL DEF Spec
<1>3. TypeOK /\ HistoryInv /\ StartLoaded /\ [Next]_vars => [CountdownStep]_vars
  BY RoundsAreNotEarly, BarStaysInRange DEF CountdownStep
<1>. QED
  BY <1>2, <1>3, RoundsInvariant, PTL
  DEF Spec, IInv, CountdownHolds

-----------------------------------------------------------------------------
(***************************************************************************)
(* The rows tell which flags are in the game.                              *)
(***************************************************************************)

LEMMA FlagTypes ==
  ASSUME TypeOK
  PROVE  /\ now \in Int /\ db.start \in Int /\ exposed \in Int
         /\ round \in Nat /\ restarts \in Nat /\ FlagExpireTicks \in Nat
         /\ \A f \in flags : f.round \in Nat
         /\ \A x \in rows : x.round \in Nat /\ x.target \in Targets
BY DEF TypeOK, Times, Flags, Rows

(* Nothing is later than the round being played.                           *)
LEMMA NothingLater ==
  ASSUME TypeOK, HistoryInv, FlagsInRound, Playing
  PROVE  /\ exposed < round
         /\ \A f \in flags : f.round <= round
         /\ pc # "clearing" => \A x \in rows : x.round <= round
BY FlagTypes DEF HistoryInv, RoundAhead, FlagsInRound, Playing

(* A row matches as long as the flags up to its round stay.                *)
LEMMA RowKept ==
  ASSUME TypeOK, NEW x \in rows, RowMatchesFlags(x),
         \A f \in flags \cup flags' :
           f.target = x.target /\ f.round <= x.round =>
             f \in flags /\ f \in flags',
         \A f \in flags' : f.round \in Int
  PROVE  RowMatchesFlags(x)'
<1>1. x.round \in Int /\ \A f \in flags : f.round \in Int
  BY FlagTypes
<1>2. FlagsAt(x.target, x.round)' = FlagsAt(x.target, x.round)
  BY <1>1 DEF FlagsAt
<1>3. FlagsBefore(x.target, x.round)' = FlagsBefore(x.target, x.round)
  BY <1>1 DEF FlagsBefore
<1>. QED
  BY <1>2, <1>3 DEF RowMatchesFlags

(* Once the leftovers are cleared, all rows of rounds played once do.      *)
LEMMA RowMatches ==
  ASSUME TypeOK, HistoryInv, FlagsInv, NEW x \in rows, PlayedOnce(x.round),
         x.round <= exposed \/ (Playing /\ pc # "clearing")
  PROVE  RowMatchesFlags(x)
<1>1. CASE x.round <= exposed \/ InLoop
  BY <1>1 DEF FlagsInv, StatusMatchesFlags
<1>2. CASE ~(x.round <= exposed) /\ ~InLoop
  <2>1. x.round \in Int /\ exposed \in Int
    BY FlagTypes
  <2>2. x.round = round
    BY <1>2, <2>1 DEF HistoryInv, RoundAhead
  <2>3. pc = "checking"
    BY <1>2, <2>2 DEF FlagsInv, RoundIsFresh
  <2>. QED
    BY <1>2, <2>3 DEF InLoop
<1>. QED
  BY <1>1, <1>2

(* The clock part, for steps that do not add flags nor move the clock back. *)
LEMMA FlagsOnTime ==
  ASSUME TypeOK, FlagsInRound, now' \in Int, now <= now', db'.start = db.start,
         flags' \subseteq flags
  PROVE  \A f \in flags' : db'.start + RoundLen * f.round <= now'
<1>1. /\ now \in Int /\ db.start \in Int
      /\ \A f \in flags : f.round \in Int
  BY FlagTypes
<1>2. \A f \in flags : db.start + RoundLen * f.round <= now
  BY DEF FlagsInRound
<1>. QED
  BY <1>1, <1>2

(* Steps that touch neither tables nor goroutines.                         *)
LEMMA QuietFlags ==
  ASSUME TypeOK, HistoryInv, FlagsInv,
         UNCHANGED <<flags, rows, exposed, round, restarts, task>>,
         \A f \in flags : db'.start + RoundLen * f.round <= now',
         pc' = "down" => pc = "down",
         Playing' => Playing,
         InLoop' => pc # "clearing",
         pc = "checking" => pc' \in {"checking", "ended"}
  PROVE  FlagsInv'
<1>1. FlagsInRound'
  BY DEF FlagsInv, FlagsInRound, Playing
<1>2. RoundIsFresh'
  <2>1. SUFFICES ASSUME Playing', PlayedOnce(round)
                 PROVE  RoundIsFresh'
    BY DEF RoundIsFresh, Playing, PlayedOnce
  <2>2. pc = "checking" => pc' = "checking"
    BY <2>1 DEF Playing, InLoop
  <2>. QED
    BY <2>1, <2>2 DEF FlagsInv, RoundIsFresh, Playing, PlayedOnce
<1>3. AnswersMatchFlags'
  <2>1. ASSUME NEW t \in Targets, TaskMatchesFlags(t)
        PROVE  TaskMatchesFlags(t)'
    BY <2>1 DEF TaskMatchesFlags, FlagsAt, FlagsBefore, NewFlag
  <2>. QED
    BY <2>1 DEF FlagsInv, AnswersMatchFlags, PlayedOnce
<1>4. StatusMatchesFlags'
  <2>1. ASSUME NEW x \in rows, RowMatchesFlags(x)
        PROVE  RowMatchesFlags(x)'
    BY <2>1 DEF RowMatchesFlags, FlagsAt, FlagsBefore
  <2>2. ASSUME NEW x \in rows, PlayedOnce(x.round), x.round <= exposed \/ InLoop'
        PROVE  RowMatchesFlags(x)
    BY <2>2, RowMatches
  <2>. QED
    BY <2>1, <2>2 DEF StatusMatchesFlags, PlayedOnce
<1>. QED
  BY <1>1, <1>2, <1>3, <1>4 DEF FlagsInv

(* Resume: the clock goes back to where the pause was noticed. *)
LEMMA ShiftFlags ==
  ASSUME TypeOK, HistoryInv, FlagsInv, ShiftStart
  PROVE  FlagsInv'
<1>1. db'.start = db.start + (now - pausedAt)
  BY DEF ShiftStart, Elapsed, HistoryInv, ClockLoaded, TypeOK, Times
<1>2. pausedAt \in Int
  BY DEF TypeOK
<1>3. db.start + RoundLen * round <= pausedAt
  BY DEF HistoryInv, ClockCovers, ShiftStart
<1>4. \A f \in flags : f.round <= round
  BY NothingLater DEF FlagsInv, Playing, InLoop, ShiftStart
<1>5. ASSUME NEW f \in flags
      PROVE  db'.start + RoundLen * f.round <= now'
  <2>1. f.round \in Int /\ round \in Int /\ db.start \in Int /\ now \in Int
    BY FlagTypes
  <2>2. RoundLen * f.round <= RoundLen * round
    BY <1>4, <2>1, LaterRound
  <2>3. now' = now
    BY DEF ShiftStart
  <2>. QED
    BY <1>1, <1>2, <1>3, <2>1, <2>2, <2>3
<1>. QED
  BY <1>5, QuietFlags
  DEF ShiftStart, gameVars, loopVars, boundVars, Playing, InLoop

(* The other moves of the loop, the clock and the organizers.              *)
LEMMA MoveFlags ==
  ASSUME TypeOK, HistoryInv, FlagsInv,
         \/ Tick \/ Pause \/ Resume \/ UNCHANGED vars
         \/ GraceBegins \/ EnterLoop \/ CheckPause \/ ShiftEnd \/ ShiftFreeze
         \/ Reload \/ EndGame \/ GoOn \/ SetFreezeRound
  PROVE  FlagsInv'
<1>1. now \in Int
  BY FlagTypes
<1>2. now' \in Int /\ now <= now'
  BY <1>1 DEF Tick, Pause, Resume, vars, GraceBegins, EnterLoop, CheckPause, ShiftEnd,
         ShiftFreeze, Reload, EndGame, GoOn, SetFreezeRound
<1>3. db'.start = db.start
  BY DEF Tick, Pause, Resume, vars, GraceBegins, EnterLoop, CheckPause, ShiftEnd,
         ShiftFreeze, Reload, EndGame, GoOn, SetFreezeRound, dbVars, TypeOK, Times
<1>4. UNCHANGED <<flags, rows, exposed, round, restarts, task>>
  BY DEF Tick, Pause, Resume, vars, GraceBegins, EnterLoop, CheckPause, ShiftEnd,
         ShiftFreeze, Reload, EndGame, GoOn, SetFreezeRound, gameVars, loopVars,
         boundVars
<1>5. /\ pc' = "down" => pc = "down"
      /\ Playing' => Playing
      /\ InLoop' => pc # "clearing"
      /\ pc = "checking" => pc' \in {"checking", "ended"}
  BY DEF Tick, Pause, Resume, vars, GraceBegins, EnterLoop, CheckPause, ShiftEnd,
         ShiftFreeze, Reload, EndGame, GoOn, SetFreezeRound, Playing, InLoop
<1>6. \A f \in flags' : db'.start + RoundLen * f.round <= now'
  BY <1>2, <1>3, <1>4, FlagsOnTime DEF FlagsInv
<1>. QED
  BY <1>4, <1>5, <1>6, QuietFlags

(* Every goroutine begins anew, in a round without flags.                  *)
LEMMA StartFlags ==
  ASSUME TypeOK, HistoryInv, FlagsInv, StartRound
  PROVE  FlagsInv'
<1>1. /\ UNCHANGED <<now, db, flags, rows, exposed, round, restarts>>
      /\ pc = "start" /\ pc' = "checking"
      /\ \A t \in Targets : task'[t].phase = "new"
  BY DEF StartRound, dbVars, gameVars, loopVars, boundVars, NoTask
<1>2. FlagsInRound'
  BY <1>1 DEF FlagsInv, FlagsInRound, InLoop
<1>3. RoundIsFresh'
  <2>1. PlayedOnce(round) =>
          /\ \A f \in flags : f.round # round
          /\ \A x \in rows : x.round # round
    BY <1>1 DEF FlagsInv, RoundIsFresh, InLoop
  <2>. QED
    BY <1>1, <2>1 DEF RoundIsFresh, PlayedOnce
<1>4. AnswersMatchFlags'
  BY <1>1 DEF AnswersMatchFlags
<1>5. StatusMatchesFlags'
  <2>1. ASSUME NEW x \in rows, RowMatchesFlags(x)
        PROVE  RowMatchesFlags(x)'
    BY <1>1, <2>1 DEF RowMatchesFlags, FlagsAt, FlagsBefore
  <2>. QED
    BY <1>1, <2>1 DEF FlagsInv, StatusMatchesFlags, PlayedOnce, InLoop
<1>. QED
  BY <1>2, <1>3, <1>4, <1>5 DEF FlagsInv

(* The next round begins without flags and rows.                           *)
LEMMA CloseFlags ==
  ASSUME TypeOK, HistoryInv, FlagsInv, CloseRound
  PROVE  FlagsInv'
<1>1. /\ UNCHANGED <<now, db, flags, rows, restarts, task>>
      /\ pc = "checking" /\ pc' = "top"
      /\ exposed' = round /\ round' = round + 1
      /\ \A t \in Targets : task[t].phase = "done"
  BY DEF CloseRound, dbVars, boundVars
<1>2. /\ \A f \in flags : f.round <= round /\ f.round \in Nat
      /\ \A x \in rows : x.round <= round /\ x.round \in Nat
      /\ round \in Nat
  BY <1>1, NothingLater, FlagTypes DEF FlagsInv, Playing, InLoop
<1>3. FlagsInRound'
  BY <1>1, <1>2 DEF FlagsInv, FlagsInRound
<1>4. RoundIsFresh'
  BY <1>1, <1>2 DEF RoundIsFresh
<1>5. AnswersMatchFlags'
  BY <1>1 DEF AnswersMatchFlags
<1>6. StatusMatchesFlags'
  <2>1. ASSUME NEW x \in rows, RowMatchesFlags(x)
        PROVE  RowMatchesFlags(x)'
    BY <1>1, <2>1 DEF RowMatchesFlags, FlagsAt, FlagsBefore
  <2>. QED
    BY <1>1, <2>1 DEF FlagsInv, StatusMatchesFlags, PlayedOnce, InLoop
<1>. QED
  BY <1>3, <1>4, <1>5, <1>6 DEF FlagsInv

(* The process dies; what is stored stays.                                 *)
LEMMA CrashFlags ==
  ASSUME TypeOK, HistoryInv, FlagsInv, Crash
  PROVE  FlagsInv'
<1>1. /\ UNCHANGED <<now, db, flags, rows, exposed, round>>
      /\ pc' = "down" /\ restarts' = restarts + 1 /\ restarts \in Nat
      /\ \A t \in Targets : task'[t].phase = "idle"
  BY FlagTypes DEF Crash, dbVars, gameVars, loopVars, NoTask
<1>2. FlagsInRound'
  BY <1>1 DEF FlagsInv, FlagsInRound, InLoop
<1>3. RoundIsFresh' /\ AnswersMatchFlags'
  BY <1>1 DEF RoundIsFresh, AnswersMatchFlags, InLoop
<1>4. StatusMatchesFlags'
  <2>1. ASSUME NEW x \in rows, RowMatchesFlags(x)
        PROVE  RowMatchesFlags(x)'
    BY <1>1, <2>1 DEF RowMatchesFlags, FlagsAt, FlagsBefore
  <2>. QED
    BY <1>1, <2>1 DEF FlagsInv, StatusMatchesFlags, PlayedOnce, InLoop
<1>. QED
  BY <1>2, <1>3, <1>4 DEF FlagsInv

(* A restart: the flags it throws away are beyond the exposed rounds, and  *)
(* the process comes up in a round of which there is nothing.              *)
LEMMA BootFlags ==
  ASSUME TypeOK, HistoryInv, FlagsInv, Boot
  PROVE  FlagsInv'
<1>1. /\ UNCHANGED <<now, db, exposed, rows, restarts, task>>
      /\ pc = "down" /\ pc' \in {"ended", "grace", "clearing", "boot"}
      /\ flags' \subseteq flags
  BY DEF Boot, BootEnded, BootRunning, BootEarly, gameVars, dbVars, boundVars,
         Leftover
<1>2. /\ now \in Int /\ db.start \in Nat /\ exposed \in Int /\ restarts \in Nat
      /\ \A f \in flags : f.round \in Nat
      /\ \A x \in rows : x.round \in Nat
  BY FlagTypes DEF TypeOK, Times
<1>3. \/ /\ pc' = "ended" /\ flags' = flags
      \/ /\ round' = 0 /\ flags' = flags
         /\ \A f \in flags : f.round = 0
      \/ /\ round' > 0 /\ round' \in Nat
         /\ \A f \in flags : f \in flags' <=> ~(f.round > exposed)
         /\ \A x \in rows : x.round < round'
  <2>1. CASE BootEnded
    BY <2>1 DEF BootEnded, gameVars
  <2>2. ASSUME now < db.start + RoundLen, NEW f \in flags
        PROVE  f.round = 0
    <3>1. f.round > 0 => RoundLen <= RoundLen * f.round
      BY <1>2, LaterRound
    <3>2. db.start + RoundLen * f.round <= now
      BY DEF FlagsInv, FlagsInRound
    <3>. QED
      BY <1>2, <2>2, <3>1, <3>2
  <2>3. CASE BootEarly
    <3>1. round' = 0 /\ flags' = flags /\ now < db.start + RoundLen
      BY <1>2, <2>3 DEF BootEarly, gameVars
    <3>. QED
      BY <2>2, <3>1
  <2>4. CASE BootRunning
    <3>. DEFINE current == (now - db.start) \div RoundLen
    <3>1. /\ current \in Nat
          /\ now - db.start < RoundLen * (current + 1)
      BY <1>2, <2>4, RoundOfTime DEF BootRunning
    <3>2. CASE current = 0
      <4>1. round' = 0 /\ flags' = flags
        BY <2>4, <3>2 DEF BootRunning
      <4>2. now < db.start + RoundLen
        <5>1. RoundLen * (current + 1) = RoundLen
          <6>1. current + 1 = 1
            BY <3>2
          <6>. HIDE DEF current
          <6>. QED
            BY <6>1
        <5>. HIDE DEF current
        <5>. QED
          BY <1>2, <3>1, <5>1
      <4>. QED
        BY <2>2, <4>1, <4>2
    <3>3. CASE current > 0
      <4>1. /\ round' = current + 1
            /\ flags' = flags \ Leftover(flags)
        BY <2>4, <3>3 DEF BootRunning
      <4>. HIDE DEF current
      <4>2. round' \in Nat /\ round' > 0
        BY <3>1, <4>1
      <4>3. ASSUME NEW x \in rows
            PROVE  x.round < round'
        <5>1. db.start + RoundLen * x.round <= now
          BY DEF HistoryInv, ClockCovers
        <5>2. RoundLen * x.round \in Int /\ RoundLen * (current + 1) \in Int
          BY <1>2, <3>1
        <5>3. x.round >= current + 1 =>
                RoundLen * (current + 1) <= RoundLen * x.round
          BY <1>2, <3>1, LaterRound
        <5>. QED
          BY <1>2, <3>1, <4>1, <5>1, <5>2, <5>3
      <4>. QED
        BY <4>1, <4>2, <4>3 DEF Leftover
    <3>. QED
      BY <3>1, <3>2, <3>3
  <2>. QED
    BY <2>1, <2>3, <2>4 DEF Boot
<1>4. exposed < round' \/ pc' = "ended"
  <2>1. HistoryInv'
    BY BootInv
  <2>. QED
    BY <1>1, <2>1 DEF HistoryInv, RoundAhead
<1>5. FlagsInRound'
  <2>1. \A f \in flags' : db'.start + RoundLen * f.round <= now'
    BY <1>1, <1>2, FlagsOnTime DEF FlagsInv
  <2>2. pc' # "ended" => \A f \in flags' : f.round > exposed => f.round = round'
    BY <1>1, <1>3
  <2>. QED
    BY <1>1, <2>1, <2>2 DEF FlagsInRound, InLoop
<1>6. RoundIsFresh'
  <2>1. SUFFICES ASSUME pc' # "ended", round' > 0 \/ restarts = 0
                 PROVE  /\ \A f \in flags' : f.round # round'
                        /\ \A x \in rows : x.round # round'
    BY <1>1 DEF RoundIsFresh, PlayedOnce, InLoop
  <2>2. CASE round' = 0
    <3>1. flags = {} /\ rows = {}
      BY <1>1, <2>1, <2>2 DEF FlagsInv, FlagsInRound
    <3>. QED
      BY <1>1, <3>1
  <2>3. CASE round' # 0
    BY <1>1, <1>2, <1>3, <1>4, <2>1, <2>3
  <2>. QED
    BY <2>2, <2>3
<1>7. AnswersMatchFlags'
  BY <1>1 DEF AnswersMatchFlags, HistoryInv, TasksInRound
<1>8. StatusMatchesFlags'
  <2>1. ASSUME NEW x \in rows, RowMatchesFlags(x), x.round <= exposed
        PROVE  RowMatchesFlags(x)'
    <3>1. \A f \in flags : f.round <= x.round => f \in flags'
      BY <1>1, <1>2, <1>3, <2>1
    <3>. QED
      BY <1>1, <1>2, <2>1, <3>1, RowKept
  <2>. QED
    BY <1>1, <2>1 DEF FlagsInv, StatusMatchesFlags, PlayedOnce, InLoop
<1>. QED
  BY <1>5, <1>6, <1>7, <1>8 DEF FlagsInv

(* The rows it throws away are those of rounds that lost their flags.      *)
LEMMA ClearFlags ==
  ASSUME TypeOK, HistoryInv, FlagsInv, ClearRows
  PROVE  FlagsInv'
<1>1. /\ UNCHANGED <<now, db, exposed, flags, round, restarts, task>>
      /\ pc = "clearing" /\ pc' = "boot" /\ rows' \subseteq rows
  BY DEF ClearRows, dbVars, loopVars, boundVars
<1>2. FlagsInRound' /\ RoundIsFresh'
  BY <1>1 DEF FlagsInv, FlagsInRound, RoundIsFresh, PlayedOnce, InLoop
<1>3. AnswersMatchFlags'
  BY <1>1 DEF AnswersMatchFlags, HistoryInv, TasksInRound
<1>4. StatusMatchesFlags'
  <2>1. ASSUME NEW x \in rows, RowMatchesFlags(x)
        PROVE  RowMatchesFlags(x)'
    BY <1>1, <2>1 DEF RowMatchesFlags, FlagsAt, FlagsBefore
  <2>. QED
    BY <1>1, <2>1 DEF FlagsInv, StatusMatchesFlags, PlayedOnce, InLoop
<1>. QED
  BY <1>2, <1>3, <1>4 DEF FlagsInv

(* What a goroutine of the round being played finds.                       *)
LEMMA AtWork ==
  ASSUME TypeOK, HistoryInv, FlagsInv, NEW t \in Targets,
         task[t].phase \in {"new", "asking", "publish"}
  PROVE  /\ pc = "checking" /\ Playing /\ exposed < round
         /\ \A f \in flags : f.round <= round
         /\ \A x \in rows : x.round <= round
         /\ \A x \in rows :
              x.target = t /\ PlayedOnce(x.round) => x.round < round
<1>1. pc = "checking"
  BY DEF HistoryInv, TasksInRound
<1>2. Playing
  BY <1>1 DEF Playing, InLoop
<1>3. /\ exposed < round
      /\ \A f \in flags : f.round <= round
      /\ \A x \in rows : x.round <= round
  BY <1>1, <1>2, NothingLater DEF FlagsInv
<1>4. ASSUME NEW x \in rows, x.target = t, PlayedOnce(x.round)
      PROVE  x.round < round
  <2>1. x.round \in Nat /\ round \in Nat /\ x.round <= round
    BY <1>3, FlagTypes
  <2>2. x.round # round
    BY <1>2, <1>4 DEF FlagsInv, RoundIsFresh, Playing
  <2>. QED
    BY <2>1, <2>2
<1>. QED
  BY <1>1, <1>2, <1>3, <1>4

(* A goroutine works on the flag of its round, and nothing else changes.   *)
LEMMA GoroutineFlags ==
  ASSUME TypeOK, HistoryInv, FlagsInv, NEW t \in Targets,
         task[t].phase \in {"new", "asking"},
         UNCHANGED <<now, db, rows, exposed, round, pc, restarts>>,
         task'[t].phase \in {"asking", "publish"},
         \A u \in Targets \ {t} : task'[u] = task[u],
         flags' \subseteq flags \cup {NewFlag(t)},
         flags \subseteq flags' \cup {NewFlag(t)},
         PlayedOnce(round) => TaskMatchesFlags(t)'
  PROVE  FlagsInv'
<1>. DEFINE n == NewFlag(t)
<1>1. /\ n.target = t /\ n.round = round
      /\ \A f : f # n => (f \in flags <=> f \in flags')
  BY DEF NewFlag
<1>2. /\ pc = "checking" /\ exposed < round
      /\ \A f \in flags : f.round <= round
      /\ \A x \in rows :
           x.target = t /\ PlayedOnce(x.round) => x.round < round
  BY AtWork
<1>3. /\ round \in Nat /\ exposed \in Int
      /\ \A f \in flags : f.round \in Nat
      /\ \A x \in rows : x.round \in Nat
  BY FlagTypes
<1>. HIDE DEF n
<1>4. FlagsInRound'
  <2>1. db.start + RoundLen * round <= now
    BY <1>2 DEF HistoryInv, ClockCovers, InLoop
  <2>2. \A f \in flags' : db.start + RoundLen * f.round <= now
    BY <1>1, <2>1 DEF FlagsInv, FlagsInRound
  <2>3. \A f \in flags' : f.round > exposed => f.round = round
    BY <1>1, <1>2 DEF FlagsInv, FlagsInRound, InLoop
  <2>. QED
    BY <1>2, <2>2, <2>3 DEF FlagsInRound
<1>5. RoundIsFresh'
  <2>1. SUFFICES ASSUME PlayedOnce(round)
                 PROVE  /\ \A f \in flags' : f.round = round =>
                             task'[f.target].phase \notin {"idle", "new"}
                        /\ \A x \in rows : x.round = round =>
                             task'[x.target].phase = "done"
    BY <1>2 DEF RoundIsFresh, PlayedOnce
  <2>2. /\ \A f \in flags : f.round = round =>
             task[f.target].phase \notin {"idle", "new"}
        /\ \A x \in rows : x.round = round => task[x.target].phase = "done"
    BY <1>2, <2>1 DEF FlagsInv, RoundIsFresh, InLoop
  <2>3. \A f \in flags : f.target \in Targets
    BY DEF TypeOK, Flags
  <2>4. \A x \in rows : x.target \in Targets
    BY DEF TypeOK, Rows
  <2>5. \A f \in flags' : f.round = round =>
          task'[f.target].phase \notin {"idle", "new"}
    BY <1>1, <2>2, <2>3
  <2>6. \A x \in rows : x.round = round => task'[x.target].phase = "done"
    BY <2>2, <2>4
  <2>. QED
    BY <2>5, <2>6
<1>6. AnswersMatchFlags'
  <2>1. ASSUME NEW u \in Targets, u # t, TaskMatchesFlags(u)
        PROVE  TaskMatchesFlags(u)'
    <3>1. /\ FlagsAt(u, round)' = FlagsAt(u, round)
          /\ FlagsBefore(u, round)' = FlagsBefore(u, round)
      BY <1>1, <2>1 DEF FlagsAt, FlagsBefore
    <3>2. NewFlag(u)' = NewFlag(u) /\ task'[u] = task[u]
      BY <2>1 DEF NewFlag
    <3>. QED
      BY <2>1, <3>1, <3>2 DEF TaskMatchesFlags
  <2>. QED
    BY <2>1 DEF FlagsInv, AnswersMatchFlags, PlayedOnce
<1>7. StatusMatchesFlags'
  <2>1. ASSUME NEW x \in rows, PlayedOnce(x.round), RowMatchesFlags(x)
        PROVE  RowMatchesFlags(x)'
    <3>1. x.target = t => x.round < round
      BY <1>2, <2>1
    <3>2. \A f \in flags' : f.round \in Int
      BY <1>1, <1>3
    <3>3. \A f \in flags \cup flags' :
            f.target = x.target /\ f.round <= x.round => f # n
      BY <1>1, <1>3, <3>1
    <3>. QED
      BY <1>1, <2>1, <3>2, <3>3, RowKept
  <2>. QED
    BY <1>2, <2>1 DEF FlagsInv, StatusMatchesFlags, PlayedOnce, InLoop
<1>. QED
  BY <1>4, <1>5, <1>6, <1>7 DEF FlagsInv

LEMMA AskFlags ==
  ASSUME TypeOK, HistoryInv, FlagsInv, NEW t \in Targets, Ask(t)
  PROVE  FlagsInv'
<1>1. /\ task[t].phase = "new"
      /\ flags' = flags \cup {NewFlag(t)}
      /\ task'[t].phase = "asking" /\ task'[t].put = Waiting
      /\ task'[t].get = "NOT_CHECKED" /\ task'[t].asked = ValidFlags(t)
      /\ \A u \in Targets \ {t} : task'[u] = task[u]
      /\ UNCHANGED <<now, db, rows, exposed, round, pc, restarts>>
  BY DEF Ask, TypeOK, NoTask, dbVars, loopVars, boundVars
<1>2. ASSUME PlayedOnce(round)
      PROVE  TaskMatchesFlags(t)'
  <2>1. /\ round \in Nat /\ FlagExpireTicks \in Nat
        /\ \A f \in flags : f.round \in Nat /\ f.round <= round
    BY <1>1, AtWork, FlagTypes
  <2>2. \A f \in flags : f.target = t => f.round # round
    BY <1>1, <1>2, AtWork DEF FlagsInv, RoundIsFresh, Playing
  <2>3. NewFlag(t).target = t /\ NewFlag(t).round = round
        /\ NewFlag(t)' = NewFlag(t)
    BY <1>1 DEF NewFlag
  <2>4. FlagsAt(t, round)' = {NewFlag(t)}
    BY <1>1, <2>2, <2>3 DEF FlagsAt
  <2>5. FlagsBefore(t, round)' = ValidFlags(t)
    BY <1>1, <2>1, <2>2, <2>3 DEF FlagsBefore, ValidFlags
  <2>. QED
    BY <1>1, <2>3, <2>4, <2>5 DEF TaskMatchesFlags
<1>. QED
  BY <1>1, <1>2, GoroutineFlags

(* An answer: k is what the goroutine knows before it looks whether it was *)
(* the last one.                                                           *)
LEMMA AnswerFlags ==
  ASSUME TypeOK, HistoryInv, FlagsInv, NEW t \in Targets, Answer(t)
  PROVE  FlagsInv'
<1>1. PICK s \in Replies :
         \/ PutAnswer(t, s)
         \/ CheckAnswer(t, s)
         \/ \E f \in task[t].asked : GetAnswer(t, f, s)
  BY DEF Answer
<1>2. s \notin {Waiting, "NOT_CHECKED"}
  BY DEF Replies, Waiting
<1>3. /\ task[t].phase = "asking"
      /\ UNCHANGED <<now, db, rows, exposed, round, pc, restarts>>
  BY <1>1 DEF PutAnswer, CheckAnswer, GetAnswer, dbVars, gameVars, loopVars,
              boundVars
<1>4. PlayedOnce(round) => TaskMatchesFlags(t)
  BY <1>3 DEF FlagsInv, AnswersMatchFlags
<1>5. NewFlag(t).target = t /\ NewFlag(t).round = round
      /\ NewFlag(t)' = NewFlag(t)
  BY <1>3 DEF NewFlag
<1>6. task[t] \in TaskRecords /\ round \in Nat
  BY TaskFields, FlagTypes
<1>7. ASSUME NEW k \in TaskRecords, task' = [task EXCEPT ![t] = Answered(k)],
             flags' \subseteq flags \cup {NewFlag(t)},
             flags \subseteq flags' \cup {NewFlag(t)},
             TaskMatchesFlags(t) =>
               /\ FlagsAt(t, round)' =
                    IF k.put \in {Waiting, "OK"} THEN {NewFlag(t)} ELSE {}
               /\ k.asked \subseteq FlagsBefore(t, round)
               /\ k.get = "NOT_CHECKED" => k.asked = FlagsBefore(t, round)
               /\ k.get # "NOT_CHECKED" => FlagsBefore(t, round) # {}
      PROVE  FlagsInv'
  <2>1. /\ Answered(k).put = k.put /\ Answered(k).get = k.get
        /\ Answered(k).asked = k.asked
        /\ Answered(k).phase \in {"asking", "publish"}
        /\ Answered(k).phase = "publish" => k.asked = {}
    BY DEF Answered, Phase, TaskRecords
  <2>2. task'[t] = Answered(k) /\ \A u \in Targets \ {t} : task'[u] = task[u]
    BY <1>7 DEF TypeOK
  <2>3. FlagsBefore(t, round)' = FlagsBefore(t, round)
    <3>1. \A f \in flags : f.round \in Nat
      BY FlagTypes
    <3>2. \A f \in flags \cup flags' :
            round - f.round \in 1..FlagExpireTicks - 1 => f # NewFlag(t)
      BY <1>5, <1>6
    <3>3. \A f \in flags \cup flags' :
            round - f.round \in 1..FlagExpireTicks - 1 =>
              f \in flags /\ f \in flags'
      BY <1>7, <3>2
    <3>. QED
      BY <1>3, <3>3 DEF FlagsBefore
  <2>4. TaskMatchesFlags(t) => TaskMatchesFlags(t)'
    BY <1>5, <1>7, <2>1, <2>2, <2>3 DEF TaskMatchesFlags
  <2>. QED
    BY <1>3, <1>4, <1>7, <2>1, <2>2, <2>4, GoroutineFlags
<1>8. CASE PutAnswer(t, s)
  <2>. DEFINE k == [task[t] EXCEPT !.put = s]
  <2>1. k \in TaskRecords /\ task[t].put = Waiting
    BY <1>6, <1>8 DEF PutAnswer, TaskRecords, Replies, Statuses
  <2>2. k.put = s /\ k.asked = task[t].asked /\ k.get = task[t].get
    BY <1>6 DEF TaskRecords
  <2>3. task' = [task EXCEPT ![t] = Answered(k)]
    BY <1>8 DEF PutAnswer
  <2>4. flags' = IF s = "OK" THEN flags ELSE flags \ {NewFlag(t)}
    BY <1>8 DEF PutAnswer, FlagsAfterPut
  <2>5. FlagsAt(t, round) = {NewFlag(t)} =>
          FlagsAt(t, round)' =
            IF k.put \in {Waiting, "OK"} THEN {NewFlag(t)} ELSE {}
    <3>1. CASE s = "OK"
      BY <1>3, <2>2, <2>4, <3>1 DEF FlagsAt
    <3>2. CASE s # "OK"
      <4>1. FlagsAt(t, round)' = FlagsAt(t, round) \ {NewFlag(t)}
        BY <1>3, <2>4, <3>2 DEF FlagsAt
      <4>2. k.put \notin {Waiting, "OK"}
        BY <1>2, <2>2, <3>2
      <4>. QED
        BY <4>1, <4>2
    <3>. QED
      BY <3>1, <3>2
  <2>. HIDE DEF k
  <2>6. TaskMatchesFlags(t) =>
          /\ FlagsAt(t, round) = {NewFlag(t)}
          /\ k.asked \subseteq FlagsBefore(t, round)
          /\ k.get = "NOT_CHECKED" => k.asked = FlagsBefore(t, round)
          /\ k.get # "NOT_CHECKED" => FlagsBefore(t, round) # {}
    BY <2>1, <2>2 DEF TaskMatchesFlags
  <2>7. flags' \subseteq flags \cup {NewFlag(t)} /\ flags \subseteq flags' \cup {NewFlag(t)}
    BY <2>4
  <2>. QED
    BY <1>7, <2>1, <2>3, <2>5, <2>6, <2>7
<1>9. CASE CheckAnswer(t, s)
  <2>. DEFINE k == [task[t] EXCEPT !.check = s]
  <2>1. k \in TaskRecords
    BY <1>6 DEF TaskRecords, Replies, Statuses
  <2>2. k.put = task[t].put /\ k.asked = task[t].asked /\ k.get = task[t].get
    BY <1>6 DEF TaskRecords
  <2>3. task' = [task EXCEPT ![t] = Answered(k)] /\ flags' = flags
    BY <1>9 DEF CheckAnswer, gameVars
  <2>4. FlagsAt(t, round)' = FlagsAt(t, round)
    BY <1>3, <2>3 DEF FlagsAt
  <2>. HIDE DEF k
  <2>. QED
    BY <1>7, <2>1, <2>2, <2>3, <2>4 DEF TaskMatchesFlags
<1>10. ASSUME NEW f \in task[t].asked, GetAnswer(t, f, s)
       PROVE  FlagsInv'
  <2>. DEFINE k == Got(task[t], f, s)
  <2>1. GetStatus(task[t].get, s) \in Statuses \ {"NOT_CHECKED"}
    BY <1>2, TaskFields DEF GetStatus, Replies, Statuses
  <2>2. k \in TaskRecords
    BY <2>1, TaskFields DEF Got, TaskRecords
  <2>3. /\ k.put = task[t].put /\ k.asked = task[t].asked \ {f}
        /\ k.get # "NOT_CHECKED"
    BY <1>6, <2>1 DEF Got, TaskRecords
  <2>4. task' = [task EXCEPT ![t] = Answered(k)] /\ flags' = flags
    BY <1>10 DEF GetAnswer, gameVars
  <2>5. FlagsAt(t, round)' = FlagsAt(t, round)
    BY <1>3, <2>4 DEF FlagsAt
  <2>. HIDE DEF k
  <2>6. TaskMatchesFlags(t) => k.asked \subseteq FlagsBefore(t, round)
                              /\ FlagsBefore(t, round) # {}
    BY <1>10, <2>3 DEF TaskMatchesFlags
  <2>7. TaskMatchesFlags(t) =>
          FlagsAt(t, round)' =
            IF k.put \in {Waiting, "OK"} THEN {NewFlag(t)} ELSE {}
    BY <2>3, <2>5 DEF TaskMatchesFlags
  <2>. QED
    BY <1>7, <2>2, <2>3, <2>4, <2>6, <2>7
<1>. QED
  BY <1>1, <1>8, <1>9, <1>10

(* The row that is written says what became of the flag of its round.      *)
LEMMA PublishFlags ==
  ASSUME TypeOK, HistoryInv, FlagsInv, NEW t \in Targets, PublishRow(t)
  PROVE  FlagsInv'
<1>1. /\ task[t].phase = "publish"
      /\ UNCHANGED <<now, db, flags, exposed, round, pc, restarts>>
      /\ task'[t].phase = "done"
      /\ \A u \in Targets \ {t} : task'[u] = task[u]
  BY DEF PublishRow, TypeOK, NoTask, dbVars, loopVars, boundVars
<1>2. /\ pc = "checking"
      /\ \A x \in rows :
           x.target = t /\ PlayedOnce(x.round) => x.round < round
  BY <1>1, AtWork
<1>3. PICK n : /\ n.target = t /\ n.round = round
               /\ n.put = task[t].put /\ n.get = task[t].get
               /\ rows' = rows \/ rows' = rows \cup {n}
  <2>. DEFINE row == [target |-> t, round |-> round, put |-> task[t].put,
                      check |-> task[t].check, get |-> task[t].get,
                      tot |-> 0, up |-> 0]
              S   == SlaRows(t, row)
              n   == [row EXCEPT !.tot = Cardinality(Checked(S)),
                                 !.up = Cardinality(Up(S))]
  <2>1. n.target = t /\ n.round = round /\ n.put = task[t].put /\ n.get = task[t].get
    OBVIOUS
  <2>2. rows' = rows \/ rows' = rows \cup {n}
    BY DEF PublishRow
  <2>. HIDE DEF n
  <2>. QED
    BY <2>1, <2>2
<1>4. FlagsInRound'
  BY <1>1, <1>2 DEF FlagsInv, FlagsInRound, InLoop
<1>5. RoundIsFresh'
  <2>1. SUFFICES ASSUME PlayedOnce(round)
                 PROVE  /\ \A f \in flags : f.round = round =>
                             task'[f.target].phase \notin {"idle", "new"}
                        /\ \A x \in rows' : x.round = round =>
                             task'[x.target].phase = "done"
    BY <1>1, <1>2 DEF RoundIsFresh, PlayedOnce
  <2>2. /\ \A f \in flags : f.round = round =>
             task[f.target].phase \notin {"idle", "new"}
        /\ \A x \in rows : x.round = round => task[x.target].phase = "done"
    BY <1>2, <2>1 DEF FlagsInv, RoundIsFresh, InLoop
  <2>3. /\ \A f \in flags : f.target \in Targets
        /\ \A x \in rows : x.target \in Targets
    BY DEF TypeOK, Flags, Rows
  <2>4. \A f \in flags : f.round = round =>
          task'[f.target].phase \notin {"idle", "new"}
    BY <1>1, <2>2, <2>3
  <2>5. \A x \in rows : x.round = round => task'[x.target].phase = "done"
    BY <1>1, <2>2, <2>3
  <2>. QED
    BY <1>1, <1>3, <2>4, <2>5
<1>6. AnswersMatchFlags'
  <2>1. ASSUME NEW u \in Targets, u # t, TaskMatchesFlags(u)
        PROVE  TaskMatchesFlags(u)'
    <3>1. /\ FlagsAt(u, round)' = FlagsAt(u, round)
          /\ FlagsBefore(u, round)' = FlagsBefore(u, round)
      BY <1>1 DEF FlagsAt, FlagsBefore
    <3>2. NewFlag(u)' = NewFlag(u) /\ task'[u] = task[u]
      BY <1>1, <2>1 DEF NewFlag
    <3>. QED
      BY <2>1, <3>1, <3>2 DEF TaskMatchesFlags
  <2>. QED
    BY <1>1, <2>1 DEF FlagsInv, AnswersMatchFlags, PlayedOnce
<1>7. ASSUME PlayedOnce(round)
      PROVE  RowMatchesFlags(n)
  <2>1. TaskMatchesFlags(t) /\ task[t].asked = {}
    BY <1>1, <1>7 DEF FlagsInv, AnswersMatchFlags, TaskMatchesFlags
  <2>2. task[t].put # Waiting
    BY <1>1 DEF TypeOK, Tasks
  <2>3. FlagsAt(t, round) = IF n.put = "OK" THEN {NewFlag(t)} ELSE {}
    BY <1>3, <2>1, <2>2 DEF TaskMatchesFlags
  <2>4. Cardinality(FlagsAt(t, round)) = IF n.put = "OK" THEN 1 ELSE 0
    <3>1. CASE n.put = "OK"
      BY <2>3, <3>1, FS_Singleton
    <3>2. CASE n.put # "OK"
      BY <2>3, <3>2, FS_EmptySet
    <3>. QED
      BY <3>1, <3>2
  <2>5. n.get = "NOT_CHECKED" <=> FlagsBefore(t, round) = {}
    BY <1>3, <2>1 DEF TaskMatchesFlags
  <2>. QED
    BY <1>3, <2>4, <2>5 DEF RowMatchesFlags
<1>8. StatusMatchesFlags'
  <2>1. ASSUME NEW x, RowMatchesFlags(x)
        PROVE  RowMatchesFlags(x)'
    BY <1>1, <2>1 DEF RowMatchesFlags, FlagsAt, FlagsBefore
  <2>2. \A x \in rows' : PlayedOnce(x.round) => RowMatchesFlags(x)
    BY <1>2, <1>3, <1>7 DEF FlagsInv, StatusMatchesFlags, InLoop
  <2>. QED
    BY <1>1, <2>1, <2>2 DEF StatusMatchesFlags, PlayedOnce
<1>. QED
  BY <1>4, <1>5, <1>6, <1>8 DEF FlagsInv

LEMMA FlagsInvStep ==
  TypeOK /\ HistoryInv /\ FlagsInv /\ [Next]_vars => FlagsInv'
<1>. SUFFICES ASSUME TypeOK, HistoryInv, FlagsInv, [Next]_vars
              PROVE  FlagsInv'
  OBVIOUS
<1>1. CASE Tick \/ Pause \/ Resume \/ UNCHANGED vars
  BY <1>1, MoveFlags
<1>2. CASE Crash
  BY <1>2, CrashFlags
<1>3. CASE Loop
  BY <1>3, BootFlags, ClearFlags, ShiftFlags, MoveFlags, StartFlags, CloseFlags DEF Loop
<1>4. ASSUME NEW t \in Targets, Ask(t) \/ Answer(t) \/ PublishRow(t)
      PROVE  FlagsInv'
  BY <1>4, AskFlags, AnswerFlags, PublishFlags
<1>. QED
  BY <1>1, <1>2, <1>3, <1>4 DEF Next

(* A row of a round that was played once tells whether the flag of its     *)
(* round is in the game (storeFlag, and its removal when PUT_FLAG fails),  *)
(* and whether there was one to be read back, through crashes, restarts    *)
(* and every order of the answers (runServiceRound).                       *)
THEOREM RowsTellTheFlags == Spec => []StatusMatchesFlags
<1>1. Init => FlagsInv
  <2>. SUFFICES ASSUME Init
                PROVE  FlagsInv
    OBVIOUS
  <2>1. flags = {} /\ rows = {} /\ pc = "down"
        /\ \A t \in Targets : task[t].phase = "idle"
    BY DEF Init, NoTask
  <2>. QED
    BY <2>1 DEF FlagsInv, FlagsInRound, RoundIsFresh, AnswersMatchFlags,
                StatusMatchesFlags, InLoop
<1>2. FlagsInv => StatusMatchesFlags
  BY DEF FlagsInv
<1>. QED
  BY <1>1, <1>2, FlagsInvStep, RoundsInvariant, PTL DEF Spec, IInv

(***************************************************************************)
(* The service cells.                                                      *)
(***************************************************************************)

(* PUT_FLAG and CHECK_SLA run in every round, unlike GET_FLAG. *)
ChecksRan ==
  /\ \A t \in Targets : "NOT_CHECKED" \notin {task[t].put, task[t].check}
  /\ \A x \in rows : "NOT_CHECKED" \notin {x.put, x.check}

LEMMA ChecksRanStep == TypeOK /\ ChecksRan /\ [Next]_vars => ChecksRan'
<1>. SUFFICES ASSUME TypeOK, ChecksRan, [Next]_vars
              PROVE  ChecksRan'
  OBVIOUS
<1>1. CASE UNCHANGED task /\ rows' \subseteq rows
  BY <1>1 DEF ChecksRan
<1>2. ASSUME NEW t \in Targets, NEW k, task' = [task EXCEPT ![t] = k],
             "NOT_CHECKED" \notin {k.put, k.check}, UNCHANGED rows
      PROVE  ChecksRan'
  BY <1>2 DEF ChecksRan, TypeOK
<1>3. CASE Crash \/ StartRound
  <2>1. \A t \in Targets : task'[t].put = Waiting /\ task'[t].check = Waiting
    BY <1>3 DEF Crash, StartRound, NoTask
  <2>. QED
    BY <1>3, <2>1 DEF ChecksRan, Waiting, Crash, StartRound, gameVars
<1>4. ASSUME NEW t \in Targets, Ask(t)
      PROVE  ChecksRan'
  <2>. DEFINE k == [NoTask EXCEPT !.phase = "asking", !.asked = ValidFlags(t)]
  <2>1. "NOT_CHECKED" \notin {k.put, k.check}
    BY DEF NoTask, Waiting
  <2>. QED
    BY <1>2, <1>4, <2>1 DEF Ask
<1>5. ASSUME NEW t \in Targets, NEW s \in Replies, PutAnswer(t, s)
      PROVE  ChecksRan'
  <2>. DEFINE k == [task[t] EXCEPT !.put = s]
  <2>1. k.put = s /\ k.check = task[t].check /\ k \in TaskRecords
    BY TaskFields DEF TaskRecords, Replies, Statuses
  <2>2. Answered(k).put = s /\ Answered(k).check = task[t].check
    BY <2>1 DEF Answered, TaskRecords
  <2>3. s # "NOT_CHECKED"
    BY DEF Replies
  <2>. QED
    BY <1>2, <1>5, <2>2, <2>3 DEF PutAnswer, ChecksRan, TypeOK
<1>6. ASSUME NEW t \in Targets, NEW s \in Replies, CheckAnswer(t, s)
      PROVE  ChecksRan'
  <2>. DEFINE k == [task[t] EXCEPT !.check = s]
  <2>1. k.check = s /\ k.put = task[t].put /\ k \in TaskRecords
    BY TaskFields DEF TaskRecords, Replies, Statuses
  <2>2. Answered(k).check = s /\ Answered(k).put = task[t].put
    BY <2>1 DEF Answered, TaskRecords
  <2>3. s # "NOT_CHECKED"
    BY DEF Replies
  <2>. QED
    BY <1>2, <1>6, <2>2, <2>3 DEF CheckAnswer, ChecksRan, TypeOK, gameVars
<1>7. ASSUME NEW t \in Targets, NEW s \in Replies, NEW f \in task[t].asked,
             GetAnswer(t, f, s)
      PROVE  ChecksRan'
  <2>. DEFINE k == Got(task[t], f, s)
  <2>1. Answered(k).put = task[t].put /\ Answered(k).check = task[t].check
    BY TaskFields DEF Got, Answered, TaskRecords
  <2>. QED
    BY <1>2, <1>7, <2>1 DEF GetAnswer, ChecksRan, gameVars
<1>8. ASSUME NEW t \in Targets, PublishRow(t)
      PROVE  ChecksRan'
  <2>1. \A x \in rows' \ rows : x.put = task[t].put /\ x.check = task[t].check
    BY <1>8 DEF PublishRow
  <2>2. "NOT_CHECKED" \notin {task[t].put, task[t].check}
    BY DEF ChecksRan
  <2>3. \A x \in rows' : "NOT_CHECKED" \notin {x.put, x.check}
    BY <2>1, <2>2 DEF ChecksRan
  <2>4. task' = [task EXCEPT ![t] = [NoTask EXCEPT !.phase = "done"]]
    BY <1>8 DEF PublishRow
  <2>5. LET k == [NoTask EXCEPT !.phase = "done"]
        IN  "NOT_CHECKED" \notin {k.put, k.check}
    BY DEF NoTask, Waiting
  <2>. QED
    BY <2>3, <2>4, <2>5 DEF ChecksRan, TypeOK
<1>9. CASE Loop /\ ~StartRound
  BY <1>1, <1>9 DEF Loop, Boot, ClearRows, BootEnded, BootRunning, BootEarly, Leftover,
     GraceBegins, EnterLoop, CheckPause, ShiftStart, ShiftEnd, ShiftFreeze,
     Reload, EndGame, GoOn, SetFreezeRound, CloseRound, gameVars
<1>10. CASE Tick \/ Pause \/ Resume \/ UNCHANGED vars
  BY <1>1, <1>10 DEF Tick, Pause, Resume, vars, gameVars
<1>. QED
  BY <1>3, <1>4, <1>5, <1>6, <1>7, <1>8, <1>9, <1>10 DEF Next, Answer

(* What makes a round count.                                               *)
Good(x) == x.put = "OK" /\ x.check = "OK" /\ x.get \in {"OK", "NOT_CHECKED"}

LEMMA LampOfRow ==
  ASSUME TypeOK, ChecksRan, NEW x \in rows
  PROVE  Lamp(makeServiceStatus(x)) = IF Good(x) THEN "green" ELSE "red"
<1>. DEFINE c == makeServiceStatus(x)
<1>1. c.put_flag = x.put /\ c.get_flag = x.get /\ c.sla_check = x.check
  BY DEF makeServiceStatus
<1>2. /\ {x.put, x.check, x.get} \subseteq {"OK", "DOWN", "CRITICAL", "KILLED", "NOT_CHECKED"}
      /\ x.put # "NOT_CHECKED" /\ x.check # "NOT_CHECKED"
  BY DEF TypeOK, Rows, Statuses, ChecksRan
<1>3. ~slaUnknown(c)
  BY <1>1, <1>2 DEF slaUnknown, NotYet
<1>4. slaOk(c) <=> Good(x)
  BY <1>1, <1>2 DEF slaOk, isUp, Good
<1>. QED
  BY <1>3, <1>4 DEF Lamp

LEMMA CountsOfRow ==
  ASSUME TypeOK, SlaReproducible, NEW x \in rows
  PROVE  /\ IsFiniteSet(Before(x))
         /\ x.up = Cardinality(Up(Before(x)))
         /\ x.tot = Cardinality(Checked(Before(x)))
         /\ x.up \in Nat /\ x.tot \in Nat /\ x.up <= x.tot
<1>1. Before(x) \subseteq rows /\ IsFiniteSet(rows)
  BY DEF Before, RowsOf, TypeOK
<1>2. IsFiniteSet(Before(x))
  BY <1>1, FS_Subset
<1>3. IsFiniteSet(Checked(Before(x))) /\ Up(Before(x)) \subseteq Checked(Before(x))
  BY <1>2, FS_Subset DEF Checked, Up
<1>4. Cardinality(Up(Before(x))) <= Cardinality(Checked(Before(x)))
  BY <1>3, FS_Subset
<1>5. x.up = Cardinality(Up(Before(x))) /\ x.tot = Cardinality(Checked(Before(x)))
  BY DEF SlaReproducible, Before
<1>. QED
  BY <1>2, <1>4, <1>5 DEF TypeOK, Rows

(* One row more than S: what it adds to the counters.                      *)
LEMMA OneRowMore ==
  ASSUME NEW S, IsFiniteSet(S), NEW x, x \notin S
  PROVE  /\ Cardinality(Up(S \cup {x})) = Cardinality(Up(S)) + (IF Good(x) THEN 1 ELSE 0)
         /\ Cardinality(Checked(S \cup {x})) =
              Cardinality(Checked(S)) + (IF "CRITICAL" \in {x.put, x.check, x.get} THEN 0 ELSE 1)
<1>1. /\ Up(S) \subseteq S /\ IsFiniteSet(Up(S)) /\ x \notin Up(S)
      /\ Checked(S) \subseteq S /\ IsFiniteSet(Checked(S)) /\ x \notin Checked(S)
  BY FS_Subset DEF Up, Checked
<1>2. /\ Cardinality(Up(S)) \in Nat /\ Cardinality(Checked(S)) \in Nat
      /\ Cardinality(Up(S) \cup {x}) = Cardinality(Up(S)) + 1
      /\ Cardinality(Checked(S) \cup {x}) = Cardinality(Checked(S)) + 1
  BY <1>1, FS_AddElement, FS_CardinalityType
<1>3. Up(S \cup {x}) = IF Good(x) THEN Up(S) \cup {x} ELSE Up(S)
  BY DEF Up, Good
<1>4. Checked(S \cup {x}) =
        IF "CRITICAL" \in {x.put, x.check, x.get} THEN Checked(S) ELSE Checked(S) \cup {x}
  BY DEF Checked
<1>5. CASE Good(x)
  <2>1. "CRITICAL" \notin {x.put, x.check, x.get}
    BY <1>5 DEF Good
  <2>. QED
    BY <1>2, <1>3, <1>4, <1>5, <2>1
<1>6. CASE ~Good(x)
  <2>1. CASE "CRITICAL" \in {x.put, x.check, x.get}
    BY <1>2, <1>3, <1>4, <1>6, <2>1
  <2>2. CASE "CRITICAL" \notin {x.put, x.check, x.get}
    <3>1. Cardinality(Checked(S \cup {x})) = Cardinality(Checked(S)) + 1
      BY <1>2, <1>4, <2>2
    <3>2. Cardinality(Up(S \cup {x})) = Cardinality(Up(S)) + 0
      BY <1>2, <1>3, <1>6
    <3>. QED
      BY <1>6, <2>2, <3>1, <3>2, Zenon
  <2>. QED
    BY <2>1, <2>2
<1>. QED
  BY <1>5, <1>6

LEMMA NextCounts ==
  ASSUME TypeOK, KeysUnique, SlaReproducible, NEW x \in rows, NEW y \in rows,
         y.target = x.target, y.round = x.round - 1
  PROVE  /\ x.up = y.up + (IF Good(x) THEN 1 ELSE 0)
         /\ x.tot = y.tot + (IF "CRITICAL" \in {x.put, x.check, x.get} THEN 0 ELSE 1)
<1>1. \A z \in rows : z.round \in Nat
  BY DEF TypeOK, Rows
<1>2. Before(x) = Before(y) \cup {x} /\ x \notin Before(y)
  BY <1>1 DEF Before, RowsOf, KeysUnique
<1>3. IsFiniteSet(Before(y))
  BY CountsOfRow
<1>. QED
  BY <1>2, <1>3, OneRowMore, CountsOfRow

LEMMA FirstCounts ==
  ASSUME TypeOK, KeysUnique, SlaReproducible, NEW x \in rows, x.round = 0
  PROVE  x.up = IF Good(x) THEN 1 ELSE 0
<1>1. \A z \in rows : z.round \in Nat
  BY DEF TypeOK, Rows
<1>2. Before(x) = {} \cup {x}
  BY <1>1 DEF Before, RowsOf, KeysUnique
<1>3. Up({}) = {} /\ IsFiniteSet({}) /\ Cardinality({}) = 0
  BY FS_EmptySet DEF Up
<1>4. Cardinality(Up({} \cup {x})) = Cardinality(Up({})) + (IF Good(x) THEN 1 ELSE 0)
  BY <1>3, OneRowMore
<1>5. Cardinality(Up({} \cup {x})) = IF Good(x) THEN 1 ELSE 0
  <2>1. Cardinality(Up({} \cup {x})) = 0 + (IF Good(x) THEN 1 ELSE 0)
    BY <1>3, <1>4, Zenon
  <2>. QED
    BY <2>1
<1>6. x.up = Cardinality(Up(Before(x)))
  BY CountsOfRow
<1>. QED
  BY <1>2, <1>5, <1>6, Zenon

(* The SLA does not rise with a round that did not count, and does not     *)
(* fall with one that did.                                                 *)
LEMMA ArrowOfRow ==
  ASSUME TypeOK, KeysUnique, SlaReproducible, NEW x \in rows, NEW y \in livePrev(x)
  PROVE  /\ RoundsUp(diff_sla(x, y)) => Good(x)
         /\ RoundsDown(diff_sla(x, y)) => ~Good(x)
<1>. DEFINE q == diff_sla(x, y)
<1>1. y \in rows /\ y.target = x.target /\ y.round = x.round - 1
  BY DEF livePrev, RowsOf
<1>2. /\ x.up = y.up + (IF Good(x) THEN 1 ELSE 0)
      /\ x.tot = y.tot + (IF "CRITICAL" \in {x.put, x.check, x.get} THEN 0 ELSE 1)
  BY <1>1, NextCounts
<1>3. /\ x.up \in Nat /\ x.tot \in Nat /\ x.up <= x.tot
      /\ y.up \in Nat /\ y.tot \in Nat /\ y.up <= y.tot
  BY <1>1, CountsOfRow
<1>4. /\ q.n = sla(x).n * sla(y).d - sla(y).n * sla(x).d
      /\ q.d = sla(x).d * sla(y).d
  BY DEF diff_sla
<1>5. /\ sla(x).n = (IF x.tot = 0 THEN 1 ELSE x.up)
      /\ sla(x).d = (IF x.tot = 0 THEN 1 ELSE x.tot)
      /\ sla(y).n = (IF y.tot = 0 THEN 1 ELSE y.up)
      /\ sla(y).d = (IF y.tot = 0 THEN 1 ELSE y.tot)
  BY DEF sla
<1>6. PICK u \in Nat, k \in Nat : u = y.up /\ k = y.tot
  BY <1>3
<1>7. q.n \in Int /\ q.d \in Nat \ {0}
  BY <1>3, <1>4, <1>5
<1>8. CASE Good(x)
  <2>1. x.up = u + 1 /\ x.tot = k + 1 /\ u <= k
    BY <1>2, <1>3, <1>6, <1>8 DEF Good
  <2>2. CASE k = 0
    BY <1>4, <1>5, <1>6, <1>7, <1>8, <2>1, <2>2 DEF RoundsDown
  <2>3. CASE k # 0
    <3>1. q.n = (u + 1) * k - u * (k + 1)
      BY <1>4, <1>5, <1>6, <2>1, <2>3
    <3>2. q.n = k - u
      BY <3>1
    <3>. QED
      BY <1>7, <1>8, <2>1, <3>2 DEF RoundsDown
  <2>. QED
    BY <2>2, <2>3
<1>9. CASE ~Good(x)
  <2>1. x.up = u /\ u <= k
    BY <1>2, <1>3, <1>6, <1>9
  <2>2. CASE x.tot = k
    <3>1. sla(x).n = sla(y).n /\ sla(x).d = sla(y).d
      BY <1>5, <1>6, <2>1, <2>2
    <3>2. q.n = 0
      BY <1>3, <1>4, <1>5, <3>1
    <3>. QED
      BY <1>7, <1>9, <3>2 DEF RoundsUp
  <2>3. CASE x.tot = k + 1
    <3>1. CASE k = 0
      <4>1. q.n = -1
        BY <1>4, <1>5, <1>6, <2>1, <2>3, <3>1
      <4>. QED
        BY <1>7, <1>9, <4>1 DEF RoundsUp
    <3>2. CASE k # 0
      <4>1. q.n = u * k - u * (k + 1)
        BY <1>4, <1>5, <1>6, <2>1, <2>3, <3>2
      <4>2. q.n = -u
        BY <4>1
      <4>. QED
        BY <1>7, <1>9, <4>2 DEF RoundsUp
    <3>. QED
      BY <3>1, <3>2
  <2>. QED
    BY <1>2, <1>6, <2>2, <2>3
<1>. QED
  BY <1>8, <1>9

LEMMA CellsOfTheHistory ==
  ASSUME TypeOK, HistoryInv, SlaReproducible, ChecksRan
  PROVE  CellsTellTheSla
<1>. USE DEF HistoryInv
<1>1. ASSUME NEW t \in Targets, NEW c \in TeamRow(t)
      PROVE  Lamp(c) = "gray" <=> exposed < 0
  <2>1. CASE exposed < 0
    <3>1. c = NoScores
      BY <1>1, <2>1 DEF TeamRow
    <3>2. c.put_flag = NotYet /\ c.get_flag = NotYet /\ c.sla_check = NotYet
      BY <3>1 DEF NoScores
    <3>. QED
      BY <2>1, <3>2 DEF Lamp, slaOk, slaUnknown, isUp, NotYet
  <2>2. CASE ~(exposed < 0)
    <3>1. PICK x \in rows : c = makeServiceStatus(x)
      BY <1>1, <2>2 DEF TeamRow, Cells, RowsOf
    <3>. QED
      BY <2>2, <3>1, LampOfRow
  <2>. QED
    BY <2>1, <2>2
<1>2. ASSUME NEW t \in Targets, NEW r \in 0..exposed, NEW c \in TeamRoundRow(t, r)
      PROVE  CellAgrees(t, r, c)
  <2>1. PICK x \in rows : x.target = t /\ x.round = r /\ c = makeServiceStatus(x)
    BY <1>2 DEF TeamRoundRow, Cells, RowsOf
  <2>2. /\ c.ticks_up = x.up /\ c.ticks_down = x.tot - x.up
        /\ c.arrow = DiffArrow(x)
    BY <2>1 DEF makeServiceStatus
  <2>3. Lamp(c) = IF Good(x) THEN "green" ELSE "red"
    BY <2>1, LampOfRow
  <2>4. Counted(c) = IF Good(x) THEN 1 ELSE 0
    BY <2>3 DEF Counted
  <2>5. c.ticks_down >= 0
    BY <2>2, CountsOfRow
  <2>6. c.arrow = "up" => Lamp(c) = "green"
    BY <2>2, <2>3, ArrowOfRow DEF DiffArrow
  <2>7. c.arrow = "down" => Lamp(c) = "red"
    BY <2>2, <2>3, ArrowOfRow DEF DiffArrow
  <2>8. r = 0 => c.ticks_up = Counted(c)
    BY <2>1, <2>2, <2>4, FirstCounts
  <2>9. ASSUME NEW p \in TeamRoundRow(t, r - 1)
        PROVE  c.ticks_up = p.ticks_up + Counted(c)
    <3>1. PICK y \in rows : y.target = t /\ y.round = r - 1 /\ p = makeServiceStatus(y)
      BY <2>9 DEF TeamRoundRow, Cells, RowsOf
    <3>2. p.ticks_up = y.up
      BY <3>1 DEF makeServiceStatus
    <3>. QED
      BY <2>1, <2>2, <2>4, <3>1, <3>2, NextCounts
  <2>. QED
    BY <2>5, <2>6, <2>7, <2>8, <2>9 DEF CellAgrees
<1>. QED
  BY <1>1, <1>2 DEF CellsTellTheSla

(* What the pages show of a service is the SLA rule the players are told:  *)
(* the lamp is green in the rounds that count and in no other, and the     *)
(* arrow never contradicts it.                                             *)
THEOREM CellsAreHonest == Spec => []CellsTellTheSla
<1>1. Init => ChecksRan
  BY DEF Init, ChecksRan, NoTask, Waiting
<1>2. Spec => []ChecksRan
  BY <1>1, ChecksRanStep, TypeCorrect, PTL DEF Spec
<1>. QED
  BY <1>2, CellsOfTheHistory, SlaIsReproducible, RoundsInvariant, PTL DEF IInv

-----------------------------------------------------------------------------
(***************************************************************************)
(* The game keeps time.                                                    *)
(***************************************************************************)

(* How late a round may start: the first one is picked up in its middle by *)
(* a process started then, any other waits for the last answers of the one *)
(* before.                                                                 *)
Lateness(r) == IF r = 0 THEN RoundLen - 1 ELSE Slack

(* Where the loop is, the clock of the database is at most that far beyond *)
(* the start of the round.  While the game is paused, the time it was      *)
(* noticed at counts: the shift will take the clock back to it.            *)
LoopOnTime ==
  /\ pc \in {"grace", "clearing", "boot"} =>
       now <= db.start + RoundLen * round + (IF round = 0 THEN RoundLen - 1 ELSE 0)
  /\ pc = "grace" => round = 0
  /\ pc \in {"top", "shiftEnd", "shiftFreeze", "reload", "go", "freeze", "start"} =>
       now <= db.start + RoundLen * round + Lateness(round)
  /\ pc = "paused" => pausedAt <= db.start + RoundLen * round + Lateness(round)
  /\ pc = "checking" => now <= db.start + RoundLen * (round + 1) + Slack

LEMMA NextRound ==
  ASSUME NEW r \in Int
  PROVE  /\ RoundLen * r \in Int /\ RoundLen * (r + 1) \in Int
         /\ RoundLen * (r + 1) = RoundLen * r + RoundLen
OBVIOUS

LEMMA TimeTypes ==
  ASSUME TypeOK
  PROVE  /\ db \in Times /\ gs \in Times
         /\ db.start \in Nat /\ gs.start \in Nat /\ now \in Nat /\ round \in Nat
         /\ pausedAt \in Nat /\ pausedAt <= now /\ exposed \in Int
         /\ Lateness(round) \in Nat
BY DEF TypeOK, Times, Lateness

LEMMA TickOnTime ==
  ASSUME TypeOK, HistoryInv, LoopOnTime, Tick
  PROVE  LoopOnTime'
<1>1. /\ now' = now + 1 /\ UNCHANGED <<db, gs, round, pausedAt, pc, task>> /\ AllWait
  BY DEF Tick, dbVars, loopVars
<1>2. /\ db.start \in Nat /\ gs.start \in Nat /\ now \in Nat /\ round \in Nat
      /\ Grace \in Nat /\ Slack \in Nat /\ RoundLen \in Nat /\ RoundLen >= 1
  BY TimeTypes
<1>3. /\ RoundLen * round \in Int /\ RoundLen * (round + 1) \in Int
      /\ RoundLen * (round + 1) = RoundLen * round + RoundLen
  BY <1>2, NextRound
<1>4. CASE pc = "grace"
  <2>1. now < gs.start - Grace /\ gs.start = db.start /\ round = 0
    BY <1>1, <1>4 DEF AllWait, HistoryInv, ClockLoaded, LoopOnTime
  <2>2. RoundLen * round = 0
    BY <2>1
  <2>. HIDE DEF Lateness
  <2>. QED
    BY <1>1, <1>2, <1>3, <1>4, <2>1, <2>2 DEF LoopOnTime
<1>5. CASE pc = "boot"
  <2>1. now < gs.start + RoundLen * round /\ gs.start = db.start
    BY <1>1, <1>5 DEF AllWait, RoundStart, HistoryInv, ClockLoaded
  <2>2. now + 1 <= db.start + RoundLen * round
    BY <1>2, <1>3, <2>1
  <2>. QED
    BY <1>1, <1>2, <1>3, <1>5, <2>2 DEF LoopOnTime
<1>6. CASE pc = "paused"
  BY <1>1, <1>6 DEF LoopOnTime, Lateness
<1>7. CASE pc = "checking"
  <2>1. gs.start = db.start
    BY <1>7 DEF HistoryInv, ClockLoaded
  <2>2. /\ \A t \in Targets : Resting(t)
        /\ now < Deadline \/ \E t \in Targets : task[t].phase # "done"
    BY <1>1, <1>7 DEF AllWait
  <2>3. now < Deadline + Slack
    <3>1. CASE now < Deadline
      BY <1>2, <1>3, <3>1 DEF Deadline, RoundStart
    <3>2. ASSUME NEW t \in Targets, task[t].phase # "done"
          PROVE  now < Deadline + Slack
      BY <2>2, <3>2 DEF Resting
    <3>. QED
      BY <2>2, <3>1, <3>2
  <2>4. now + 1 <= db.start + RoundLen * (round + 1) + Slack
    BY <1>2, <1>3, <2>1, <2>3 DEF Deadline, RoundStart
  <2>. QED
    BY <1>1, <1>7, <2>4 DEF LoopOnTime
<1>8. CASE pc \in {"down", "ended"}
  BY <1>1, <1>8 DEF LoopOnTime
<1>. QED
  BY <1>1, <1>4, <1>5, <1>6, <1>7, <1>8 DEF AllWait

LEMMA BootOnTime ==
  ASSUME TypeOK, Boot
  PROVE  LoopOnTime'
<1>1. /\ pc' \in {"ended", "grace", "clearing", "boot"} /\ UNCHANGED <<now, db>>
  BY DEF Boot, BootEnded, BootRunning, BootEarly, dbVars
<1>2. /\ db.start \in Nat /\ now \in Nat /\ RoundLen \in Nat /\ RoundLen >= 1
  BY TimeTypes
<1>3. CASE BootEnded
  BY <1>3 DEF BootEnded, LoopOnTime
<1>4. ASSUME round' = 0, now < db.start + RoundLen
      PROVE  LoopOnTime'
  <2>1. RoundLen * round' = 0
    BY <1>2, <1>4
  <2>. QED
    BY <1>1, <1>2, <1>4, <2>1 DEF LoopOnTime
<1>5. CASE BootEarly
  BY <1>2, <1>4, <1>5 DEF BootEarly
<1>6. CASE BootRunning
  <2>. DEFINE current == (now - db.start) \div RoundLen
  <2>1. /\ current \in Nat /\ now - db.start < RoundLen * (current + 1)
    <3>1. now - db.start \in Nat
      BY <1>2, <1>6 DEF BootRunning
    <3>. QED
      BY <3>1, RoundOfTime
  <2>2. CASE current = 0
    <3>1. RoundLen * (current + 1) = RoundLen
      <4>1. current + 1 = 1
        BY <2>2
      <4>. HIDE DEF current
      <4>. QED
        BY <1>2, <4>1
    <3>2. round' = 0
      BY <1>6, <2>2 DEF BootRunning
    <3>. HIDE DEF current
    <3>. QED
      BY <1>2, <1>4, <2>1, <3>1, <3>2
  <2>3. CASE current > 0
    <3>1. round' = current + 1 /\ pc' = "clearing"
      BY <1>6, <2>3 DEF BootRunning
    <3>2. now <= db.start + RoundLen * round'
      <4>. HIDE DEF current
      <4>1. RoundLen * (current + 1) \in Int
        BY <2>1
      <4>. QED
        BY <1>2, <2>1, <3>1, <4>1
    <3>3. round' # 0
      <4>. HIDE DEF current
      <4>. QED
        BY <2>1, <3>1
    <3>4. RoundLen * round' \in Int
      <4>. HIDE DEF current
      <4>. QED
        BY <2>1, <3>1
    <3>. QED
      BY <1>1, <1>2, <3>1, <3>2, <3>3, <3>4 DEF LoopOnTime
  <2>. QED
    BY <2>1, <2>2, <2>3
<1>. QED
  BY <1>3, <1>5, <1>6 DEF Boot

LEMMA MoveOnTime ==
  ASSUME TypeOK, HistoryInv, LoopOnTime,
         \/ ClearRows \/ GraceBegins \/ EnterLoop \/ CheckPause \/ EndGame \/ GoOn
         \/ SetFreezeRound \/ StartRound \/ CloseRound
         \/ ShiftStart \/ ShiftEnd \/ ShiftFreeze \/ Reload
  PROVE  LoopOnTime'
<1>2. /\ db.start \in Nat /\ gs.start \in Nat /\ now \in Nat /\ round \in Nat
      /\ Slack \in Nat /\ RoundLen \in Nat /\ RoundLen >= 1
      /\ pausedAt \in Nat /\ pausedAt <= now
      /\ Lateness(round) \in Nat
      /\ db \in Times /\ gs \in Times
  BY TimeTypes
<1>3. /\ RoundLen * round \in Int /\ RoundLen * (round + 1) \in Int
      /\ RoundLen * (round + 1) = RoundLen * round + RoundLen
  BY <1>2, NextRound
<1>4. CASE GraceBegins
  BY <1>4 DEF GraceBegins, LoopOnTime, dbVars, loopVars
<1>5. CASE EnterLoop
  <2>1. UNCHANGED <<now, db, round>> /\ pc = "boot" /\ pc' = "top"
    BY <1>5 DEF EnterLoop, dbVars, loopVars
  <2>2. now <= db.start + RoundLen * round + Lateness(round)
    BY <1>2, <1>3, <2>1 DEF LoopOnTime, Lateness
  <2>. QED
    BY <2>1, <2>2 DEF LoopOnTime, Lateness
<1>6. CASE CheckPause \/ EndGame \/ GoOn \/ SetFreezeRound
  <2>1. /\ UNCHANGED <<now, db, round>> /\ pc \in {"top", "go", "freeze"}
        /\ \/ pc' \in {"go", "ended", "freeze", "start"}
           \/ pc = "top" /\ pc' = "paused" /\ pausedAt' = now
    <3>1. CASE CheckPause
      BY <3>1 DEF CheckPause, dbVars
    <3>2. CASE EndGame \/ GoOn \/ SetFreezeRound
      BY <3>2 DEF EndGame, GoOn, SetFreezeRound, dbVars, loopVars
    <3>. QED
      BY <1>6, <3>1, <3>2
  <2>. QED
    BY <2>1 DEF LoopOnTime, Lateness
<1>7. CASE StartRound
  <2>1. UNCHANGED <<now, db, round>> /\ pc = "start" /\ pc' = "checking"
    BY <1>7 DEF StartRound, dbVars, loopVars
  <2>2. now <= db.start + RoundLen * round + Lateness(round)
    BY <2>1 DEF LoopOnTime
  <2>3. now <= db.start + RoundLen * (round + 1) + Slack
    <3>1. Lateness(round) <= RoundLen + Slack
      BY <1>2 DEF Lateness
    <3>. HIDE DEF Lateness
    <3>. QED
      BY <1>2, <1>3, <2>2, <3>1
  <2>. QED
    BY <2>1, <2>3 DEF LoopOnTime
<1>8. CASE CloseRound
  <2>1. UNCHANGED <<now, db>> /\ pc = "checking" /\ pc' = "top" /\ round' = round + 1
    BY <1>8 DEF CloseRound, dbVars
  <2>2. now <= db.start + RoundLen * round' + Slack
    BY <2>1 DEF LoopOnTime
  <2>3. Lateness(round)' = Slack
    BY <1>2, <2>1 DEF Lateness
  <2>. QED
    BY <2>1, <2>2, <2>3 DEF LoopOnTime
<1>9. CASE ShiftStart
  <2>1. /\ db'.start = db.start + (now - pausedAt) /\ UNCHANGED <<now, round>>
        /\ pc = "paused" /\ pc' = "shiftEnd"
    BY <1>2, <1>9 DEF ShiftStart, Elapsed, HistoryInv, ClockLoaded, Times, loopVars
  <2>2. pausedAt <= db.start + RoundLen * round + Lateness(round)
    BY <2>1 DEF LoopOnTime
  <2>3. now <= db'.start + RoundLen * round + Lateness(round)
    BY <1>2, <1>3, <2>1, <2>2
  <2>. QED
    BY <2>1, <2>3 DEF LoopOnTime, Lateness
<1>10. CASE ShiftEnd \/ ShiftFreeze \/ Reload
  <2>1. /\ db'.start = db.start /\ UNCHANGED <<now, round>>
        /\ pc \in {"shiftEnd", "shiftFreeze", "reload"}
        /\ pc' \in {"shiftFreeze", "reload", "go"}
    BY <1>2, <1>10 DEF ShiftEnd, ShiftFreeze, Reload, Times, dbVars, loopVars
  <2>. QED
    BY <2>1 DEF LoopOnTime, Lateness
<1>11. CASE ClearRows
  BY <1>11 DEF ClearRows, LoopOnTime, dbVars, loopVars
<1>. QED
  BY <1>4, <1>5, <1>6, <1>7, <1>8, <1>9, <1>10, <1>11

LEMMA LoopOnTimeStep == TypeOK /\ HistoryInv /\ LoopOnTime /\ [Next]_vars => LoopOnTime'
<1>. SUFFICES ASSUME TypeOK, HistoryInv, LoopOnTime, [Next]_vars
              PROVE  LoopOnTime'
  OBVIOUS
<1>1. CASE UNCHANGED <<now, db, round, pausedAt, pc>>
  BY <1>1 DEF LoopOnTime, Lateness
<1>2. CASE Pause \/ Resume \/ UNCHANGED vars
  BY <1>1, <1>2 DEF Pause, Resume, vars, dbVars, loopVars
<1>3. CASE Crash
  BY <1>3 DEF Crash, LoopOnTime
<1>4. CASE Loop
  BY <1>4, BootOnTime, MoveOnTime DEF Loop
<1>5. ASSUME NEW t \in Targets, Ask(t) \/ Answer(t) \/ PublishRow(t)
      PROVE  LoopOnTime'
  BY <1>1, <1>5 DEF Ask, Answer, PutAnswer, CheckAnswer, GetAnswer, PublishRow,
     dbVars, loopVars
<1>. QED
  BY <1>2, <1>3, <1>4, <1>5, TickOnTime DEF Next

(* Every round but the first starts within Slack of its time, and the      *)
(* first before it is over, through any number of pauses, shifts and       *)
(* crashes.                                                                *)
THEOREM RoundsStartOnTime == Spec => StartsOnTime
<1>1. Init => LoopOnTime
  BY DEF Init, LoopOnTime
<1>2. Spec => []LoopOnTime
  BY <1>1, LoopOnTimeStep, TypeCorrect, RoundsInvariant, PTL DEF Spec, IInv
<1>3. TypeOK /\ HistoryInv /\ LoopOnTime => StartStep
  <2>. SUFFICES ASSUME TypeOK, HistoryInv, LoopOnTime, StartRound
                PROVE  now - RoundStart(round) \in 0..Lateness(round)
    BY DEF StartStep, Lateness
  <2>1. /\ db.start \in Nat /\ now \in Nat /\ round \in Nat /\ Lateness(round) \in Nat
        /\ RoundLen * round \in Int
    BY TimeTypes, NextRound
  <2>2. pc = "start" /\ gs.start = db.start
    BY DEF StartRound, HistoryInv, ClockLoaded
  <2>3. /\ now <= db.start + RoundLen * round + Lateness(round)
        /\ db.start + RoundLen * round <= now
    BY <2>2 DEF LoopOnTime, HistoryInv, ClockCovers, InLoop
  <2>. HIDE DEF Lateness
  <2>. QED
    BY <2>1, <2>2, <2>3 DEF RoundStart
<1>4. TypeOK /\ HistoryInv /\ LoopOnTime /\ [Next]_vars => [StartStep]_vars
  BY <1>3
<1>. QED
  BY <1>2, <1>4, TypeCorrect, RoundsInvariant, PTL DEF Spec, IInv, StartsOnTime

-----------------------------------------------------------------------------
(***************************************************************************)
(* The frozen scoreboard.                                                  *)
(***************************************************************************)

(* The round the scoreboard is frozen at is over and will not be played    *)
(* again; unless it is exposed, no row of it is left or will ever come.    *)
FreezeInv ==
  /\ freezeRound # -1 => frozen
  /\ pc = "freeze" => frozen /\ freezeRound = -1
  /\ freezeRound >= 1 =>
       /\ db.start + RoundLen * (freezeRound + 1) <= now
       /\ Playing => freezeRound < round
       /\ freezeRound > exposed => \A x \in rows : x.round # freezeRound

(* What a step does to the rows.                                           *)
LEMMA RowsStep ==
  ASSUME TypeOK, HistoryInv, [Next]_vars
  PROVE  /\ \A x \in rows : x.round <= exposed => x \in rows'
         /\ \A x \in rows' \ rows : x.round = round /\ InLoop
<1>1. CASE UNCHANGED rows
  BY <1>1
<1>2. CASE ClearRows
  <2>1. rows' = rows \ Leftover(rows)
    BY <1>2 DEF ClearRows
  <2>. QED
    BY <2>1, FlagTypes DEF Leftover
<1>3. ASSUME NEW t \in Targets, PublishRow(t)
      PROVE  /\ rows \subseteq rows'
             /\ \A x \in rows' \ rows : x.round = round /\ InLoop
  <2>1. InLoop
    BY <1>3 DEF PublishRow, HistoryInv, TasksInRound, InLoop
  <2>. DEFINE row == [target |-> t, round |-> round, put |-> task[t].put,
                      check |-> task[t].check, get |-> task[t].get,
                      tot |-> 0, up |-> 0]
              S   == SlaRows(t, row)
              n   == [row EXCEPT !.tot = Cardinality(Checked(S)),
                                 !.up = Cardinality(Up(S))]
  <2>2. n.round = round
    OBVIOUS
  <2>3. rows' = rows \/ rows' = rows \cup {n}
    BY <1>3 DEF PublishRow
  <2>. HIDE DEF n
  <2>. QED
    BY <2>1, <2>2, <2>3
<1>4. CASE Loop /\ ~ClearRows
  BY <1>1, <1>4 DEF Loop, Boot, BootEnded, BootRunning, BootEarly, GraceBegins, EnterLoop, CheckPause, ShiftStart, ShiftEnd,
     ShiftFreeze, Reload, EndGame, GoOn, SetFreezeRound, StartRound, CloseRound, gameVars
<1>5. CASE Tick \/ Pause \/ Resume \/ Crash \/ UNCHANGED vars
  BY <1>1, <1>5 DEF Tick, Pause, Resume, Crash, vars, gameVars
<1>6. ASSUME NEW t \in Targets, Ask(t) \/ Answer(t)
      PROVE  UNCHANGED rows
  BY <1>6 DEF Ask, Answer, PutAnswer, CheckAnswer, GetAnswer, gameVars
<1>. QED
  BY <1>1, <1>2, <1>3, <1>4, <1>5, <1>6 DEF Next

(* What a step does to the rounds that are exposed.                        *)
LEMMA ExposedStep ==
  ASSUME TypeOK, HistoryInv, [Next]_vars
  PROVE  exposed <= exposed' /\ exposed' \in Int
<1>1. CASE CloseRound
  BY <1>1, FlagTypes DEF CloseRound, HistoryInv, RoundAhead, InLoop
<1>2. CASE Loop /\ ~CloseRound
  <2>1. exposed' = exposed
    BY <1>2 DEF Loop, Boot, ClearRows, BootEnded, BootRunning, BootEarly, GraceBegins, EnterLoop,
       CheckPause, ShiftStart, ShiftEnd, ShiftFreeze, Reload, EndGame, GoOn,
       SetFreezeRound, StartRound, gameVars
  <2>. QED
    BY <2>1, FlagTypes
<1>3. CASE ~Loop
  <2>1. exposed' = exposed
    BY <1>3 DEF Next, Tick, Pause, Resume, Crash, Ask, Answer, PutAnswer, CheckAnswer,
       GetAnswer, PublishRow, vars, gameVars
  <2>. QED
    BY <2>1, FlagTypes
<1>. QED
  BY <1>1, <1>2, <1>3

(* The clock part: it never goes back behind the start of the round being  *)
(* played.                                                                 *)
LEMMA ClockStep ==
  ASSUME TypeOK, HistoryInv, [Next]_vars
  PROVE  /\ now <= now' /\ now' \in Nat /\ db'.start \in Nat
         /\ db'.start # db.start => InLoop /\ db'.start + RoundLen * round <= now'
<1>0. db \in Times /\ gs \in Times /\ now \in Nat /\ pausedAt \in Nat /\ round \in Nat
      /\ pausedAt <= now /\ RoundLen * round \in Int
  BY TimeTypes, NextRound
<1>1. CASE ShiftStart
  <2>1. /\ db'.start = db.start + (now - pausedAt) /\ now' = now /\ pc = "paused"
    BY <1>0, <1>1 DEF ShiftStart, Elapsed, HistoryInv, ClockLoaded, Times
  <2>2. db.start + RoundLen * round <= pausedAt
    BY <2>1 DEF HistoryInv, ClockCovers
  <2>. QED
    BY <1>0, <2>1, <2>2 DEF InLoop, Times
<1>2. CASE ShiftEnd \/ ShiftFreeze
  <2>1. db'.start = db.start /\ now' = now
    BY <1>0, <1>2 DEF ShiftEnd, ShiftFreeze, Times
  <2>. QED
    BY <1>0, <2>1 DEF Times
<1>3. CASE Tick
  BY <1>0, <1>3 DEF Tick, dbVars, Times
<1>4. CASE UNCHANGED <<now, db>>
  BY <1>0, <1>4 DEF Times
<1>5. CASE Loop /\ ~ShiftStart /\ ~ShiftEnd /\ ~ShiftFreeze
  BY <1>4, <1>5 DEF Loop, Boot, ClearRows, GraceBegins, EnterLoop, CheckPause, Reload, EndGame,
     GoOn, SetFreezeRound, StartRound, CloseRound, dbVars
<1>6. CASE Pause \/ Resume \/ Crash \/ UNCHANGED vars
  BY <1>4, <1>6 DEF Pause, Resume, Crash, vars, dbVars
<1>7. ASSUME NEW t \in Targets, Ask(t) \/ Answer(t) \/ PublishRow(t)
      PROVE  UNCHANGED <<now, db>>
  BY <1>7 DEF Ask, Answer, PutAnswer, CheckAnswer, GetAnswer, PublishRow, dbVars
<1>. QED
  BY <1>1, <1>2, <1>3, <1>4, <1>5, <1>6, <1>7 DEF Next, Loop

(* A round that is over is not played again.                               *)
LEMMA RoundStep ==
  ASSUME TypeOK, HistoryInv, [Next]_vars, NEW r \in Nat \ {0},
         db.start + RoundLen * (r + 1) <= now, Playing => r < round
  PROVE  /\ (db.start + RoundLen * (r + 1) <= now)'
         /\ Playing' => r < round'
<1>0. /\ db.start \in Nat /\ now \in Nat /\ round \in Nat /\ RoundLen \in Nat
      /\ RoundLen * (r + 1) \in Int /\ RoundLen * round \in Int
  BY TimeTypes, NextRound
<1>1. (db.start + RoundLen * (r + 1) <= now)'
  <2>1. CASE db'.start = db.start
    BY <1>0, <2>1, ClockStep
  <2>2. CASE InLoop /\ db'.start + RoundLen * round <= now'
    <3>1. RoundLen * (r + 1) <= RoundLen * round
      BY <1>0, <2>2, LaterRound DEF Playing
    <3>. QED
      BY <1>0, <2>2, <3>1, ClockStep
  <2>. QED
    BY <2>1, <2>2, ClockStep
<1>2. ASSUME Playing'
      PROVE  r < round'
  <2>1. CASE Boot
    <3>1. ~BootEnded
      BY <1>2 DEF BootEnded, Playing, InLoop
    <3>2. db.start + RoundLen * 2 <= now
      <4>1. RoundLen * 2 <= RoundLen * (r + 1)
        BY LaterRound
      <4>. QED
        BY <1>0, <4>1
    <3>3. BootRunning
      BY <1>0, <2>1, <3>1, <3>2 DEF Boot, BootEarly
    <3>. DEFINE current == (now - db.start) \div RoundLen
    <3>4. current \in Nat /\ now - db.start < RoundLen * (current + 1)
      BY <1>0, <3>3, RoundOfTime DEF BootRunning
    <3>5. r + 1 < current + 1
      <4>. HIDE DEF current
      <4>1. SUFFICES ASSUME current + 1 <= r + 1
                     PROVE  FALSE
        BY <3>4
      <4>2. RoundLen * (current + 1) <= RoundLen * (r + 1)
        BY <3>4, <4>1, LaterRound
      <4>3. RoundLen * (current + 1) \in Int
        BY <3>4
      <4>. QED
        BY <1>0, <3>4, <4>2, <4>3
    <3>6. round' = current + 1
      <4>1. current > 0
        <5>. HIDE DEF current
        <5>. QED
          BY <3>4, <3>5
      <4>. QED
        BY <3>3, <4>1 DEF BootRunning
    <3>. HIDE DEF current
    <3>. QED
      BY <3>4, <3>5, <3>6
  <2>2. CASE CloseRound
    BY <1>0, <2>2 DEF CloseRound, Playing, InLoop
  <2>3. CASE Loop /\ ~Boot /\ ~CloseRound
    <3>1. round' = round /\ Playing
      BY <2>3 DEF Loop, ClearRows, GraceBegins, EnterLoop, CheckPause, ShiftStart, ShiftEnd,
         ShiftFreeze, Reload, EndGame, GoOn, SetFreezeRound, StartRound, loopVars,
         Playing, InLoop
    <3>. QED
      BY <3>1
  <2>4. CASE ~Loop
    <3>1. CASE Crash
      BY <1>2, <3>1 DEF Crash, Playing, InLoop
    <3>2. CASE ~Crash
      <4>1. round' = round /\ pc' = pc
        BY <2>4, <3>2 DEF Next, Tick, Pause, Resume, Ask, Answer, PutAnswer, CheckAnswer,
           GetAnswer, PublishRow, vars, loopVars
      <4>. QED
        BY <1>2, <4>1 DEF Playing, InLoop
    <3>. QED
      BY <3>1, <3>2
  <2>. QED
    BY <2>1, <2>2, <2>3, <2>4
<1>. QED
  BY <1>1, <1>2

LEMMA FreezeInvStep == TypeOK /\ HistoryInv /\ FreezeInv /\ [Next]_vars => FreezeInv'
<1>. SUFFICES ASSUME TypeOK, HistoryInv, FreezeInv, [Next]_vars
              PROVE  FreezeInv'
  OBVIOUS
<1>0. freezeRound \in Nat \cup {-1} /\ exposed \in Int /\ round \in Nat
  BY DEF TypeOK
<1>1. CASE SetFreezeRound
  <2>1. /\ freezeRound' = IF round = 0 THEN 0 ELSE round - 1
        /\ UNCHANGED <<now, db, frozen, exposed, rows, round>>
        /\ pc = "freeze" /\ pc' = "start" /\ frozen
    BY <1>1 DEF SetFreezeRound, RoundToFreeze, gameVars, loopVars, FreezeInv
  <2>2. ASSUME freezeRound' >= 1
        PROVE  /\ (db.start + RoundLen * (freezeRound + 1) <= now)'
               /\ freezeRound' < round'
               /\ freezeRound' > exposed' => \A x \in rows' : x.round # freezeRound'
    <3>1. freezeRound' = round - 1 /\ freezeRound' + 1 = round
      BY <1>0, <2>1, <2>2
    <3>2. db.start + RoundLen * round <= now
      BY <2>1 DEF HistoryInv, ClockCovers, InLoop
    <3>3. \A x \in rows : x.round > exposed => x.round = round
      BY <2>1 DEF HistoryInv, RoundAhead, InLoop
    <3>4. \A x \in rows : x.round \in Nat
      BY FlagTypes
    <3>. QED
      BY <1>0, <2>1, <3>1, <3>2, <3>3, <3>4
  <2>. QED
    BY <2>1, <2>2 DEF FreezeInv
<1>2. CASE ~SetFreezeRound
  <2>1. freezeRound' = freezeRound
    BY <1>2 DEF Next, Loop, Tick, Pause, Resume, Crash, Boot, ClearRows, GraceBegins, EnterLoop,
       CheckPause, ShiftStart, ShiftEnd, ShiftFreeze, Reload, EndGame, GoOn, StartRound,
       CloseRound, Ask, Answer, PutAnswer, CheckAnswer, GetAnswer, PublishRow, vars, dbVars
  <2>2. /\ frozen => frozen'
        /\ pc' = "freeze" => frozen' /\ (pc = "freeze" \/ ~frozen)
    <3>1. CASE GoOn
      BY <3>1 DEF GoOn, FreezeIsDue
    <3>2. CASE Loop /\ ~GoOn
      <4>1. frozen' = frozen
        BY <3>2 DEF Loop, Boot, ClearRows, GraceBegins, EnterLoop,
           CheckPause, ShiftStart, ShiftEnd, ShiftFreeze, Reload, EndGame, StartRound,
           SetFreezeRound, CloseRound, dbVars
      <4>2. pc' # "freeze"
        BY <3>2 DEF Loop, Boot, ClearRows, BootEnded, BootRunning, BootEarly, GraceBegins, EnterLoop,
           CheckPause, ShiftStart, ShiftEnd, ShiftFreeze, Reload, EndGame, StartRound,
           SetFreezeRound, CloseRound
      <4>. QED
        BY <4>1, <4>2
    <3>3. CASE ~Loop
      <4>1. frozen' = frozen /\ (pc' = pc \/ pc' = "down")
        BY <3>3 DEF Next, Tick, Pause, Resume, Crash, Ask, Answer, PutAnswer, CheckAnswer,
           GetAnswer, PublishRow, vars, dbVars
      <4>. QED
        BY <4>1 DEF FreezeInv
    <3>. QED
      BY <3>1, <3>2, <3>3
  <2>3. ASSUME freezeRound >= 1
        PROVE  /\ (db.start + RoundLen * (freezeRound + 1) <= now)'
               /\ Playing' => freezeRound' < round'
               /\ freezeRound' > exposed' => \A x \in rows' : x.round # freezeRound'
    <3>1. /\ db'.start + RoundLen * (freezeRound + 1) <= now'
          /\ Playing' => freezeRound < round'
      <4>1. PICK r \in Nat \ {0} : r = freezeRound
        BY <1>0, <2>3
      <4>2. db.start + RoundLen * (r + 1) <= now /\ (Playing => r < round)
        BY <2>3, <4>1 DEF FreezeInv
      <4>3. db'.start + RoundLen * (r + 1) <= now' /\ (Playing' => r < round')
        BY <4>2, RoundStep
      <4>. QED
        BY <4>1, <4>3
    <3>2. ASSUME freezeRound > exposed', NEW x \in rows'
          PROVE  x.round # freezeRound
      <4>1. freezeRound > exposed
        BY <1>0, <3>2, ExposedStep
      <4>2. CASE x \in rows
        BY <2>3, <4>1, <4>2 DEF FreezeInv
      <4>3. CASE x \notin rows
        <5>1. x.round = round /\ Playing
          BY <3>2, <4>3, RowsStep DEF Playing
        <5>. QED
          BY <1>0, <2>3, <5>1 DEF FreezeInv
      <4>. QED
        BY <4>2, <4>3
    <3>. QED
      BY <2>1, <3>1, <3>2
  <2>. QED
    BY <2>1, <2>2, <2>3 DEF FreezeInv
<1>. QED
  BY <1>1, <1>2

(* Once the freeze round was played, it is what the scoreboard shows.      *)
LEMMA ShownWhenPlayed ==
  ASSUME TypeOK, FreezeInv, frozen, exposed >= 0, Played(freezeRound), NEW t \in Targets
  PROVE  ShownRound(t) = freezeRound /\ freezeRound \in 0..exposed
<1>1. PICK x \in rows : x.target = t /\ x.round = freezeRound
  BY DEF Played, RowsOf
<1>2. freezeRound \in Nat /\ exposed \in Int
  BY <1>1, FlagTypes
<1>3. freezeRound <= exposed
  BY <1>1, <1>2 DEF FreezeInv
<1>4. x \in RowsOf(t)
  BY <1>1 DEF RowsOf
<1>5. ScoreRound = freezeRound
  BY <1>2, <1>3 DEF ScoreRound
<1>. QED
  BY <1>1, <1>2, <1>3, <1>4, <1>5 DEF ShownRound

LEMMA FrozenKept ==
  ASSUME TypeOK, TypeOK', HistoryInv, FreezeInv, FreezeInv', [Next]_vars,
         Played(freezeRound), frozen, frozen', exposed >= 0, NEW t \in Targets
  PROVE  ShownRound(t)' = ShownRound(t)
<1>1. ShownRound(t) = freezeRound /\ freezeRound \in 0..exposed
  BY ShownWhenPlayed
<1>2. freezeRound' = freezeRound
  <2>1. ~SetFreezeRound
    BY <1>1, FlagTypes DEF SetFreezeRound, FreezeInv
  <2>. QED
    BY <2>1 DEF Next, Loop, Tick, Pause, Resume, Crash, Boot, ClearRows, GraceBegins, EnterLoop,
       CheckPause, ShiftStart, ShiftEnd, ShiftFreeze, Reload, EndGame, GoOn, StartRound,
       CloseRound, Ask, Answer, PutAnswer, CheckAnswer, GetAnswer, PublishRow, vars, dbVars
<1>3. exposed' >= 0
  BY ExposedStep, FlagTypes
<1>4. \A u \in Targets : \E x \in RowsOf(u) : x.round = freezeRound /\ x \in rows'
  <2>. TAKE u \in Targets
  <2>1. PICK x \in RowsOf(u) : x.round = freezeRound
    BY DEF Played
  <2>2. x \in rows'
    BY <1>1, <2>1, RowsStep, FlagTypes DEF RowsOf
  <2>. QED
    BY <2>1, <2>2
<1>5. Played(freezeRound)'
  BY <1>2, <1>4 DEF Played, RowsOf
<1>6. (ShownRound(t) = freezeRound)'
  <2>1. freezeRound' \in 0..exposed'
    <3>1. exposed <= exposed' /\ exposed' \in Int
      BY ExposedStep
    <3>. QED
      BY <1>1, <1>2, <3>1, FlagTypes
  <2>2. ScoreRound' = freezeRound'
    <3>1. exposed' \in Int
      BY ExposedStep
    <3>2. CASE freezeRound' = exposed'
      BY <3>2 DEF ScoreRound
    <3>3. CASE freezeRound' \in 0..(exposed' - 1)
      BY <3>3 DEF ScoreRound
    <3>4. \A n \in Int : \A f \in 0..n : f = n \/ f \in 0..(n - 1)
      OBVIOUS
    <3>. QED
      BY <2>1, <3>1, <3>2, <3>3, <3>4
  <2>3. \E x \in RowsOf(t)' : x.round = freezeRound'
    BY <1>5 DEF Played
  <2>. QED
    BY <2>2, <2>3 DEF ShownRound
<1>. QED
  BY <1>1, <1>2, <1>6

(* A scoreboard that is frozen at a round that was played goes on showing  *)
(* that round, whatever is exposed, thrown away or played again later.     *)
THEOREM FrozenRoundIsShown == Spec => FrozenAtPlayedRound
<1>1. Init => FreezeInv
  BY DEF Init, FreezeInv
<1>2. Spec => []FreezeInv
  BY <1>1, FreezeInvStep, TypeCorrect, RoundsInvariant, PTL DEF Spec, IInv
<1>3. TypeOK /\ TypeOK' /\ HistoryInv /\ FreezeInv /\ FreezeInv' /\ [Next]_vars
      => [Played(freezeRound) => FrozenStep]_vars
  BY FrozenKept DEF FrozenStep
<1>. QED
  BY <1>2, <1>3, TypeCorrect, RoundsInvariant, PTL DEF Spec, IInv, FrozenAtPlayedRound

-----------------------------------------------------------------------------
(***************************************************************************)
(* What the players are told.                                              *)
(***************************************************************************)

(* Games that are not configured to end before they start: the code does   *)
(* not check it.                                                           *)
EndsAfterStart ==
  \A s \in InitialStarts : \A e \in InitialEnds \ {Never} : s <= e

(* All of the clock in memory is that of the database, but for a shift.    *)
AllLoaded == pc \notin {"down", "shiftEnd", "shiftFreeze", "reload"} => gs = db

(* A crash in the middle of a shift may leave an end before the start, but *)
(* only when the game has started.                                         *)
EndKnown == db.end # Never => db.start <= db.end \/ db.start <= now

(* The network is what the place of the loop says.                         *)
NetworkFollows ==
  /\ now < db.start - Grace => net = "FROZEN"
  /\ pc \in {"clearing", "boot"} =>
       /\ db.start - Grace <= now
       /\ net = IF round = 0 THEN "LOCKED" ELSE "UNLOCKED"
  /\ InLoop => net = "UNLOCKED"
  /\ pc = "ended" => net = "LOCKED" /\ Past(db.end)

(* A round is played if it begins before the game ends.                    *)
EndAhead ==
  db.end # Never =>
    /\ pc \in {"grace", "clearing", "boot"} => db.start <= db.end
    /\ pc \in {"clearing", "boot", "top", "paused"} =>
         db.start + RoundLen * (round - 1) <= db.end
    /\ pc \in {"freeze", "start", "checking"} => db.start + RoundLen * round <= db.end

ToldInv == AllLoaded /\ EndKnown /\ NetworkFollows /\ EndAhead

LEMMA ToldInit == ASSUME EndsAfterStart, Init PROVE ToldInv
<1>1. PICK s \in InitialStarts, e \in InitialEnds, f \in InitialFreezes :
        db = [start |-> s, end |-> e, freezeAt |-> f]
  BY DEF Init
<1>2. db.start = s /\ db.end = e
  BY <1>1
<1>. QED
  BY <1>2 DEF Init, ToldInv, AllLoaded, EndKnown, NetworkFollows, EndAhead,
     EndsAfterStart, InLoop

LEMMA ToldTypes ==
  ASSUME TypeOK
  PROVE  /\ db \in Times /\ gs \in Times
         /\ db.start \in Nat /\ gs.start \in Nat /\ now \in Nat /\ round \in Nat
         /\ db.end # Never => db.end \in Nat
         /\ gs.end # Never => gs.end \in Nat
         /\ pausedAt \in Nat /\ pausedAt <= now /\ Grace \in Nat
         /\ RoundLen \in Nat /\ RoundLen >= 1
         /\ RoundLen * round \in Int /\ RoundLen * (round - 1) \in Int
         /\ RoundLen * round = RoundLen * (round - 1) + RoundLen
BY TimeTypes, NextRound DEF Times

LEMMA LoopIsOn ==
  ASSUME TypeOK, HistoryInv, InLoop
  PROVE  db.start <= now /\ db.start + RoundLen * round <= now
<1>1. RoundLen * 0 <= RoundLen * round
  BY ToldTypes, LaterRound
<1>2. db.start + RoundLen * round <= now
  BY DEF HistoryInv, ClockCovers
<1>. QED
  BY <1>1, <1>2, ToldTypes

(* Steps that leave clock, loop and network alone. *)
LEMMA ToldQuiet ==
  ASSUME ToldInv, UNCHANGED <<now, db, gs, net, pc, round>>
  PROVE  ToldInv'
BY DEF ToldInv, AllLoaded, EndKnown, NetworkFollows, EndAhead, InLoop, Past

LEMMA ToldTick ==
  ASSUME TypeOK, ToldInv, Tick
  PROVE  ToldInv'
<1>1. now' = now + 1 /\ UNCHANGED <<db, gs, net, pc, round>>
  BY DEF Tick, dbVars, loopVars
<1>2. /\ db.start \in Nat /\ now \in Nat /\ Grace \in Nat
      /\ db.end # Never => db.end \in Nat
  BY ToldTypes
<1>. QED
  BY <1>1, <1>2 DEF ToldInv, AllLoaded, EndKnown, NetworkFollows, EndAhead, InLoop, Past

LEMMA ToldBoot ==
  ASSUME TypeOK, ToldInv, Boot
  PROVE  ToldInv'
<1>0. /\ db.start \in Nat /\ now \in Nat /\ Grace \in Nat
      /\ db.end # Never => db.end \in Nat
      /\ RoundLen \in Nat /\ RoundLen >= 1
  BY ToldTypes
<1>1. gs' = db /\ UNCHANGED <<now, db>> /\ pc' \in {"ended", "clearing", "boot", "grace"}
  BY DEF Boot, BootEnded, BootRunning, BootEarly, dbVars
<1>2. AllLoaded' /\ EndKnown'
  BY <1>1 DEF ToldInv, AllLoaded, EndKnown
<1>3. CASE BootEnded
  <2>1. pc' = "ended" /\ net' = "LOCKED" /\ Past(db.end) /\ db.start <= now
    BY <1>0, <1>3 DEF BootEnded, Past, ToldInv, EndKnown
  <2>2. NetworkFollows' /\ EndAhead'
    BY <1>0, <1>1, <2>1 DEF NetworkFollows, EndAhead, InLoop, Past
  <2>. QED
    BY <1>2, <2>2 DEF ToldInv
<1>4. ASSUME ~Past(db.end), round' = 0,
             \/ pc' = "boot" /\ net' = "LOCKED" /\ db.start - Grace <= now
             \/ pc' = "grace" /\ (net' = net \/ db.start <= now)
      PROVE  ToldInv'
  <2>1. db.end # Never => now <= db.end /\ db.start <= db.end
    BY <1>0, <1>4 DEF Past, ToldInv, EndKnown
  <2>2. RoundLen * (round' - 1) = -RoundLen
    BY <1>0, <1>4
  <2>3. NetworkFollows'
    BY <1>0, <1>1, <1>4 DEF ToldInv, NetworkFollows, InLoop
  <2>4. EndAhead'
    BY <1>0, <1>1, <1>4, <2>1, <2>2 DEF EndAhead
  <2>. QED
    BY <1>2, <2>3, <2>4 DEF ToldInv
<1>5. CASE BootEarly
  BY <1>0, <1>4, <1>5 DEF BootEarly
<1>6. CASE BootRunning
  <2>. DEFINE current == (now - db.start) \div RoundLen
  <2>1. current \in Nat /\ RoundLen * current <= now - db.start
    BY <1>0, <1>6, RoundOfTime DEF BootRunning
  <2>2. CASE ~(current > 0)
    <3>1. round' = 0 /\ pc' = "grace" /\ db.start <= now /\ ~Past(db.end)
      BY <1>0, <1>6, <2>2 DEF BootRunning
    <3>. QED
      BY <1>4, <3>1
  <2>3. CASE current > 0
    <3>1. /\ round' = current + 1 /\ pc' = "clearing" /\ net' = "UNLOCKED"
          /\ db.start < now /\ ~Past(db.end)
      BY <1>0, <1>6, <2>3 DEF BootRunning
    <3>. HIDE DEF current
    <3>2. round' # 0 /\ round' - 1 = current
      BY <2>1, <3>1
    <3>3. RoundLen * (round' - 1) \in Int /\ db.start + RoundLen * (round' - 1) <= now
      BY <1>0, <2>1, <3>2
    <3>4. db.end # Never => now <= db.end
      BY <1>0, <3>1 DEF Past
    <3>5. NetworkFollows'
      BY <1>0, <1>1, <3>1, <3>2 DEF NetworkFollows, InLoop
    <3>6. EndAhead'
      BY <1>0, <1>1, <3>1, <3>3, <3>4 DEF EndAhead
    <3>. QED
      BY <1>2, <3>5, <3>6 DEF ToldInv
  <2>. QED
    BY <2>2, <2>3
<1>. QED
  BY <1>3, <1>5, <1>6 DEF Boot

(* Steps of the loop that leave the clock alone. *)
LEMMA ToldMove ==
  ASSUME TypeOK, HistoryInv, LoopOnTime, ToldInv,
         \/ ClearRows \/ GraceBegins \/ EnterLoop \/ CheckPause \/ EndGame \/ GoOn
         \/ SetFreezeRound \/ StartRound \/ CloseRound
  PROVE  ToldInv'
<1>0. /\ db.start \in Nat /\ now \in Nat /\ Grace \in Nat /\ round \in Nat
      /\ db.end # Never => db.end \in Nat
      /\ RoundLen \in Nat /\ RoundLen >= 1
      /\ RoundLen * round \in Int /\ RoundLen * (round - 1) \in Int
      /\ RoundLen * round = RoundLen * (round - 1) + RoundLen
  BY ToldTypes
<1>1. /\ UNCHANGED <<now, db, gs>> /\ gs = db
      /\ pc' \in {"boot", "top", "paused", "go", "ended", "freeze", "start", "checking"}
  BY DEF ClearRows, GraceBegins, EnterLoop, CheckPause, EndGame, GoOn, SetFreezeRound,
     StartRound, CloseRound, dbVars, loopVars, ToldInv, AllLoaded
<1>2. AllLoaded' /\ EndKnown'
  BY <1>1 DEF ToldInv, AllLoaded, EndKnown
<1>3. CASE GraceBegins
  <2>1. /\ pc = "grace" /\ pc' = "boot" /\ net' = "LOCKED" /\ round' = round
        /\ db.start - Grace <= now /\ round = 0
    BY <1>0, <1>1, <1>3 DEF GraceBegins, loopVars, LoopOnTime
  <2>2. NetworkFollows'
    BY <1>0, <1>1, <2>1 DEF NetworkFollows, InLoop
  <2>3. EndAhead'
    BY <1>0, <1>1, <2>1 DEF ToldInv, EndAhead
  <2>. QED
    BY <1>2, <2>2, <2>3 DEF ToldInv
<1>4. CASE EnterLoop
  <2>1. /\ pc = "boot" /\ pc' = "top" /\ round' = round
        /\ net' = "UNLOCKED" /\ db.start + RoundLen * round <= now
    BY <1>0, <1>1, <1>4 DEF EnterLoop, loopVars, RoundStart, ToldInv, NetworkFollows
  <2>2. db.start <= now
    <3>1. RoundLen * 0 <= RoundLen * round
      BY <1>0, LaterRound
    <3>. QED
      BY <1>0, <2>1, <3>1
  <2>3. NetworkFollows'
    BY <1>0, <1>1, <2>1, <2>2 DEF NetworkFollows, InLoop
  <2>4. EndAhead'
    BY <1>0, <1>1, <2>1 DEF ToldInv, EndAhead
  <2>. QED
    BY <1>2, <2>3, <2>4 DEF ToldInv
<1>5. CASE CheckPause \/ GoOn \/ SetFreezeRound \/ StartRound \/ CloseRound
  <2>1. InLoop /\ InLoop' /\ net' = net
    BY <1>5 DEF CheckPause, GoOn, SetFreezeRound, StartRound, CloseRound, InLoop
  <2>2. db.start <= now /\ db.start + RoundLen * round <= now
    BY <2>1, LoopIsOn
  <2>3. NetworkFollows'
    BY <1>0, <1>1, <2>1, <2>2 DEF ToldInv, NetworkFollows, InLoop
  <2>4. EndAhead'
    <3>1. CASE CheckPause
      BY <1>0, <1>1, <3>1 DEF CheckPause, ToldInv, EndAhead
    <3>2. CASE GoOn
      <4>1. /\ db.end # Never => now <= db.end
            /\ round' = round /\ pc' \in {"freeze", "start"}
        BY <1>0, <1>1, <3>2 DEF GoOn, Past, loopVars
      <4>. QED
        BY <1>0, <1>1, <2>2, <4>1 DEF EndAhead
    <3>3. CASE SetFreezeRound \/ StartRound
      BY <1>0, <1>1, <3>3 DEF SetFreezeRound, StartRound, loopVars, ToldInv, EndAhead
    <3>4. CASE CloseRound
      <4>1. pc = "checking" /\ pc' = "top" /\ round' = round + 1 /\ round' - 1 = round
        BY <1>0, <3>4 DEF CloseRound
      <4>2. db.end # Never => db.start + RoundLen * round <= db.end
        BY <4>1 DEF ToldInv, EndAhead
      <4>. QED
        BY <1>1, <4>1, <4>2 DEF EndAhead
    <3>. QED
      BY <1>5, <3>1, <3>2, <3>3, <3>4
  <2>. QED
    BY <1>2, <2>3, <2>4 DEF ToldInv
<1>6. CASE EndGame
  <2>1. pc' = "ended" /\ net' = "LOCKED" /\ Past(db.end) /\ InLoop
    BY <1>1, <1>6 DEF EndGame, InLoop
  <2>2. db.start <= now
    BY <2>1, LoopIsOn
  <2>3. NetworkFollows' /\ EndAhead'
    BY <1>0, <1>1, <2>1, <2>2 DEF NetworkFollows, EndAhead, InLoop, Past
  <2>. QED
    BY <1>2, <2>3 DEF ToldInv
<1>7. CASE ClearRows
  <2>1. pc = "clearing" /\ pc' = "boot" /\ UNCHANGED <<net, round>>
    BY <1>7 DEF ClearRows, loopVars
  <2>2. NetworkFollows'
    BY <1>0, <1>1, <2>1 DEF ToldInv, NetworkFollows, InLoop
  <2>3. EndAhead'
    BY <1>0, <1>1, <2>1 DEF ToldInv, EndAhead
  <2>. QED
    BY <1>2, <2>2, <2>3 DEF ToldInv
<1>. QED
  BY <1>3, <1>4, <1>5, <1>6, <1>7

LEMMA ToldShift ==
  ASSUME TypeOK, HistoryInv, ToldInv, ShiftStart \/ ShiftEnd \/ ShiftFreeze \/ Reload
  PROVE  ToldInv'
<1>0. /\ db.start \in Nat /\ now \in Nat /\ Grace \in Nat
  BY ToldTypes
<1>1. /\ UNCHANGED <<now, net, round>> /\ InLoop /\ InLoop'
      /\ pc' \in {"shiftEnd", "shiftFreeze", "reload", "go"}
      /\ pc' = "go" => gs' = db'
  BY DEF ShiftStart, ShiftEnd, ShiftFreeze, Reload, InLoop, dbVars, loopVars
<1>2. db'.start \in Nat /\ db'.start <= now
  <2>1. [Next]_vars /\ db.start <= now
    BY <1>1, LoopIsOn DEF Next, Loop
  <2>2. RoundLen * 0 <= RoundLen * round /\ RoundLen * round \in Int
    BY ToldTypes, LaterRound
  <2>. QED
    BY <1>0, <1>1, <2>1, <2>2, ClockStep
<1>3. AllLoaded' /\ EndKnown' /\ EndAhead'
  BY <1>1, <1>2 DEF AllLoaded, EndKnown, EndAhead
<1>4. NetworkFollows'
  BY <1>0, <1>1, <1>2 DEF ToldInv, NetworkFollows, InLoop
<1>. QED
  BY <1>3, <1>4 DEF ToldInv

LEMMA ToldStep ==
  TypeOK /\ HistoryInv /\ LoopOnTime /\ ToldInv /\ [Next]_vars => ToldInv'
<1>. SUFFICES ASSUME TypeOK, HistoryInv, LoopOnTime, ToldInv, [Next]_vars
              PROVE  ToldInv'
  OBVIOUS
<1>1. CASE Loop
  BY <1>1, ToldBoot, ToldMove, ToldShift DEF Loop
<1>2. CASE Pause \/ Resume \/ UNCHANGED vars
  BY <1>2, ToldQuiet DEF Pause, Resume, vars, dbVars, loopVars
<1>3. CASE Crash
  BY <1>3 DEF Crash, dbVars, loopVars, ToldInv, AllLoaded, EndKnown, NetworkFollows,
     EndAhead, InLoop
<1>4. ASSUME NEW t \in Targets, Ask(t) \/ Answer(t) \/ PublishRow(t)
      PROVE  ToldInv'
  BY <1>4, ToldQuiet DEF Ask, Answer, PutAnswer, CheckAnswer, GetAnswer, PublishRow,
     dbVars, loopVars
<1>. QED
  BY <1>1, <1>2, <1>3, <1>4, ToldTick DEF Next

LEMMA PlayersAreToldByInv ==
  ASSUME TypeOK, HistoryInv, FreezeInv, ToldInv
  PROVE  PlayersAreTold
<1>. SUFFICES ASSUME Serving, AllWait
              PROVE  PlayersAreTold
  BY DEF PlayersAreTold
<1>. DEFINE text == InfoText(status)
<1>0. /\ db.start \in Nat /\ now \in Nat /\ Grace \in Nat /\ round \in Nat
      /\ db.end # Never => db.end \in Nat
      /\ RoundLen \in Nat /\ RoundLen >= 1
      /\ RoundLen * round \in Int /\ RoundLen * (round - 1) \in Int
  BY ToldTypes
<1>1. pc \in {"ended", "grace", "boot", "paused", "checking"} /\ gs = db
  BY DEF Serving, AllWait, ToldInv, AllLoaded
<1>2. /\ status.start = db.start /\ status.start_grace = db.start - Grace
      /\ status.end = db.end /\ status.network_state = net
      /\ status.scoreboard_frozen = frozen /\ status.freeze_round = freezeRound
  BY <1>1 DEF status
<1>3. /\ "FROZEN" \in Banners(status) <=> net = "FROZEN"
      /\ "LOCKED" \in Banners(status) <=> net = "LOCKED"
      /\ "scoreboard frozen" \in Banners(status) <=> frozen
  BY <1>2 DEF Banners
<1>4. /\ hasInit(status) <=> now >= db.start - Grace
      /\ hasStarted(status) <=> db.start < now
      /\ hasEnded(status) <=> db.end # Never /\ db.end < now
  BY <1>2 DEF hasInit, hasStarted, hasEnded
<1>5. /\ text = "not started" => ~hasInit(status)
      /\ text = "you can access your VM" => hasInit(status) /\ ~hasStarted(status)
      /\ text = "ended, network is locked" => hasStarted(status) /\ hasEnded(status)
      /\ text = "running" => hasStarted(status) /\ ~hasEnded(status)
  BY <1>0, <1>4 DEF InfoText
<1>. HIDE DEF text
<1>6. text = "not started" => "FROZEN" \in Banners(status)
  <2>1. now < db.start - Grace => net = "FROZEN"
    BY DEF ToldInv, NetworkFollows
  <2>2. ~(now >= db.start - Grace) => now < db.start - Grace
    BY <1>0
  <2>. QED
    BY <1>3, <1>4, <1>5, <2>1, <2>2
<1>7. pc = "grace" => now < db.start - Grace
  BY <1>1 DEF AllWait
<1>8. pc = "boot" => now < db.start + RoundLen * round
  BY <1>1 DEF AllWait, RoundStart
<1>9. pc = "boot" /\ db.start < now => round # 0
  BY <1>0, <1>8
<1>10. net = "FROZEN" => pc = "grace"
  BY <1>1 DEF ToldInv, NetworkFollows, InLoop
<1>11. text = "you can access your VM" => "FROZEN" \notin Banners(status)
  <2>1. now >= db.start - Grace => net # "FROZEN"
    BY <1>0, <1>7, <1>10
  <2>. QED
    BY <1>3, <1>4, <1>5, <2>1
<1>12. text = "running" => net = "UNLOCKED"
  <2>. SUFFICES ASSUME db.start < now, ~(db.end # Never /\ db.end < now)
                PROVE  net = "UNLOCKED"
    BY <1>4, <1>5
  <2>1. pc # "grace" /\ pc # "ended"
    BY <1>0, <1>7 DEF ToldInv, NetworkFollows, Past
  <2>. QED
    BY <1>1, <1>9, <2>1 DEF ToldInv, NetworkFollows, InLoop
<1>13. text = "running" => Banners(status) \cap {"FROZEN", "LOCKED"} = {}
  BY <1>3, <1>12
<1>14. text = "ended, network is locked" => "LOCKED" \in Banners(status) \/ LastRoundLasts
  <2>. SUFFICES ASSUME db.start < now, db.end # Never, db.end < now, net # "LOCKED"
                PROVE  LastRoundLasts
    BY <1>3, <1>4, <1>5
  <2>1. pc \in {"boot", "paused", "checking"}
    BY <1>0, <1>1, <1>7 DEF ToldInv, NetworkFollows
  <2>2. CASE pc = "checking"
    BY <1>1, <2>2 DEF ToldInv, EndAhead, LastRoundLasts, RoundStart
  <2>3. CASE pc \in {"boot", "paused"}
    BY <1>1, <2>3 DEF ToldInv, EndAhead, LastRoundLasts, RoundStart
  <2>. QED
    BY <2>1, <2>2, <2>3
<1>15. ASSUME frozen, Played(freezeRound), freezeRound <= exposed, NEW t \in Targets
       PROVE  ShownRound(t) = freezeRound
  <2>1. PICK x \in rows : x.target = t /\ x.round = freezeRound
    BY <1>15 DEF Played, RowsOf
  <2>2. exposed >= 0
    BY <1>15, <2>1, FlagTypes
  <2>. QED
    BY <1>15, <2>2, ShownWhenPlayed
<1>16. /\ "scoreboard frozen" \in Banners(status)
       /\ Played(status.freeze_round)
       /\ status.freeze_round <= exposed
       => \A t \in Targets : ShownRound(t) = status.freeze_round
  BY <1>2, <1>3, <1>15
<1>. QED
  BY <1>6, <1>11, <1>13, <1>14, <1>16 DEF PlayersAreTold, text

(* Whenever time passes, the page tells the players the truth about the    *)
(* network and the ranking, in any game that was not configured to end     *)
(* before its start, and whatever pauses, crashes and shifts have done.    *)
THEOREM PlayersAreToldTheTruth ==
  ASSUME EndsAfterStart PROVE Spec => []PlayersAreTold
<1>1. Init => LoopOnTime /\ FreezeInv /\ ToldInv
  <2>1. Init => LoopOnTime /\ FreezeInv
    BY DEF Init, LoopOnTime, FreezeInv
  <2>. QED
    BY <2>1, ToldInit
<1>2. Spec => [](LoopOnTime /\ FreezeInv /\ ToldInv)
  BY <1>1, LoopOnTimeStep, FreezeInvStep, ToldStep, TypeCorrect, RoundsInvariant, PTL
  DEF Spec, IInv
<1>3. TypeOK /\ HistoryInv /\ FreezeInv /\ ToldInv => PlayersAreTold
  BY PlayersAreToldByInv
<1>. QED
  BY <1>2, <1>3, TypeCorrect, RoundsInvariant, PTL DEF IInv

=============================================================================
