-------------------------- MODULE SubmissionProofs --------------------------
(* Proofs about Submission, for any teams, services, requests and gains.   *)
EXTENDS Submission, TLAPS

USE SubmissionAssumption DEF SubmissionAssumption

(***************************************************************************)
(* Requests.                                                               *)
(***************************************************************************)
LEMMA WorkingRequest ==
  ASSUME TypeOK, NEW r \in Requests, req[r].pc # "idle"
  PROVE  /\ req[r] \in Request
         /\ req[r].team \in Teams
         /\ req[r].todo \in Seq(Flags \cup {Junk})
         /\ req[r].own \in Nat /\ req[r].other \in Nat
         /\ req[r].tick \in 0..MaxRound
BY DEF TypeOK, Idle, Request

LEMMA FlagFields ==
  ASSUME NEW f \in Flags
  PROVE  f.team \in Teams /\ f.service \in Services /\ f.round \in Nat
BY DEF Flags

LEMMA BodyIsSequence ==
  ASSUME TypeOK, NEW body \in Bodies
  PROVE  body \in Seq(Flags \cup {Junk})
<1>1. PICK n \in 0..MaxFlags : body \in [1..n -> planted \cup {Junk}]
  BY DEF Bodies
<1> QED
  BY <1>1 DEF TypeOK

LEMMA TailIsSequence ==
  ASSUME NEW s \in Seq(Flags \cup {Junk}), s # <<>>
  PROVE  Tail(s) \in Seq(Flags \cup {Junk}) /\ Head(s) \in Flags \cup {Junk}
OBVIOUS

LEMMA PointsType ==
  ASSUME NEW own \in Nat, NEW other \in Nat
  PROVE  /\ OffensePoints(own, other) \in Nat \ {0}
         /\ DefensePoints(other, OffensePoints(own, other)) \in Nat
         /\ DefensePoints(other, OffensePoints(own, other)) <= other
BY DEF OffensePoints, DefensePoints

LEMMA ScoringFacts ==
  ASSUME IInv, NEW r \in Requests, req[r].pc = "scoring"
  PROVE  /\ req[r] \in Request
         /\ Current(r) \in Flags
         /\ OwnAccount(r) \in Accounts
         /\ VictimAccount(r) \in Accounts
         /\ OwnAccount(r) # VictimAccount(r)
         /\ req[r].own = score[OwnAccount(r)]
         /\ req[r].other = score[VictimAccount(r)]
         /\ RowOf(r) \in Rows
         /\ RowOf(r).flag = Current(r)
         /\ RowOf(r).team = req[r].team
         /\ RowOf(r).offense = OffensePoints(req[r].own, req[r].other)
         /\ RowOf(r).defense = DefensePoints(req[r].other, RowOf(r).offense)
         /\ RowOf(r).defense <= score[VictimAccount(r)]
         /\ ~Clash(r)
<1>1. /\ req[r] \in Request /\ req[r].team \in Teams
      /\ req[r].own \in Nat /\ req[r].other \in Nat
  BY WorkingRequest DEF IInv
<1>2. /\ Current(r) \in Flags /\ Current(r).team # req[r].team
      /\ ~Submitted(Current(r), req[r].team)
  BY DEF IInv, JudgementHolds
<1>3. Current(r).team \in Teams /\ Current(r).service \in Services
  BY <1>2, FlagFields
<1>4. /\ OwnAccount(r) \in Accounts /\ VictimAccount(r) \in Accounts
      /\ OwnAccount(r) # VictimAccount(r)
  BY <1>1, <1>2, <1>3 DEF OwnAccount, VictimAccount, Accounts
<1>5. req[r].own = score[OwnAccount(r)] /\ req[r].other = score[VictimAccount(r)]
  BY DEF IInv, ScoresFresh
<1>6. /\ OffensePoints(req[r].own, req[r].other) \in Nat \ {0}
      /\ DefensePoints(req[r].other, OffensePoints(req[r].own, req[r].other)) \in Nat
      /\ DefensePoints(req[r].other, OffensePoints(req[r].own, req[r].other)) <= req[r].other
  BY <1>1, PointsType
<1>7. /\ RowOf(r).flag = Current(r)
      /\ RowOf(r).team = req[r].team
      /\ RowOf(r).offense = OffensePoints(req[r].own, req[r].other)
      /\ RowOf(r).defense = DefensePoints(req[r].other, RowOf(r).offense)
      /\ RowOf(r) \in Rows
  BY <1>1, <1>2, <1>6 DEF RowOf, Rows
<1> QED
  BY <1>1, <1>2, <1>4, <1>5, <1>6, <1>7 DEF Clash

(***************************************************************************)
(* Type correctness is preserved.                                          *)
(***************************************************************************)
LEMMA CommitType ==
  ASSUME IInv, NEW r \in Requests, req[r].pc = "scoring"
  PROVE  Moved(r) \in [Accounts -> Nat]
<1> DEFINE own == OwnAccount(r)
           victim == VictimAccount(r)
<1>1. /\ own \in Accounts /\ victim \in Accounts /\ own # victim
      /\ RowOf(r) \in Rows /\ RowOf(r).defense <= score[victim]
  BY ScoringFacts
<1>2. RowOf(r).offense \in Nat /\ RowOf(r).defense \in Nat
  BY <1>1 DEF Rows
<1>3. score \in [Accounts -> Nat]
  BY DEF IInv, TypeOK
<1>4. /\ score[own] + RowOf(r).offense \in Nat
      /\ score[victim] - RowOf(r).defense \in Nat
  BY <1>1, <1>2, <1>3
<1> QED
  BY <1>1, <1>3, <1>4 DEF Moved

LEMMA FlagDoneType ==
  ASSUME IInv, NEW r \in Requests, req[r].pc = "scoring", FlagDone(r)
  PROVE  req' \in [Requests -> Request \cup {Idle}] /\ scoreMutex' \in Holders
<1>1. /\ req[r] \in Request /\ req[r].todo \in Seq(Flags \cup {Junk})
      /\ req[r].todo # <<>>
  BY WorkingRequest DEF IInv, JudgementHolds
<1>2. Tail(req[r].todo) \in Seq(Flags \cup {Junk})
  BY <1>1, TailIsSequence
<1>3. [req[r] EXCEPT !.pc = "next", !.todo = Tail(req[r].todo)] \in Request
  BY <1>1, <1>2 DEF Request
<1>4. req \in [Requests -> Request \cup {Idle}]
  BY DEF IInv, TypeOK
<1> QED
  BY <1>3, <1>4 DEF FlagDone, Holders

LEMMA TypeStep ==
  ASSUME IInv, [Next]_vars
  PROVE  TypeOK'
<1> USE DEF gameVars, flagVars, scoreVars, lockVars
<1>0. TypeOK
  BY DEF IInv
<1>1. CASE UNCHANGED vars
  BY <1>0, <1>1 DEF vars, TypeOK
<1>2. CASE RoundLoop
  <2>1. CASE \E f \in Flags : NewFlag(f) \/ Plant(f) \/ PutOk(f) \/ PutFailed(f)
    BY <1>0, <2>1 DEF TypeOK, NewFlag, Plant, PutOk, PutFailed
  <2>2. CASE Publish
    BY <1>0, <2>2 DEF TypeOK, Publish
  <2> QED
    BY <1>2, <2>1, <2>2 DEF RoundLoop
<1>3. CASE PauseOrResume \/ \E t \in Bannable : SetBanned(t)
  BY <1>0, <1>3 DEF TypeOK, PauseOrResume, SetBanned
<1>4. CASE Restart
  BY <1>0, <1>4 DEF TypeOK, Restart, Holders, Idle
<1>5. ASSUME NEW t \in Teams, TimePasses(t)
      PROVE  TypeOK'
  BY <1>0, <1>5 DEF TypeOK, TimePasses
<1>6. ASSUME NEW r \in Requests, NEW t \in Teams, NEW body \in Bodies, Arrive(r, t, body)
      PROVE  TypeOK'
  <2>1. body \in Seq(Flags \cup {Junk})
    BY <1>0, BodyIsSequence
  <2>2. exposed \in 0..MaxRound
    BY <1>0, <1>6 DEF TypeOK, Arrive
  <2>3. [pc |-> "waiting", team |-> t, tick |-> exposed,
         todo |-> body, own |-> 0, other |-> 0] \in Request
    BY <1>6, <2>1, <2>2 DEF Request, Arrive
  <2> QED
    BY <1>0, <1>6, <2>3 DEF TypeOK, Arrive
<1>7. ASSUME NEW r \in Requests, Handle(r)
      PROVE  TypeOK'
  <2>1. CASE TakeTeamLock(r)
    <3>1. req[r] \in Request /\ req[r].team \in Teams
      BY <1>0, <2>1, WorkingRequest DEF TakeTeamLock
    <3>2. [req[r] EXCEPT !.pc = "next"] \in Request
      BY <3>1 DEF Request
    <3> QED
      BY <1>0, <2>1, <3>1, <3>2 DEF TypeOK, TakeTeamLock, Holders
  <2>2. CASE TooEarly(r)
    BY <1>0, <2>2 DEF TypeOK, TooEarly
  <2>3. CASE Respond(r)
    BY <1>0, <2>3 DEF TypeOK, Respond, Holders
  <2>4. CASE Accept(r)
    <3>1. req[r] \in Request
      BY <1>0, <2>4, WorkingRequest DEF Accept, Ready
    <3>2. [req[r] EXCEPT !.pc = "valid"] \in Request
      BY <3>1 DEF Request
    <3> QED
      BY <1>0, <2>4, <3>2 DEF TypeOK, Accept
  <2>5. CASE Deny(r)
    <3>1. /\ req[r] \in Request /\ req[r].todo \in Seq(Flags \cup {Junk})
          /\ req[r].todo # <<>>
      BY <1>0, <2>5, WorkingRequest DEF Deny, Ready
    <3>2. [req[r] EXCEPT !.todo = Tail(req[r].todo)] \in Request
      BY <3>1, TailIsSequence DEF Request
    <3> QED
      BY <1>0, <2>5, <3>2 DEF TypeOK, Deny
  <2>6. CASE ReadScores(r)
    <3>1. /\ req[r] \in Request /\ req[r].team \in Teams
          /\ Current(r) \in Flags
      BY <1>0, <2>6, WorkingRequest DEF ReadScores, IInv, JudgementHolds
    <3>2. OwnAccount(r) \in Accounts /\ VictimAccount(r) \in Accounts
      BY <3>1, FlagFields DEF OwnAccount, VictimAccount, Accounts
    <3>3. score[OwnAccount(r)] \in Nat /\ score[VictimAccount(r)] \in Nat
      BY <1>0, <3>2 DEF TypeOK
    <3>4. [req[r] EXCEPT !.pc = "scoring", !.own = score[OwnAccount(r)],
                         !.other = score[VictimAccount(r)]] \in Request
      BY <3>1, <3>3 DEF Request
    <3> QED
      BY <1>0, <2>6, <3>4 DEF TypeOK, ReadScores, Holders
  <2>7. CASE Commit(r)
    <3>1. RowOf(r) \in Rows
      BY <2>7, ScoringFacts DEF Commit
    <3>2. Moved(r) \in [Accounts -> Nat]
      BY <2>7, CommitType DEF Commit
    <3>3. req' \in [Requests -> Request \cup {Idle}] /\ scoreMutex' \in Holders
      BY <2>7, FlagDoneType DEF Commit
    <3> QED
      BY <1>0, <2>7, <3>1, <3>2, <3>3 DEF TypeOK, Commit
  <2>8. CASE Rollback(r)
    <3>1. req' \in [Requests -> Request \cup {Idle}] /\ scoreMutex' \in Holders
      BY <2>8, FlagDoneType DEF Rollback
    <3> QED
      BY <1>0, <2>8, <3>1 DEF TypeOK, Rollback
  <2> QED
    BY <1>7, <2>1, <2>2, <2>3, <2>4, <2>5, <2>6, <2>7, <2>8 DEF Handle
<1> QED
  BY <1>1, <1>2, <1>3, <1>4, <1>5, <1>6, <1>7 DEF Next

(***************************************************************************)
(* Steps outside the handlers leave requests, locks and scores alone, or   *)
(* end all requests.                                                       *)
(***************************************************************************)
LEMMA OtherSteps ==
  ASSUME Next, ~\E r \in Requests : Handle(r),
         ~\E r \in Requests, t \in Teams, body \in Bodies : Arrive(r, t, body)
  PROVE  /\ UNCHANGED <<score, submissions>>
         /\ \/ UNCHANGED <<lockMap, scoreMutex, req>>
            \/ /\ req' = [r \in Requests |-> Idle]
               /\ lockMap' = [t \in Teams |-> Nobody]
               /\ scoreMutex' = Nobody
BY DEF Next, RoundLoop, NewFlag, Plant, PutOk, PutFailed, Publish,
       SetBanned, PauseOrResume, Restart, TimePasses, scoreVars, lockVars

(***************************************************************************)
(* Locks are held by those who work under them.                            *)
(***************************************************************************)
LEMMA LocksStep ==
  ASSUME IInv, [Next]_vars
  PROVE  LocksHeld'
<1> USE DEF gameVars, flagVars, scoreVars, lockVars
<1>0. TypeOK /\ LocksHeld
  BY DEF IInv
<1>1. CASE UNCHANGED vars
  BY <1>0, <1>1 DEF vars, LocksHeld, Working
<1>2. CASE Next /\ (~\E r \in Requests : Handle(r))
           /\ ~\E r \in Requests, t \in Teams, body \in Bodies : Arrive(r, t, body)
  <2>1. CASE UNCHANGED <<lockMap, scoreMutex, req>>
    BY <1>0, <2>1 DEF LocksHeld, Working
  <2>2. CASE /\ req' = [r \in Requests |-> Idle]
             /\ lockMap' = [t \in Teams |-> Nobody]
             /\ scoreMutex' = Nobody
    BY <2>2 DEF LocksHeld, Working, Idle
  <2> QED
    BY <1>2, <2>1, <2>2, OtherSteps
<1>3. ASSUME NEW r \in Requests, NEW t \in Teams, NEW body \in Bodies, Arrive(r, t, body)
      PROVE  LocksHeld'
  BY <1>0, <1>3 DEF TypeOK, LocksHeld, Working, Arrive, Idle
<1>4. ASSUME NEW r \in Requests, Handle(r)
      PROVE  LocksHeld'
  <2>1. CASE TakeTeamLock(r)
    <3>1. req[r].team \in Teams
      BY <1>0, <2>1, WorkingRequest DEF TakeTeamLock
    <3>2. \A q \in Requests : q # r => req'[q] = req[q]
      BY <1>0, <2>1 DEF TypeOK, TakeTeamLock
    <3>3. req'[r].pc = "next" /\ req'[r].team = req[r].team
      BY <1>0, <2>1, WorkingRequest DEF TypeOK, TakeTeamLock, Request
    <3>4. lockMap' = [lockMap EXCEPT ![req[r].team] = r] /\ scoreMutex' = scoreMutex
      BY <2>1 DEF TakeTeamLock
    <3>5. lockMap[req[r].team] = Nobody /\ req[r].pc = "waiting"
      BY <2>1 DEF TakeTeamLock, TeamLockFree
    <3> QED
      BY <1>0, <3>1, <3>2, <3>3, <3>4, <3>5 DEF TypeOK, LocksHeld, Working
  <2>2. CASE TooEarly(r)
    BY <1>0, <2>2 DEF TypeOK, LocksHeld, Working, TooEarly, Idle
  <2>3. CASE Respond(r)
    <3>1. req[r].team \in Teams
      BY <1>0, <2>3, WorkingRequest DEF Respond
    <3>2. /\ \A q \in Requests : q # r => req'[q] = req[q]
          /\ req'[r].pc = "idle" /\ req[r].pc = "next"
      BY <1>0, <2>3 DEF TypeOK, Respond, Idle
    <3>3. lockMap' = [lockMap EXCEPT ![req[r].team] = Nobody] /\ scoreMutex' = scoreMutex
      BY <2>3 DEF Respond
    <3> QED
      BY <1>0, <3>1, <3>2, <3>3 DEF TypeOK, LocksHeld, Working
  <2>4. CASE Accept(r) \/ Deny(r)
    <3>1. req[r] \in Request /\ req[r].pc = "next"
      BY <1>0, <2>4, WorkingRequest DEF Accept, Deny, Ready
    <3>2. /\ \A q \in Requests : q # r => req'[q] = req[q]
          /\ req'[r].pc \in {"next", "valid"}
          /\ req'[r].team = req[r].team
          /\ lockMap' = lockMap /\ scoreMutex' = scoreMutex
      BY <1>0, <2>4, <3>1 DEF TypeOK, Accept, Deny, Request
    <3> QED
      BY <1>0, <3>1, <3>2 DEF LocksHeld, Working
  <2>5. CASE ReadScores(r)
    <3>1. /\ \A q \in Requests : q # r => req'[q] = req[q]
          /\ req'[r].pc = "scoring" /\ req[r].pc = "valid"
          /\ req'[r].team = req[r].team
          /\ lockMap' = lockMap /\ scoreMutex = Nobody /\ scoreMutex' = r
      BY <1>0, <2>5, WorkingRequest DEF TypeOK, ReadScores, ScoreMutexFree, Request
    <3> QED
      BY <1>0, <3>1 DEF LocksHeld, Working
  <2>6. CASE Commit(r) \/ Rollback(r)
    <3>0. FlagDone(r) /\ lockMap' = lockMap /\ req[r].pc = "scoring"
      BY <2>6 DEF Commit, Rollback
    <3>1. /\ \A q \in Requests : q # r => req'[q] = req[q]
          /\ req'[r].pc = "next" /\ req[r].pc = "scoring"
          /\ req'[r].team = req[r].team
          /\ lockMap' = lockMap /\ scoreMutex' = Nobody
      BY <1>0, <3>0, WorkingRequest DEF TypeOK, FlagDone, Request
    <3> QED
      BY <1>0, <3>1 DEF LocksHeld, Working
  <2> QED
    BY <1>4, <2>1, <2>2, <2>3, <2>4, <2>5, <2>6 DEF Handle
<1> QED
  BY <1>1, <1>2, <1>3, <1>4 DEF Next

(***************************************************************************)
(* What a request knows stays true while it works.                         *)
(***************************************************************************)

(* Two requests at work belong to different teams. *)
LEMMA OneRequestPerTeam ==
  ASSUME IInv, NEW r \in Requests, NEW q \in Requests, q # r,
         Working(r), Working(q)
  PROVE  req[q].team # req[r].team
BY DEF IInv, LocksHeld

LEMMA KnowledgeStep ==
  ASSUME IInv, [Next]_vars
  PROVE  JudgementHolds' /\ ScoresFresh'
<1> USE DEF gameVars, flagVars, scoreVars, lockVars
<1> DEFINE Knows(q) ==
      /\ req[q].pc \in {"valid", "scoring"} =>
           /\ req[q].todo # <<>>
           /\ Current(q) \in Flags
           /\ Current(q).team # req[q].team
           /\ ~Submitted(Current(q), req[q].team)
      /\ req[q].pc = "scoring" =>
           req[q].own = score[OwnAccount(q)] /\ req[q].other = score[VictimAccount(q)]
<1>0. TypeOK /\ LocksHeld /\ JudgementHolds /\ ScoresFresh
  BY DEF IInv
<1>a. \A q \in Requests : Knows(q)
  BY <1>0 DEF JudgementHolds, ScoresFresh
<1> SUFFICES ASSUME NEW q \in Requests
             PROVE  Knows(q)'
  BY DEF JudgementHolds, ScoresFresh
<1>b. ASSUME req'[q] = req[q], UNCHANGED scoreVars
      PROVE  Knows(q)'
  BY <1>a, <1>b DEF Current, OwnAccount, VictimAccount, Submitted
<1>c. ASSUME req'[q].pc \notin {"valid", "scoring"}
      PROVE  Knows(q)'
  BY <1>c
<1> HIDE DEF Knows
<1>1. CASE UNCHANGED vars
  BY <1>1, <1>b DEF vars
<1>2. CASE Next /\ (~\E r \in Requests : Handle(r))
           /\ ~\E r \in Requests, t \in Teams, body \in Bodies : Arrive(r, t, body)
  BY <1>2, <1>b, <1>c, OtherSteps DEF Idle
<1>3. ASSUME NEW r \in Requests, NEW t \in Teams, NEW body \in Bodies, Arrive(r, t, body)
      PROVE  Knows(q)'
  BY <1>0, <1>3, <1>b, <1>c DEF TypeOK, Arrive
<1>4. ASSUME NEW r \in Requests, Handle(r)
      PROVE  Knows(q)'
  <2>1. CASE TakeTeamLock(r) \/ TooEarly(r) \/ Respond(r) \/ Deny(r)
    <3>1. CASE q = r
      <4>1. CASE Deny(r)
        <5>1. req'[r].pc = "next"
          BY <1>0, <4>1, WorkingRequest DEF TypeOK, Deny, Ready, Request
        <5> QED
          BY <3>1, <5>1, <1>c
      <4>2. CASE TakeTeamLock(r) \/ TooEarly(r) \/ Respond(r)
        <5>1. CASE TakeTeamLock(r)
          <6>1. req[r] \in Request
            BY <1>0, <5>1, WorkingRequest DEF TakeTeamLock
          <6>2. req'[r].pc = "next"
            BY <1>0, <5>1, <6>1 DEF TypeOK, TakeTeamLock, Request
          <6> QED
            BY <3>1, <6>2, <1>c
        <5>2. CASE TooEarly(r) \/ Respond(r)
          <6>1. req'[r] = Idle
            BY <1>0, <5>2 DEF TypeOK, TooEarly, Respond
          <6> QED
            BY <3>1, <6>1, <1>c DEF Idle
        <5> QED
          BY <4>2, <5>1, <5>2
      <4> QED
        BY <2>1, <4>1, <4>2
    <3>2. CASE q # r
      BY <1>0, <2>1, <3>2, <1>b DEF TypeOK, TakeTeamLock, TooEarly, Respond, Deny
    <3> QED
      BY <3>1, <3>2
  <2>2. CASE Accept(r)
    <3>1. CASE q = r
      <4>1. /\ req'[r].pc = "valid" /\ req'[r].todo = req[r].todo
            /\ req'[r].team = req[r].team /\ submissions' = submissions
        BY <1>0, <2>2, WorkingRequest DEF TypeOK, Accept, Ready, Request
      <4>2. /\ req[r].todo # <<>> /\ Current(r) \in Flags
            /\ Current(r).team # req[r].team
            /\ ~Submitted(Current(r), req[r].team)
        BY <1>0, <2>2 DEF TypeOK, Accept, Ready, Worthy
      <4> QED
        BY <3>1, <4>1, <4>2 DEF Knows, Current, Submitted
    <3>2. CASE q # r
      BY <1>0, <2>2, <3>2, <1>b DEF TypeOK, Accept
    <3> QED
      BY <3>1, <3>2
  <2>3. CASE ReadScores(r)
    <3>1. CASE q = r
      <4>1. /\ req'[r].pc = "scoring" /\ req'[r].todo = req[r].todo
            /\ req'[r].team = req[r].team
            /\ req'[r].own = score[OwnAccount(r)]
            /\ req'[r].other = score[VictimAccount(r)]
            /\ req[r].pc = "valid"
            /\ submissions' = submissions /\ score' = score
        BY <1>0, <2>3, WorkingRequest DEF TypeOK, ReadScores, Request
      <4> QED
        BY <1>a, <3>1, <4>1 DEF Knows, Current, Submitted, OwnAccount, VictimAccount
    <3>2. CASE q # r
      BY <1>0, <2>3, <3>2, <1>b DEF TypeOK, ReadScores
    <3> QED
      BY <3>1, <3>2
  <2>4. CASE Commit(r)
    <3>1. CASE q = r
      <4>1. req'[r].pc = "next"
        BY <1>0, <2>4, WorkingRequest DEF TypeOK, Commit, FlagDone, Request
      <4> QED
        BY <3>1, <4>1, <1>c
    <3>2. CASE q # r /\ req[q].pc \notin {"valid", "scoring"}
      BY <1>0, <2>4, <3>2, <1>c DEF TypeOK, Commit, FlagDone
    <3>3. CASE q # r /\ req[q].pc \in {"valid", "scoring"}
      <4>1. req'[q] = req[q]
        BY <1>0, <2>4, <3>3 DEF TypeOK, Commit, FlagDone
      <4>2. req[q].pc # "scoring"
        BY <1>0, <2>4, <3>3 DEF Commit, LocksHeld
      <4>3. req[q].team # req[r].team
        BY <2>4, <3>3, OneRequestPerTeam DEF Commit, Working
      <4>4. RowOf(r).team = req[r].team
        BY DEF RowOf
      <4>5. ~Submitted(Current(q), req[q].team)'
        BY <1>a, <2>4, <3>3, <4>1, <4>3, <4>4 DEF Knows, Current, Submitted, Commit
      <4> QED
        BY <1>a, <3>3, <4>1, <4>2, <4>5 DEF Knows, Current
    <3> QED
      BY <3>1, <3>2, <3>3
  <2>5. CASE Rollback(r)
    <3>1. CASE q = r
      <4>1. req'[r].pc = "next"
        BY <1>0, <2>5, WorkingRequest DEF TypeOK, Rollback, FlagDone, Request
      <4> QED
        BY <3>1, <4>1, <1>c
    <3>2. CASE q # r
      BY <1>0, <2>5, <3>2, <1>b DEF TypeOK, Rollback, FlagDone
    <3> QED
      BY <3>1, <3>2
  <2> QED
    BY <1>4, <2>1, <2>2, <2>3, <2>4, <2>5 DEF Handle
<1> QED
  BY <1>1, <1>2, <1>3, <1>4 DEF Next

(***************************************************************************)
(* The theorems.                                                           *)
(***************************************************************************)
LEMMA InitInv == Init => IInv
BY DEF Init, IInv, TypeOK, LocksHeld, JudgementHolds, ScoresFresh, Working, Idle,
       Holders

LEMMA StepInv == IInv /\ [Next]_vars => IInv'
BY TypeStep, LocksStep, KnowledgeStep DEF IInv

(* In every reachable state locks are held by those who work under them    *)
(* and what a request knows about flag and scores is true.                 *)
THEOREM SubmissionInvariant == Spec => []IInv
BY InitInv, StepInv, PTL DEF Spec

(* Scores never become negative, and the state is well formed. *)
THEOREM TypeCorrect == Spec => []TypeOK
<1>1. IInv => TypeOK
  BY DEF IInv
<1> QED
  BY <1>1, SubmissionInvariant, PTL

(* The unique constraint never has to stop a submission. *)
THEOREM NoClash == Spec => []NeverClashes
<1>1. IInv => NeverClashes
  BY DEF IInv, JudgementHolds, NeverClashes, Clash
<1> QED
  BY <1>1, SubmissionInvariant, PTL

LEMMA LedgerInit == Init => Ledger!Init
BY DEF Init, Ledger!Init

(* The commit of a submission is an entry of the books. *)
LEMMA CommitPays ==
  ASSUME IInv, NEW r \in Requests, Commit(r)
  PROVE  Ledger!Pay(RowOf(r)) /\ RowOf(r) \in submissions'
<1> DEFINE e == RowOf(r)
<1>1. req[r].pc = "scoring"
  BY DEF Commit
<1>2. /\ Current(r) \in Flags /\ e \in Rows
      /\ e.flag = Current(r) /\ e.team = req[r].team
      /\ e.offense = OffensePoints(req[r].own, req[r].other)
      /\ e.defense = DefensePoints(req[r].other, e.offense)
      /\ req[r].other = score[VictimAccount(r)]
      /\ ~Clash(r)
  BY <1>1, ScoringFacts
<1>3. e.team # e.flag.team
  BY <1>1, <1>2 DEF IInv, JudgementHolds
<1>4. \A p \in submissions : ~(p.flag = e.flag /\ p.team = e.team)
  BY <1>2 DEF Clash, Submitted
<1>5. e.offense > 0
  BY <1>2 DEF Rows
<1>6. Ledger!Thief(e) = OwnAccount(r) /\ Ledger!Victim(e) = VictimAccount(r)
  BY <1>2 DEF Ledger!Thief, Ledger!Victim, OwnAccount, VictimAccount
<1>7. e.defense = Ledger!Smaller(score[Ledger!Victim(e)], e.offense)
  BY <1>2, <1>6 DEF Ledger!Smaller, DefensePoints
<1>8. /\ submissions' = submissions \cup {e}
      /\ score' = [score EXCEPT
                     ![Ledger!Thief(e)] = score[Ledger!Thief(e)] + e.offense,
                     ![Ledger!Victim(e)] = score[Ledger!Victim(e)] - e.defense]
  BY <1>6 DEF Commit, Moved
<1> QED
  BY <1>3, <1>4, <1>5, <1>7, <1>8 DEF Ledger!Pay

LEMMA LedgerStep ==
  ASSUME IInv, [Next]_vars
  PROVE  [\E e \in submissions' : Ledger!Pay(e)]_<<score, submissions>>
<1>1. CASE \E r \in Requests : Commit(r)
  BY <1>1, CommitPays
<1>2. CASE ~\E r \in Requests : Commit(r)
  <2>1. UNCHANGED <<score, submissions>>
    <3>1. CASE UNCHANGED vars
      BY <3>1 DEF vars, scoreVars
    <3>2. CASE \E r \in Requests : Handle(r)
      BY <1>2, <3>2 DEF Handle, TakeTeamLock, TooEarly, Respond, Accept, Deny,
        ReadScores, Rollback, scoreVars
    <3>3. CASE \E r \in Requests, t \in Teams, body \in Bodies : Arrive(r, t, body)
      BY <3>3 DEF Arrive, scoreVars
    <3> QED
      BY <3>1, <3>2, <3>3, OtherSteps
  <2> QED
    BY <2>1
<1> QED
  BY <1>1, <1>2

(* However requests race, the scores are those of books kept by one clerk. *)
THEOREM SubmissionImplementsLedger == Spec => ImplementsLedger
<1>1. IInv /\ [Next]_vars => [\E e \in submissions' : Ledger!Pay(e)]_<<score, submissions>>
  BY LedgerStep
<1> QED
  BY <1>1, LedgerInit, SubmissionInvariant, PTL DEF Spec, ImplementsLedger, Ledger!Spec
=============================================================================
