----------------------------- MODULE Submission -----------------------------
(***************************************************************************)
(* Flag submission: gameserver/src/submission.go.                          *)
(*                                                                         *)
(* A PUT /flags request is checked at the door (game running, token, ban), *)
(* then waits for the lock of its team and goes through its flags one by   *)
(* one.  A flag is looked up and judged; if it is worth something, a       *)
(* transaction under the global scoreMutex reads the two service scores,   *)
(* computes the points, writes the flag_submissions row and moves the two  *)
(* scores.                                                                 *)
(*                                                                         *)
(* All this runs next to the round loop, which makes flags, has them put   *)
(* into the services and deletes the ones whose PUT_FLAG failed, to the    *)
(* organizers, who ban teams and pause the game, and to restarts.          *)
(***************************************************************************)
EXTENDS Integers, Sequences

CONSTANTS
  Teams,
  NopTeams,
  Targets,            (* the (team, service) pairs flags are made for       *)
  Services,
  Requests,           (* concurrent requests                                *)
  Nobody,             (* holder of a lock that is free                      *)
  InitialScore,       (* initial_service_score                              *)
  LowGain,            (* points of a flag when the thief scores more than   *)
  EvenGain,           (* the victim in that service, as much,               *)
  HighGain,           (* or less                                            *)
  FlagExpireTicks,
  RateLimited,        (* submission_timeout is set                          *)
  Junk,               (* text that is no flag                               *)
  MaxFlags,           (* max_flags_per_request                              *)
  Bannable,           (* bound: teams the organizers may ban                *)
  MayPause,           (* bound: whether they may pause the game             *)
  MaxRound,           (* bound: the last round that is exposed              *)
  MaxRestarts         (* bound: crashes of the game server                  *)

ASSUME SubmissionAssumption ==
  /\ NopTeams \subseteq Teams
  /\ Targets \subseteq Teams \X Services
  /\ Nobody \notin Requests
  /\ InitialScore \in Nat
  /\ LowGain \in Nat \ {0} /\ EvenGain \in Nat \ {0} /\ HighGain \in Nat \ {0}
  /\ FlagExpireTicks \in Nat
  /\ RateLimited \in BOOLEAN
  /\ MaxFlags \in Nat
  /\ Bannable \subseteq Teams
  /\ MayPause \in BOOLEAN
  /\ MaxRound \in Nat
  /\ MaxRestarts \in Nat

VARIABLES
  exposed,            (* ACTUAL_ROUND_EXPOSED                               *)
  open,               (* neither paused nor ended                           *)
  banned,             (* teams with GameBanned                              *)
  flags,              (* table flags                                        *)
  putting,            (* flags whose PUT_FLAG is not answered yet           *)
  planted,            (* flags that did get into the service                *)
  score,              (* service_scores.score                               *)
  submissions,        (* table flag_submissions                             *)
  recent,             (* teams whose lastSubmissionTime is too recent       *)
  lockMap,            (* who holds the lock of a team                       *)
  scoreMutex,         (* who holds scoreMutex                               *)
  req,                (* the requests                                       *)
  restarts            (* restarts so far                                    *)

gameVars  == <<exposed, open, banned>>
flagVars  == <<flags, putting, planted>>
scoreVars == <<score, submissions>>
lockVars  == <<recent, lockMap, scoreMutex>>

vars == <<gameVars, flagVars, scoreVars, lockVars, req, restarts>>

-----------------------------------------------------------------------------
Accounts == Teams \X Services

(* A flag is random: a round that is played again gets other flags. *)
Flags ==
  {f \in [team : Teams, service : Services, round : 0..MaxRound + 1,
          boot : 0..MaxRestarts] : <<f.team, f.service>> \in Targets}

Rows == [flag : Flags, team : Teams, offense : Nat \ {0}, defense : Nat]

(* team and tick are what the request saw when it came in; own and other   *)
(* are attackerScore and victimScore.                                      *)
Idle == [pc |-> "idle"]

Request ==
  [pc : {"waiting", "next", "valid", "scoring"}, team : Teams \ NopTeams,
   tick : 0..MaxRound, todo : Seq(Flags \cup {Junk}), own : Nat, other : Nat]

Holders == Requests \cup {Nobody}

TypeOK ==
  /\ exposed \in -1..MaxRound
  /\ open \in BOOLEAN
  /\ banned \subseteq Teams
  /\ flags \subseteq Flags
  /\ putting \subseteq Flags
  /\ planted \subseteq Flags
  /\ score \in [Accounts -> Nat]
  /\ submissions \subseteq Rows
  /\ recent \subseteq Teams
  /\ lockMap \in [Teams -> Holders]
  /\ scoreMutex \in Holders
  /\ req \in [Requests -> Request \cup {Idle}]
  /\ restarts \in 0..MaxRestarts

Init ==
  /\ exposed = -1
  /\ open = TRUE
  /\ banned = {}
  /\ flags = {} /\ putting = {} /\ planted = {}
  /\ score = [a \in Accounts |-> InitialScore]
  /\ submissions = {}
  /\ recent = {}
  /\ lockMap = [t \in Teams |-> Nobody]
  /\ scoreMutex = Nobody
  /\ req = [r \in Requests |-> Idle]
  /\ restarts = 0

-----------------------------------------------------------------------------
(* The round loop (checkers.go), as far as it touches flags.               *)

(* runServiceRound stores a fresh flag of the round that is played, and    *)
(* submits its PUT_FLAG.                                                   *)
NewFlag(f) ==
  /\ f.round = exposed + 1
  /\ f.boot = restarts
  /\ f \notin flags \cup planted \cup putting
  /\ flags' = flags \cup {f}
  /\ putting' = putting \cup {f}
  /\ UNCHANGED <<gameVars, planted, scoreVars, lockVars, req, restarts>>

(* A checker puts the flag into the service: players can steal it now. *)
Plant(f) ==
  /\ f \in putting
  /\ planted' = planted \cup {f}
  /\ UNCHANGED <<gameVars, flags, putting, scoreVars, lockVars, req, restarts>>

PutOk(f) ==
  /\ f \in putting \cap planted
  /\ putting' = putting \ {f}
  /\ UNCHANGED <<gameVars, flags, planted, scoreVars, lockVars, req, restarts>>

(* The checker failed, or its report got lost, or nobody ran it: the flag  *)
(* is deleted, planted or not.                                             *)
PutFailed(f) ==
  /\ f \in putting
  /\ putting' = putting \ {f}
  /\ flags' = flags \ {f}
  /\ UNCHANGED <<gameVars, planted, scoreVars, lockVars, req, restarts>>

(* All checks of the round are answered, and the round is over. *)
Publish ==
  /\ putting = {}
  /\ exposed < MaxRound
  /\ exposed' = exposed + 1
  /\ UNCHANGED <<open, banned, flagVars, scoreVars, lockVars, req, restarts>>

-----------------------------------------------------------------------------
(* The organizers.                                                         *)

SetBanned(t) ==
  /\ banned' = IF t \in banned THEN banned \ {t} ELSE banned \cup {t}
  /\ UNCHANGED <<exposed, open, flagVars, scoreVars, lockVars, req, restarts>>

PauseOrResume ==
  /\ MayPause
  /\ open' = ~open
  /\ UNCHANGED <<exposed, banned, flagVars, scoreVars, lockVars, req, restarts>>

-----------------------------------------------------------------------------
(* submitFlags.                                                            *)

(* What players send: flags they have stolen, and junk; the rest of a long *)
(* list is cut off.  A list may be empty; so is what a body that does not  *)
(* decode amounts to, which is found out (400) only under the lock and     *)
(* after the rate limit.                                                   *)
Bodies == UNION {[1..n -> planted \cup {Junk}] : n \in 0..MaxFlags}

(* The checks at the door.  Settings, tick and team are read once: the     *)
(* request goes on with these values however long it waits afterwards.     *)
Arrive(r, t, body) ==
  /\ req[r] = Idle
  /\ open
  /\ exposed >= 0
  /\ t \notin NopTeams
  /\ t \notin banned
  /\ req' = [req EXCEPT ![r] = [pc |-> "waiting", team |-> t, tick |-> exposed,
                                todo |-> body, own |-> 0, other |-> 0]]
  /\ UNCHANGED <<gameVars, flagVars, scoreVars, lockVars, restarts>>

(* Mutant: a team may race itself. *)
TeamLockFreeAlways(r) == TRUE

TeamLockFree(r) == lockMap[req[r].team] = Nobody

(* The lock is taken, the rate limit passed. *)
TakeTeamLock(r) ==
  /\ req[r].pc = "waiting"
  /\ TeamLockFree(r)
  /\ req[r].team \notin recent
  /\ lockMap' = [lockMap EXCEPT ![req[r].team] = r]
  /\ recent' = IF RateLimited THEN recent \cup {req[r].team} ELSE recent
  /\ req' = [req EXCEPT ![r].pc = "next"]
  /\ UNCHANGED <<gameVars, flagVars, scoreVars, scoreMutex, restarts>>

(* Mutant: the early return does not release the lock. *)
TooEarlyKeepsLock(r) ==
  /\ req[r].pc = "waiting"
  /\ TeamLockFree(r)
  /\ req[r].team \in recent
  /\ req' = [req EXCEPT ![r] = Idle]
  /\ lockMap' = [lockMap EXCEPT ![req[r].team] = r]
  /\ UNCHANGED <<gameVars, flagVars, scoreVars, recent, scoreMutex, restarts>>

(* 429: too early.  The lock is released at once. *)
TooEarly(r) ==
  /\ req[r].pc = "waiting"
  /\ TeamLockFree(r)
  /\ req[r].team \in recent
  /\ req' = [req EXCEPT ![r] = Idle]
  /\ UNCHANGED <<gameVars, flagVars, scoreVars, lockVars, restarts>>

(* submission_timeout has passed since the team's last request. *)
TimePasses(t) ==
  /\ t \in recent
  /\ recent' = recent \ {t}
  /\ UNCHANGED <<gameVars, flagVars, scoreVars, lockMap, scoreMutex, req,
                 restarts>>

(* All flags are dealt with: answer, and release the lock. *)
Respond(r) ==
  /\ req[r].pc = "next"
  /\ req[r].todo = <<>>
  /\ lockMap' = [lockMap EXCEPT ![req[r].team] = Nobody]
  /\ req' = [req EXCEPT ![r] = Idle]
  /\ UNCHANGED <<gameVars, flagVars, scoreVars, recent, scoreMutex, restarts>>

-----------------------------------------------------------------------------
(* elaborateFlag.                                                          *)

Submitted(f, t) == \E s \in submissions : s.flag = f /\ s.team = t

Expired(f, tick) == tick - f.round >= FlagExpireTicks

(* Mutant: nobody minds a team's own flags. *)
WorthyOwn(f, q) ==
  /\ f \in flags
  /\ f.team \notin NopTeams
  /\ f.team \notin banned
  /\ ~Expired(f, q.tick)
  /\ ~Submitted(f, q.team)

(* The flag exists, belongs to a team in the game, to another one, is      *)
(* fresh at the tick of the request, and was not submitted before.  The    *)
(* victim's ban is read now, the thief's was read at the door.             *)
Worthy(f, q) ==
  /\ f \in flags
  /\ f.team \notin NopTeams
  /\ f.team \notin banned
  /\ f.team # q.team
  /\ ~Expired(f, q.tick)
  /\ ~Submitted(f, q.team)

Current(r) == Head(req[r].todo)

Ready(r) == req[r].pc = "next" /\ req[r].todo # <<>>

Accept(r) ==
  /\ Ready(r)
  /\ Worthy(Current(r), req[r])
  /\ req' = [req EXCEPT ![r].pc = "valid"]
  /\ UNCHANGED <<gameVars, flagVars, scoreVars, lockVars, restarts>>

Deny(r) ==
  /\ Ready(r)
  /\ ~Worthy(Current(r), req[r])
  /\ req' = [req EXCEPT ![r].todo = Tail(req[r].todo)]
  /\ UNCHANGED <<gameVars, flagVars, scoreVars, lockVars, restarts>>

OwnAccount(r) == <<req[r].team, Current(r).service>>
VictimAccount(r) == <<Current(r).team, Current(r).service>>

(* Mutant: there is no scoreMutex. *)
ScoreMutexFreeAlways == TRUE

ScoreMutexFree == scoreMutex = Nobody

(* The transaction begins under scoreMutex and reads the two scores. *)
ReadScores(r) ==
  /\ req[r].pc = "valid"
  /\ ScoreMutexFree
  /\ scoreMutex' = r
  /\ req' = [req EXCEPT ![r].pc = "scoring",
                        ![r].own = score[OwnAccount(r)],
                        ![r].other = score[VictimAccount(r)]]
  /\ UNCHANGED <<gameVars, flagVars, scoreVars, recent, lockMap, restarts>>

(* scale / (1 + exp(norm * (sqrt(own) - sqrt(other)))): always positive,   *)
(* less for a thief that is ahead of its victim.                           *)
OffensePoints(own, other) ==
  IF own < other THEN HighGain ELSE IF own = other THEN EvenGain ELSE LowGain

DefensePoints(other, offense) == IF other < offense THEN other ELSE offense

RowOf(r) ==
  LET offense == OffensePoints(req[r].own, req[r].other)
  IN  [flag |-> Current(r), team |-> req[r].team, offense |-> offense,
       defense |-> DefensePoints(req[r].other, offense)]

(* The unique constraint of flag_submissions would reject the row. *)
Clash(r) == Submitted(Current(r), req[r].team)

Moved(r) ==
  [score EXCEPT ![OwnAccount(r)] = score[OwnAccount(r)] + RowOf(r).offense,
                ![VictimAccount(r)] = score[VictimAccount(r)] - RowOf(r).defense]

FlagDone(r) ==
  /\ scoreMutex' = Nobody
  /\ req' = [req EXCEPT ![r].pc = "next", ![r].todo = Tail(req[r].todo)]

Commit(r) ==
  /\ req[r].pc = "scoring"
  /\ ~Clash(r)
  /\ submissions' = submissions \cup {RowOf(r)}
  /\ score' = Moved(r)
  /\ FlagDone(r)
  /\ UNCHANGED <<gameVars, flagVars, recent, lockMap, restarts>>

(* A statement of the transaction fails (the row clashes, or the database  *)
(* is in trouble): nothing is written, the answer is ERROR.                *)
Rollback(r) ==
  /\ req[r].pc = "scoring"
  /\ FlagDone(r)
  /\ UNCHANGED <<gameVars, flagVars, scoreVars, recent, lockMap, restarts>>

-----------------------------------------------------------------------------
(* The game server dies with its locks and requests and starts again.      *)
(* Unless it is still round 0, flags of rounds that were not exposed are   *)
(* deleted (checkers.go:374).                                              *)
Restart ==
  /\ restarts < MaxRestarts
  /\ restarts' = restarts + 1
  /\ req' = [r \in Requests |-> Idle]
  /\ lockMap' = [t \in Teams |-> Nobody]
  /\ scoreMutex' = Nobody
  /\ recent' = {}
  /\ putting' = {}
  /\ flags' \in {flags, {f \in flags : f.round <= exposed}}
  /\ UNCHANGED <<gameVars, planted, scoreVars>>

RoundLoop ==
  \/ \E f \in Flags : NewFlag(f) \/ Plant(f) \/ PutOk(f) \/ PutFailed(f)
  \/ Publish

Handle(r) ==
  \/ TakeTeamLock(r) \/ TooEarly(r) \/ Respond(r)
  \/ Accept(r) \/ Deny(r)
  \/ ReadScores(r) \/ Commit(r) \/ Rollback(r)

Next ==
  \/ RoundLoop
  \/ PauseOrResume
  \/ \E t \in Bannable : SetBanned(t)
  \/ Restart
  \/ \E t \in Teams : TimePasses(t)
  \/ \E r \in Requests :
       \/ \E t \in Teams, body \in Bodies : Arrive(r, t, body)
       \/ Handle(r)

Spec == Init /\ [][Next]_vars

(* net/http runs every handler, statements return, and a Go mutex is not   *)
(* kept from a goroutine that waits for it for ever.                       *)
FairSpec == Spec /\ \A r \in Requests : SF_vars(Handle(r))

-----------------------------------------------------------------------------
(* Properties.                                                             *)

(* The scores behave like books that are kept by one clerk: a flag is paid *)
(* once per team, from another team's account, and never overdraws it,     *)
(* although judging, reading and writing are separate steps of many        *)
(* requests and flags disappear meanwhile (elaborateFlag).                 *)
Ledger == INSTANCE ScoreLedger WITH paid <- submissions
ImplementsLedger == Ledger!Spec

(* A flag that two requests of a team offer at the same time is answered   *)
(* "already submitted" the second time; the unique constraint of           *)
(* flag_submissions is never what stops it (the answer would be ERROR,     *)
(* "notify the organizers").                                               *)
NeverClashes == \A r \in Requests : req[r].pc = "scoring" => ~Clash(r)

(* Every request is answered: none stays behind the lock of its team or    *)
(* behind scoreMutex (submitFlags has many early returns).                 *)
RequestsEnd == \A r \in Requests : req[r].pc # "idle" ~> req[r].pc = "idle"

(* "The flag never made it into the service: forget about it."             *)
(* (checkers.go:279).  If so, no flag that was submitted is ever missing   *)
(* from the table the scoreboard joins with to count stolen flags.         *)
SubmittedFlagsExist == \A s \in submissions : s.flag \in flags

(* "GameBanned rejects flag submissions" (db/models.go:98): a team that is *)
(* banned gets no points.                                                  *)
BannedGetNothing ==
  [][\A s \in submissions' \ submissions : s.team \notin banned]_vars

(* ------- What keeps the books right: the inductive invariant. ---------- *)

Working(r) == req[r].pc \in {"next", "valid", "scoring"}

(* Locks are held by those who work under them, and by nobody else. *)
LocksHeld ==
  /\ \A r \in Requests : Working(r) => lockMap[req[r].team] = r
  /\ \A r \in Requests, t \in Teams : lockMap[t] = r => Working(r) /\ req[r].team = t
  /\ \A r \in Requests : req[r].pc = "scoring" <=> scoreMutex = r

(* What a request that pays knows about its flag is still true. *)
JudgementHolds ==
  \A r \in Requests : req[r].pc \in {"valid", "scoring"} =>
    /\ req[r].todo # <<>>
    /\ Current(r) \in Flags
    /\ Current(r).team # req[r].team
    /\ ~Submitted(Current(r), req[r].team)

ScoresFresh ==
  \A r \in Requests : req[r].pc = "scoring" =>
    req[r].own = score[OwnAccount(r)] /\ req[r].other = score[VictimAccount(r)]

IInv == TypeOK /\ LocksHeld /\ JudgementHolds /\ ScoresFresh

=============================================================================
