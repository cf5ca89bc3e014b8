----------------------------- MODULE Dispatcher -----------------------------
(***************************************************************************)
(* The checker job queue of the game server: gameserver/src/jobs.go, the   *)
(* worker loops of worker.go and the claim and result handlers of          *)
(* worker_api.go.                                                          *)
(*                                                                         *)
(* The orchestrator submits jobs.  Workers pull them under a lease, run    *)
(* the checker and report the status; the embedded worker calls the        *)
(* dispatcher directly, remote ones talk HTTP, so that a claim response or *)
(* the response to a report can get lost, and a report can arrive after    *)
(* its lease ran out.  A reaper requeues the jobs whose lease expired and  *)
(* kills those past the end of their round.  The control process may be    *)
(* restarted: it forgets the queue and numbers its jobs from 1 again,      *)
(* while remote workers carry on.                                          *)
(***************************************************************************)
EXTENDS Integers, FiniteSets

CONSTANTS
  Jobs,         (* the Job objects the orchestrator creates                 *)
  Workers,      (* every worker                                             *)
  Embedded,     (* those that run inside the control process                *)
  Capacity,     (* checks a worker runs in parallel                         *)
  Lease,        (* Timeout + 15s, in ticks                                  *)
  Slack,        (* how long past the deadline the orchestrator waits (10s)  *)
  Deadlines,    (* ends of the rounds jobs may belong to                    *)
  Horizon,      (* bound: the clock stops here                              *)
  MaxRestarts,  (* bound: how often the control process is restarted        *)
  Statuses,     (* what a checker run may return                            *)
  Killed,       (* status of a job nobody completed                         *)
  NoVerdict     (* no answer yet; also: nothing in the result channel       *)

ASSUME DispatcherAssumption ==
  /\ Embedded \subseteq Workers
  /\ Capacity \in Nat \ {0}
  /\ Lease \in Nat \ {0}
  /\ Slack \in Nat
  /\ Deadlines \subseteq Nat
  /\ Horizon \in Nat
  /\ MaxRestarts \in Nat
  /\ Killed \notin Statuses
  /\ NoVerdict \notin Statuses \cup {Killed}

(* Reap gives up on a job that was requeued this many times. *)
MaxRequeues == 2

VARIABLES
  now,        (* the clock of the control node                              *)
  nextID,     (* Dispatcher.nextID                                          *)
  id,         (* Job.ID, 0 before Submit                                    *)
  deadline,   (* Job.Deadline                                               *)
  notBefore,  (* Job.NotBefore                                              *)
  attempts,   (* Job.attempts                                               *)
  pending,    (* Dispatcher.pending                                         *)
  inflight,   (* Dispatcher.inflight: the jobs under a lease                *)
  expires,    (* leasedJob.expires of the jobs in inflight                  *)
  reaped,     (* Reap's local list: out of the queue, not yet failed        *)
  result,     (* content of the job's result channel (capacity 1)           *)
  verdict,    (* what the waiting goroutine of runServiceRound made of it   *)
  known,      (* remote workers in the registry                             *)
  running,    (* per worker, the runs in progress                           *)
  results,    (* remoteWorker.results: reports waiting for the next flush   *)
  posting,    (* reports in the flush that is waiting for its response      *)
  wire,       (* reports on their way to Dispatcher.Complete                *)
  restarts,   (* restarts of the control process so far                     *)
  performed,  (* history: runs that ended, as <<job, status>>               *)
  abandoned   (* history: jobs whose orchestrator died with the process     *)

queueVars  == <<nextID, id, deadline, pending, inflight, expires, reaped>>
jobVars    == <<notBefore, attempts>>
askerVars  == <<result, verdict>>
workerVars == <<known, running, results, posting, wire>>
histVars   == <<restarts, performed, abandoned>>

vars == <<now, queueVars, jobVars, askerVars, workerVars, histVars>>

Remote == Workers \ Embedded

(* A run in progress.  attempt and until are history: which lease started  *)
(* the run and when that lease ends.                                       *)
Runs == [job : Jobs, attempt : 0..MaxRequeues, until : Nat]

Reports == [job : Jobs, status : Statuses, worker : Workers]

Submitted == {j \in Jobs : id[j] # 0}

TypeOK ==
  /\ now \in 0..Horizon
  /\ nextID \in Nat
  /\ id \in [Jobs -> Nat]
  /\ deadline \in [Jobs -> Nat]
  /\ notBefore \in [Jobs -> Nat]
  /\ attempts \in [Jobs -> 0..MaxRequeues]
  /\ pending \subseteq Jobs
  /\ inflight \subseteq Jobs
  /\ expires \in [Jobs -> Nat]
  /\ reaped \subseteq Jobs
  /\ result \in [Jobs -> Statuses \cup {Killed, NoVerdict}]
  /\ verdict \in [Jobs -> Statuses \cup {Killed, NoVerdict}]
  /\ known \subseteq Remote
  /\ running \in [Workers -> SUBSET Runs]
  /\ results \in [Workers -> SUBSET Reports]
  /\ posting \in [Workers -> SUBSET Reports]
  /\ wire \subseteq Reports
  /\ restarts \in 0..MaxRestarts
  /\ performed \subseteq Jobs \X Statuses
  /\ abandoned \subseteq Jobs

Init ==
  /\ now = 0
  /\ nextID = 0
  /\ id = [j \in Jobs |-> 0]
  /\ deadline = [j \in Jobs |-> 0]
  /\ notBefore = [j \in Jobs |-> 0]
  /\ attempts = [j \in Jobs |-> 0]
  /\ pending = {}
  /\ inflight = {}
  /\ expires = [j \in Jobs |-> 0]
  /\ reaped = {}
  /\ result = [j \in Jobs |-> NoVerdict]
  /\ verdict = [j \in Jobs |-> NoVerdict]
  /\ known = {}
  /\ running = [w \in Workers |-> {}]
  /\ results = [w \in Workers |-> {}]
  /\ posting = [w \in Workers |-> {}]
  /\ wire = {}
  /\ restarts = 0
  /\ performed = {}
  /\ abandoned = {}

(* Time passes; nothing in the dispatcher is driven by anything else. *)
Tick ==
  /\ now < Horizon
  /\ now' = now + 1
  /\ UNCHANGED <<queueVars, jobVars, askerVars, workerVars, histVars>>

-----------------------------------------------------------------------------
(* The orchestrator. *)

(* runServiceRound builds a job of the running round, spread at random     *)
(* over it, and Submit numbers and queues it.                              *)
Number == nextID + 1

Submit(j) ==
  /\ id[j] = 0
  /\ nextID' = Number
  /\ id' = [id EXCEPT ![j] = nextID']
  /\ \E d \in Deadlines :
       /\ now < d
       /\ deadline' = [deadline EXCEPT ![j] = d]
       /\ \E t \in now..d : notBefore' = [notBefore EXCEPT ![j] = t]
  /\ pending' = pending \cup {j}
  /\ UNCHANGED <<now, attempts, inflight, expires, reaped, askerVars,
                 workerVars, histVars>>

Waiting(j) == j \in Submitted /\ verdict[j] = NoVerdict /\ j \notin abandoned

(* The goroutine waiting for the job reads its result channel. *)
Receive(j) ==
  /\ Waiting(j)
  /\ result[j] # NoVerdict
  /\ verdict' = [verdict EXCEPT ![j] = result[j]]
  /\ result' = [result EXCEPT ![j] = NoVerdict]
  /\ UNCHANGED <<now, queueVars, jobVars, workerVars, histVars>>

(* "Checker never reported back": the other arm of the goroutine's select. *)
GiveUp(j) ==
  /\ Waiting(j)
  /\ now >= deadline[j] + Slack
  /\ verdict' = [verdict EXCEPT ![j] = Killed]
  /\ UNCHANGED <<now, queueVars, jobVars, result, workerVars, histVars>>

-----------------------------------------------------------------------------
(* The dispatcher. *)

Ready == {j \in pending : notBefore[j] <= now}

(* What the heap hands out when a worker asks for up to max jobs. *)
Batches(max) ==
  {S \in SUBSET Ready :
     /\ S # {}
     /\ Cardinality(S) <= max
     /\ S = Ready \/ Cardinality(S) = max
     /\ \A j \in S, k \in Ready \ S : notBefore[j] <= notBefore[k]}

(* A lease never outlives the round of its job. *)
LeaseEnd(j) == IF now + Lease > deadline[j] THEN deadline[j] ELSE now + Lease

(* tryClaim, under the dispatcher's mutex. *)
Grant(S) ==
  /\ pending' = pending \ S
  /\ inflight' = inflight \cup S
  /\ expires' = [j \in Jobs |-> IF j \in S THEN LeaseEnd(j) ELSE expires[j]]
  /\ UNCHANGED <<now, nextID, id, deadline, reaped, jobVars, askerVars>>

RunOf(j) == [job |-> j, attempt |-> attempts[j], until |-> LeaseEnd(j)]

(* A worker with free slots polls for work and starts the checkers.  The   *)
(* embedded worker's goroutines ask for one job each; a remote worker asks *)
(* for as many as it has slots, and must be in the registry (410 Gone).    *)
Claim(w) ==
  /\ w \in Remote => w \in known
  /\ LET free == Capacity - Cardinality(running[w])
     IN  /\ free > 0
         /\ \E S \in Batches(IF w \in Embedded THEN 1 ELSE free) :
              /\ Grant(S)
              /\ running' = [running EXCEPT ![w] = @ \cup {RunOf(j) : j \in S}]
  /\ UNCHANGED <<known, results, posting, wire, histVars>>

(* The same, but the response to /worker/claim never reaches the worker:   *)
(* the jobs are leased and nobody runs them.                               *)
ClaimLost(w) ==
  /\ w \in known
  /\ \E S \in Batches(Capacity - Cardinality(running[w])) : Grant(S)
  /\ UNCHANGED <<workerVars, histVars>>

(* Inflight jobs a report is taken for: Complete goes by the number alone. *)
Addressed(r) == {j \in inflight : id[j] = id[r.job]}

(* A report for a job that is not inflight is dropped.  The status goes    *)
(* into the channel after the mutex is released, but by then nobody else   *)
(* can reach the job.                                                      *)
Complete(r) ==
  /\ inflight' = inflight \ Addressed(r)
  /\ result' = [j \in Jobs |-> IF j \in Addressed(r) /\ result[j] = NoVerdict
                               THEN r.status ELSE result[j]]

HandleResult(r) ==
  /\ r \in wire
  /\ wire' = wire \ {r}
  /\ Complete(r)
  /\ UNCHANGED <<now, nextID, id, deadline, pending, expires, reaped, jobVars,
                 verdict, known, running, results, posting, histVars>>

(* Reap.  Leases that ran out; of these, the jobs that get another try;    *)
(* queued jobs whose round is over.                                        *)
DueEarly == {j \in inflight : now + 1 >= expires[j]}
Due == {j \in inflight : now >= expires[j]}

ExhaustedLate(j) == attempts[j] > MaxRequeues
Exhausted(j) == attempts[j] >= MaxRequeues

Requeued == {j \in Due : now <= deadline[j] /\ ~Exhausted(j)}

OverdueIgnored == {}
Overdue == {j \in pending : now > deadline[j]}

(* The jobs that are given up: the orchestrator is told by fail(). *)
GivenUpSilently == Due \ Requeued
GivenUp == (Due \ Requeued) \cup Overdue

(* Under the mutex ... *)
Reap ==
  /\ Due \cup Overdue # {}
  /\ inflight' = inflight \ Due
  /\ pending' = (pending \ Overdue) \cup Requeued
  /\ attempts' = [j \in Jobs |-> IF j \in Requeued THEN attempts[j] + 1
                                                   ELSE attempts[j]]
  /\ notBefore' = [j \in Jobs |-> IF j \in Requeued THEN now ELSE notBefore[j]]
  /\ reaped' = reaped \cup GivenUp
  /\ UNCHANGED <<now, nextID, id, deadline, expires, askerVars, workerVars,
                 histVars>>

(* ... and, with the mutex released, fail() for each job it took out. *)
Fail(j) ==
  /\ j \in reaped
  /\ reaped' = reaped \ {j}
  /\ result' = [result EXCEPT ![j] = IF @ = NoVerdict THEN Killed ELSE @]
  /\ UNCHANGED <<now, nextID, id, deadline, pending, inflight, expires,
                 jobVars, verdict, workerVars, histVars>>

-----------------------------------------------------------------------------
(* The workers. *)

(* A claim was refused because the control node does not know the worker:  *)
(* it says hello and is registered.                                        *)
Hello(w) ==
  /\ w \in Remote \ known
  /\ known' = known \cup {w}
  /\ UNCHANGED <<now, queueVars, jobVars, askerVars, running, results, posting,
                 wire, histVars>>

(* executeJob ends.  An embedded worker goes on to call Complete, a remote *)
(* one keeps the report for its next flush.                                *)
Finish(w, run, s) ==
  /\ run \in running[w]
  /\ running' = [running EXCEPT ![w] = @ \ {run}]
  /\ performed' = performed \cup {<<run.job, s>>}
  /\ LET r == [job |-> run.job, status |-> s, worker |-> w]
     IN  IF w \in Embedded
         THEN wire' = wire \cup {r} /\ UNCHANGED results
         ELSE results' = [results EXCEPT ![w] = @ \cup {r}] /\ UNCHANGED wire
  /\ UNCHANGED <<now, queueVars, jobVars, askerVars, known, posting, restarts,
                 abandoned>>

(* flushResults takes the reports and posts them.  A request that does not *)
(* arrive leaves no trace, since the reports are put back.                 *)
Flush(w) ==
  /\ results[w] # {}
  /\ posting[w] = {}
  /\ posting' = [posting EXCEPT ![w] = results[w]]
  /\ results' = [results EXCEPT ![w] = {}]
  /\ wire' = wire \cup results[w]
  /\ UNCHANGED <<now, queueVars, jobVars, askerVars, known, running, histVars>>

(* The handler went through all of them and its 200 arrives. *)
FlushOk(w) ==
  /\ posting[w] # {}
  /\ posting[w] \cap wire = {}
  /\ posting' = [posting EXCEPT ![w] = {}]
  /\ UNCHANGED <<now, queueVars, jobVars, askerVars, known, running, results,
                 wire, histVars>>

(* The request fails on the worker's side, whatever the handler did or     *)
(* still does with it: the reports are put back and sent again.            *)
FlushError(w) ==
  /\ posting[w] # {}
  /\ posting' = [posting EXCEPT ![w] = {}]
  /\ results' = [results EXCEPT ![w] = @ \cup posting[w]]
  /\ UNCHANGED <<now, queueVars, jobVars, askerVars, known, running, wire,
                 histVars>>

(* A remote worker dies: its runs and its unsent reports are gone. *)
WorkerCrash(w) ==
  /\ running[w] # {} \/ results[w] # {} \/ posting[w] # {}
  /\ running' = [running EXCEPT ![w] = {}]
  /\ results' = [results EXCEPT ![w] = {}]
  /\ posting' = [posting EXCEPT ![w] = {}]
  /\ UNCHANGED <<now, queueVars, jobVars, askerVars, known, wire, histVars>>

(* The control process is restarted: queue, registry, orchestrator and     *)
(* embedded runs are gone, the numbering starts over.  Remote workers see  *)
(* their requests fail and go on.                                          *)
ControlRestart ==
  /\ restarts < MaxRestarts
  /\ restarts' = restarts + 1
  /\ abandoned' = abandoned \cup {j \in Submitted : verdict[j] = NoVerdict}
  /\ nextID' = 0
  /\ pending' = {}
  /\ inflight' = {}
  /\ reaped' = {}
  /\ result' = [j \in Jobs |-> NoVerdict]
  /\ known' = {}
  /\ wire' = {}
  /\ running' = [w \in Workers |-> IF w \in Embedded THEN {} ELSE running[w]]
  /\ results' = [w \in Workers |-> results[w] \cup posting[w]]
  /\ posting' = [w \in Workers |-> {}]
  /\ UNCHANGED <<now, id, deadline, expires, jobVars, verdict, performed>>

-----------------------------------------------------------------------------
Next ==
  \/ Tick
  \/ Reap
  \/ ControlRestart
  \/ \E j \in Jobs : Submit(j) \/ Receive(j) \/ GiveUp(j) \/ Fail(j)
  \/ \E r \in wire : HandleResult(r)
  \/ \E w \in Workers :
       \/ Claim(w)
       \/ \E run \in running[w], s \in Statuses : Finish(w, run, s)
  \/ \E w \in Remote :
       \/ Hello(w)
       \/ ClaimLost(w)
       \/ Flush(w)
       \/ FlushOk(w)
       \/ FlushError(w)
       \/ WorkerCrash(w)

(* The reaper runs on a ticker of the control process, and the goroutines  *)
(* of the orchestrator are scheduled.  Nothing is assumed of the workers,  *)
(* and the orchestrator's own timeout is not counted on either.            *)
Fairness ==
  /\ WF_vars(Tick)
  /\ WF_vars(Reap)
  /\ \A j \in Jobs : WF_vars(Fail(j)) /\ WF_vars(Receive(j))

Spec == Init /\ [][Next]_vars

FairSpec == Spec /\ Fairness

-----------------------------------------------------------------------------
(* Safety. *)

(* A job is in one place at a time, so that it cannot be handed out twice  *)
(* under one attempt or resolved twice: queued, leased, taken out by the   *)
(* reaper, or resolved.  (jobs.go: every move is made under one mutex.)    *)
OnePlace ==
  /\ pending \cap inflight = {}
  /\ pending \cap reaped = {}
  /\ inflight \cap reaped = {}
  /\ \A j \in Jobs : result[j] # NoVerdict =>
       j \notin pending \cup inflight \cup reaped

(* No answer gets lost: a job the orchestrator of this process still waits *)
(* for is in one of those places.                                          *)
NothingLost ==
  \A j \in Jobs : Waiting(j) =>
    j \in pending \cup inflight \cup reaped \/ result[j] # NoVerdict

(* A job is run again only after the lease of the earlier run ended: while *)
(* a lease lasts, nobody else is given the job.                            *)
NoEarlyRetry ==
  \A w \in Workers : \A run \in running[w] :
    \/ run.job \in pending
    \/ run.job \in inflight /\ attempts[run.job] # run.attempt
    => now >= run.until

(* The status a job is answered with comes from a run of that job.         *)
Attribution ==
  \A j \in Jobs : verdict[j] \in Statuses => <<j, verdict[j]>> \in performed

(* As long as the control process has not been restarted, it is so.        *)
FirstBootAttribution == restarts = 0 => Attribution

(* The runs of a job, with the workers they occupy. *)
Hands(j) ==
  UNION {{<<w, run>> : run \in {r \in running[w] : r.job = j}} : w \in Workers}

(* A job that hangs does not eat up the workers: however many of them keep *)
(* running it after their leases ended, and through a restart, it occupies *)
(* MaxRequeues + 1 slots at most.  The requeue at the very instant of the  *)
(* deadline, which hands out a lease that is over at once, counts as well. *)
HandsBounded == \A j \in Jobs : Cardinality(Hands(j)) <= MaxRequeues + 1

-----------------------------------------------------------------------------
(* Why the safety properties hold: facts that, together with them, every   *)
(* step preserves.                                                         *)

(* Only submitted jobs are known anywhere. *)
KnownJobs ==
  /\ pending \cup inflight \cup reaped \subseteq Submitted
  /\ \A j \in Jobs : result[j] # NoVerdict => j \in Submitted

(* A lease ends by the deadline of its job. *)
LeaseWithinRound == \A j \in inflight : expires[j] <= deadline[j]

(* Runs belong to leases: none is ahead of the attempts of its job, a      *)
(* queued job has no run of its next attempt yet, and the run of a leased  *)
(* job's current attempt ends with the lease.                              *)
RunsHaveLeases ==
  \A w \in Workers : \A run \in running[w] :
    /\ run.job \in Submitted
    /\ run.attempt <= attempts[run.job]
    /\ run.job \in pending => run.attempt < attempts[run.job]
    /\ run.job \in inflight /\ run.attempt = attempts[run.job] =>
         run.until = expires[run.job]

(* Reports tell of runs that took place. *)
HonestReports ==
  \A r \in wire \cup UNION {results[w] \cup posting[w] : w \in Workers} :
    <<r.job, r.status>> \in performed

(* Until the first restart numbers are not reused, and what is in a result *)
(* channel is the status of the job it belongs to.                         *)
FirstBootNumbers ==
  restarts = 0 =>
    /\ \A j \in Submitted : id[j] <= nextID
    /\ \A j, k \in Submitted : id[j] = id[k] => j = k
    /\ \A j \in Jobs : result[j] \in Statuses => <<j, result[j]>> \in performed

QueueInv ==
  /\ OnePlace
  /\ NothingLost
  /\ NoEarlyRetry
  /\ FirstBootAttribution
  /\ KnownJobs
  /\ LeaseWithinRound
  /\ RunsHaveLeases
  /\ HonestReports
  /\ FirstBootNumbers

IInv == TypeOK /\ QueueInv

(* No two runs are under one lease: what bounds the hands. *)
OneRunPerLease ==
  \A w, v \in Workers : \A run \in running[w], other \in running[v] :
    run.job = other.job /\ run.attempt = other.attempt => w = v /\ run = other

-----------------------------------------------------------------------------
(* Liveness: even if every worker is dead, no job stays in the queue       *)
(* ("if nobody picks them up before the end of the round, they are scored  *)
(* as a timeout").                                                         *)
QueueDrains ==
  \A j \in Jobs : (j \in pending \cup inflight) ~>
                  (j \notin pending \cup inflight \cup reaped)

(* A status is one that a checker returned, whatever job it belonged to.   *)
HonestResults ==
  \A j \in Jobs : result[j] \in Statuses => \E k \in Jobs : <<k, result[j]>> \in performed

(* The dispatcher implements what the orchestrator expects of it.          *)
Contract == INSTANCE CheckJobs
              WITH asked <- Submitted, forgotten <- abandoned, restarted <- restarts > 0

ImplementsCheckJobs == Contract!Spec
=============================================================================
