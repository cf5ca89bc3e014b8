-------------------------- MODULE DispatcherProofs --------------------------
(* Proofs about Dispatcher, for any jobs, workers, bounds and restarts.    *)
EXTENDS Dispatcher, FiniteSetTheorems, TLAPS

USE DispatcherAssumption DEF DispatcherAssumption, MaxRequeues

(* The end of a lease granted now. *)
LEMMA LeaseEndType ==
  ASSUME TypeOK, NEW j \in Jobs
  PROVE  LeaseEnd(j) \in Nat /\ LeaseEnd(j) <= deadline[j]
BY DEF TypeOK, LeaseEnd

(***************************************************************************)
(* Type correctness.                                                       *)
(***************************************************************************)
LEMMA InitType == Init => TypeOK
BY DEF Init, TypeOK, Remote

LEMMA GrantType ==
  ASSUME TypeOK, NEW S, S \subseteq Ready, Grant(S)
  PROVE  /\ pending' \subseteq Jobs
         /\ inflight' \subseteq Jobs
         /\ expires' \in [Jobs -> Nat]
<1>1. \A j \in Jobs : LeaseEnd(j) \in Nat
  BY LeaseEndType
<1>. QED
  BY <1>1 DEF TypeOK, Grant, Ready

LEMMA RunType ==
  ASSUME TypeOK, NEW j \in Jobs
  PROVE  RunOf(j) \in Runs
<1>1. LeaseEnd(j) \in Nat
  BY LeaseEndType
<1>. QED
  BY <1>1 DEF TypeOK, RunOf, Runs

LEMMA StepType == TypeOK /\ [Next]_vars => TypeOK'
<1> SUFFICES ASSUME TypeOK, [Next]_vars
             PROVE  TypeOK'
  OBVIOUS
<1>1. CASE Tick
  BY <1>1 DEF TypeOK, Tick, queueVars, jobVars, askerVars, workerVars, histVars
<1>2. CASE Reap
  <2>1. attempts' \in [Jobs -> 0..MaxRequeues]
    BY <1>2 DEF TypeOK, Reap, Requeued, Exhausted, Due
  <2>2. notBefore' \in [Jobs -> Nat]
    BY <1>2 DEF TypeOK, Reap
  <2>3. pending' \subseteq Jobs /\ inflight' \subseteq Jobs /\ reaped' \subseteq Jobs
    BY <1>2 DEF TypeOK, Reap, Due, Requeued, Overdue, GivenUp
  <2>. QED
    BY <1>2, <2>1, <2>2, <2>3
    DEF TypeOK, Reap, askerVars, workerVars, histVars
<1>3. CASE ControlRestart
  <2>1. /\ running' \in [Workers -> SUBSET Runs]
        /\ results' \in [Workers -> SUBSET Reports]
        /\ posting' \in [Workers -> SUBSET Reports]
    BY <1>3 DEF TypeOK, ControlRestart
  <2>2. abandoned' \subseteq Jobs
    BY <1>3 DEF TypeOK, ControlRestart, Submitted
  <2>3. restarts' \in 0..MaxRestarts
    BY <1>3 DEF TypeOK, ControlRestart
  <2>. QED
    BY <1>3, <2>1, <2>2, <2>3 DEF TypeOK, ControlRestart, jobVars
<1>4. ASSUME NEW j \in Jobs, Submit(j)
      PROVE  TypeOK'
  <2>1. nextID' \in Nat /\ id' \in [Jobs -> Nat]
    BY <1>4 DEF TypeOK, Submit, Number
  <2>2. deadline' \in [Jobs -> Nat] /\ notBefore' \in [Jobs -> Nat]
    BY <1>4 DEF TypeOK, Submit
  <2>. QED
    BY <1>4, <2>1, <2>2
    DEF TypeOK, Submit, askerVars, workerVars, histVars
<1>5. ASSUME NEW j \in Jobs, Receive(j)
      PROVE  TypeOK'
  BY <1>5 DEF TypeOK, Receive, queueVars, jobVars, workerVars, histVars
<1>6. ASSUME NEW j \in Jobs, GiveUp(j)
      PROVE  TypeOK'
  BY <1>6 DEF TypeOK, GiveUp, queueVars, jobVars, workerVars, histVars
<1>7. ASSUME NEW j \in Jobs, Fail(j)
      PROVE  TypeOK'
  BY <1>7 DEF TypeOK, Fail, jobVars, workerVars, histVars
<1>8. ASSUME NEW r \in wire, HandleResult(r)
      PROVE  TypeOK'
  <2>1. r.status \in Statuses
    BY DEF TypeOK, Reports
  <2>2. inflight' \subseteq Jobs
        /\ result' \in [Jobs -> Statuses \cup {Killed, NoVerdict}]
    BY <1>8, <2>1 DEF TypeOK, HandleResult, Complete
  <2>. QED
    BY <1>8, <2>2 DEF TypeOK, HandleResult, jobVars, histVars
<1>9. ASSUME NEW w \in Workers, Claim(w)
      PROVE  TypeOK'
  <2>1. PICK S \in SUBSET Ready :
           /\ Grant(S)
           /\ running' = [running EXCEPT ![w] = @ \cup {RunOf(j) : j \in S}]
    BY <1>9 DEF Claim, Batches
  <2>2. running' \in [Workers -> SUBSET Runs]
    <3>1. S \subseteq Jobs
      BY DEF Ready, TypeOK
    <3>2. {RunOf(j) : j \in S} \subseteq Runs
      BY <3>1, RunType
    <3>. QED
      BY <2>1, <3>2 DEF TypeOK
  <2>3. pending' \subseteq Jobs /\ inflight' \subseteq Jobs
        /\ expires' \in [Jobs -> Nat]
    BY <2>1, GrantType
  <2>. QED
    BY <1>9, <2>1, <2>2, <2>3
    DEF TypeOK, Claim, Grant, jobVars, askerVars, histVars
<1>10. ASSUME NEW w \in Workers, NEW run \in running[w], NEW s \in Statuses,
              Finish(w, run, s)
       PROVE  TypeOK'
  <2>1. run \in Runs
    BY DEF TypeOK
  <2>2. [job |-> run.job, status |-> s, worker |-> w] \in Reports
    BY <2>1 DEF Runs, Reports
  <2>3. wire' \subseteq Reports /\ results' \in [Workers -> SUBSET Reports]
    BY <1>10, <2>2 DEF TypeOK, Finish
  <2>4. performed' \subseteq Jobs \X Statuses
    BY <1>10, <2>1 DEF TypeOK, Finish, Runs
  <2>5. running' \in [Workers -> SUBSET Runs]
    BY <1>10 DEF TypeOK, Finish
  <2>. QED
    BY <1>10, <2>3, <2>4, <2>5
    DEF TypeOK, Finish, queueVars, jobVars, askerVars
<1>11. ASSUME NEW w \in Remote, Hello(w)
       PROVE  TypeOK'
  BY <1>11 DEF TypeOK, Hello, queueVars, jobVars, askerVars, histVars
<1>12. ASSUME NEW w \in Remote, ClaimLost(w)
       PROVE  TypeOK'
  <2>1. PICK S \in SUBSET Ready : Grant(S)
    BY <1>12 DEF ClaimLost, Batches
  <2>. QED
    BY <1>12, <2>1, GrantType
    DEF TypeOK, ClaimLost, Grant, jobVars, askerVars, workerVars, histVars
<1>13. ASSUME NEW w \in Remote, Flush(w) \/ FlushOk(w) \/ FlushError(w)
       PROVE  TypeOK'
  <2>1. w \in Workers
    BY DEF Remote
  <2>. QED
    BY <1>13, <2>1 DEF TypeOK, Flush, FlushOk, FlushError,
                       queueVars, jobVars, askerVars, histVars
<1>14. ASSUME NEW w \in Remote, WorkerCrash(w)
       PROVE  TypeOK'
  BY <1>14 DEF TypeOK, WorkerCrash, queueVars, jobVars, askerVars, histVars
<1>15. CASE UNCHANGED vars
  BY <1>15 DEF TypeOK, vars, queueVars, jobVars, askerVars, workerVars, histVars
<1>. QED
  BY <1>1, <1>2, <1>3, <1>4, <1>5, <1>6, <1>7, <1>8, <1>9, <1>10, <1>11,
     <1>12, <1>13, <1>14, <1>15 DEF Next

(* Every variable of the dispatcher keeps its type (Dispatcher!TypeOK). *)
THEOREM TypeCorrect == Spec => []TypeOK
BY InitType, StepType, PTL DEF Spec

(***************************************************************************)
(* The safety properties: QueueInv is inductive.                               *)
(***************************************************************************)
LEMMA InitInv == Init => QueueInv
BY DEF Init, QueueInv, OnePlace, NothingLost, NoEarlyRetry, FirstBootAttribution,
       Attribution, KnownJobs, LeaseWithinRound, RunsHaveLeases, HonestReports,
       FirstBootNumbers, Waiting, Submitted

LEMMA SubmitInv ==
  ASSUME TypeOK, QueueInv, NEW j \in Jobs, Submit(j)
  PROVE  QueueInv'
<1>1. /\ j \notin Submitted /\ Submitted' = Submitted \cup {j}
      /\ \A k \in Jobs \ {j} : id'[k] = id[k] /\ deadline'[k] = deadline[k]
      /\ id'[j] = nextID + 1 /\ nextID' = nextID + 1
  BY DEF TypeOK, Submit, Number, Submitted
<1>2. /\ pending' = pending \cup {j}
      /\ UNCHANGED <<now, attempts, inflight, expires, reaped, result, verdict,
                     running, results, posting, wire, restarts, performed,
                     abandoned>>
  BY DEF Submit, askerVars, workerVars, histVars
<1>3. OnePlace'
  BY <1>1, <1>2 DEF QueueInv, OnePlace, KnownJobs
<1>4. NothingLost'
  BY <1>1, <1>2 DEF QueueInv, NothingLost, Waiting
<1>5. NoEarlyRetry'
  BY <1>1, <1>2 DEF QueueInv, NoEarlyRetry, RunsHaveLeases
<1>6. FirstBootAttribution'
  BY <1>2 DEF QueueInv, FirstBootAttribution, Attribution
<1>7. KnownJobs'
  BY <1>1, <1>2 DEF QueueInv, KnownJobs
<1>8. LeaseWithinRound'
  BY <1>1, <1>2 DEF QueueInv, LeaseWithinRound, KnownJobs, TypeOK
<1>9. RunsHaveLeases'
  BY <1>1, <1>2 DEF QueueInv, RunsHaveLeases
<1>10. HonestReports'
  BY <1>2 DEF QueueInv, HonestReports
<1>11. FirstBootNumbers'
  <2> SUFFICES ASSUME restarts = 0
               PROVE  /\ \A k \in Submitted' : id'[k] <= nextID'
                      /\ \A k, l \in Submitted' : id'[k] = id'[l] => k = l
                      /\ \A k \in Jobs : result[k] \in Statuses =>
                           <<k, result[k]>> \in performed
    BY <1>2 DEF FirstBootNumbers
  <2>1. \A k \in Submitted : id[k] \in Nat /\ id[k] <= nextID /\ k # j
    BY <1>1 DEF QueueInv, FirstBootNumbers, TypeOK, Submitted
  <2>2. \A k \in Submitted : id'[k] = id[k]
    BY <1>1, <2>1 DEF Submitted
  <2>. QED
    BY <1>1, <2>1, <2>2 DEF QueueInv, FirstBootNumbers, TypeOK
<1>. QED
  BY <1>3, <1>4, <1>5, <1>6, <1>7, <1>8, <1>9, <1>10, <1>11 DEF QueueInv

(* What a claim does to the queue and to the leases. *)
LEMMA GrantInv ==
  ASSUME TypeOK, QueueInv, NEW S \in SUBSET Ready, Grant(S),
         UNCHANGED <<wire, results, posting, histVars>>,
         \A w \in Workers : running'[w] \subseteq
                               running[w] \cup {RunOf(j) : j \in S}
  PROVE  QueueInv'
<1>1. /\ S \subseteq pending /\ S \subseteq Jobs
      /\ pending' = pending \ S /\ inflight' = inflight \cup S
      /\ UNCHANGED <<now, nextID, id, deadline, reaped, notBefore, attempts,
                     result, verdict, Submitted>>
      /\ UNCHANGED <<wire, results, posting, restarts, performed, abandoned>>
  BY DEF TypeOK, Grant, Ready, jobVars, askerVars, histVars, Submitted
<1>2. \A j \in S : expires'[j] = LeaseEnd(j)
  BY <1>1 DEF Grant
<1>3. \A j \in Jobs \ S : expires'[j] = expires[j]
  BY DEF Grant, TypeOK
<1>4. \A w \in Workers : \A run \in running'[w] :
        \/ run \in running[w]
        \/ run.job \in S /\ run.attempt = attempts[run.job]
                         /\ run.until = LeaseEnd(run.job)
  BY DEF RunOf
<1>5. OnePlace'
  BY <1>1 DEF QueueInv, OnePlace
<1>6. NothingLost'
  BY <1>1 DEF QueueInv, NothingLost, Waiting
<1>7. NoEarlyRetry'
  <2> SUFFICES ASSUME NEW w \in Workers, NEW run \in running'[w],
                      \/ run.job \in pending'
                      \/ run.job \in inflight' /\ attempts[run.job] # run.attempt
               PROVE  now >= run.until
    BY <1>1 DEF NoEarlyRetry
  <2>1. run \in running[w]
    BY <1>1, <1>4
  <2>. QED
    BY <1>1, <2>1 DEF QueueInv, NoEarlyRetry
<1>8. LeaseWithinRound'
  BY <1>1, <1>2, <1>3, LeaseEndType DEF QueueInv, LeaseWithinRound, TypeOK
<1>9. RunsHaveLeases'
  <2> SUFFICES ASSUME NEW w \in Workers, NEW run \in running'[w]
               PROVE  /\ run.job \in Submitted
                      /\ run.attempt <= attempts[run.job]
                      /\ run.job \in pending' => run.attempt < attempts[run.job]
                      /\ run.job \in inflight' /\ run.attempt = attempts[run.job] =>
                           run.until = expires'[run.job]
    BY <1>1 DEF RunsHaveLeases
  <2>1. CASE run \in running[w]
    <3>1. run.job \in Jobs /\ attempts[run.job] \in Nat /\ run.attempt \in Nat
      BY <2>1 DEF TypeOK, Runs
    <3>. QED
      BY <1>1, <1>3, <2>1, <3>1 DEF QueueInv, RunsHaveLeases
  <2>2. CASE /\ run.job \in S /\ run.attempt = attempts[run.job]
             /\ run.until = LeaseEnd(run.job)
    BY <1>1, <1>2, <2>2 DEF QueueInv, KnownJobs, TypeOK
  <2>. QED
    BY <1>4, <2>1, <2>2
<1>10. HonestReports'
  BY <1>1 DEF QueueInv, HonestReports
<1>11. KnownJobs' /\ FirstBootAttribution'
  BY <1>1 DEF QueueInv, KnownJobs, FirstBootAttribution, Attribution
<1>12. FirstBootNumbers'
  BY <1>1 DEF QueueInv, FirstBootNumbers
<1>. QED
  BY <1>5, <1>6, <1>7, <1>8, <1>9, <1>10, <1>11, <1>12 DEF QueueInv

LEMMA ReapInv ==
  ASSUME TypeOK, QueueInv, Reap
  PROVE  QueueInv'
<1>1. /\ inflight' = inflight \ Due
      /\ pending' = (pending \ Overdue) \cup Requeued
      /\ reaped' = reaped \cup (Due \ Requeued) \cup Overdue
      /\ Requeued \subseteq Due /\ Due \subseteq inflight /\ Overdue \subseteq pending
      /\ UNCHANGED <<now, nextID, id, deadline, expires, result, verdict,
                     Submitted>>
      /\ UNCHANGED <<wire, running, results, posting, restarts, performed,
                     abandoned>>
  BY DEF Reap, Due, Requeued, Overdue, GivenUp, askerVars, workerVars, histVars,
         Submitted
<1>2. /\ \A j \in Requeued : attempts'[j] = attempts[j] + 1
      /\ \A j \in Jobs \ Requeued : attempts'[j] = attempts[j]
  BY DEF TypeOK, Reap, Due, Requeued
<1>3. OnePlace'
  BY <1>1 DEF QueueInv, OnePlace
<1>4. NothingLost'
  BY <1>1 DEF QueueInv, NothingLost, Waiting
<1>5. \A w \in Workers : \A run \in running[w] :
        run.job \in Jobs /\ run.attempt \in Nat /\ attempts[run.job] \in Nat
  BY DEF TypeOK, Runs
<1>6. NoEarlyRetry'
  <2> SUFFICES ASSUME NEW w \in Workers, NEW run \in running[w],
                      \/ run.job \in pending'
                      \/ run.job \in inflight' /\ attempts'[run.job] # run.attempt
               PROVE  now >= run.until
    BY <1>1 DEF NoEarlyRetry
  <2>1. CASE run.job \in Requeued
    <3>1. run.job \in inflight /\ now >= expires[run.job]
      BY <1>1, <2>1 DEF Due
    <3>. QED
      BY <3>1 DEF QueueInv, NoEarlyRetry, RunsHaveLeases
  <2>2. CASE run.job \notin Requeued
    BY <1>1, <1>2, <1>5, <2>2 DEF QueueInv, NoEarlyRetry
  <2>. QED
    BY <2>1, <2>2
<1>7. RunsHaveLeases'
  <2> SUFFICES ASSUME NEW w \in Workers, NEW run \in running[w]
               PROVE  /\ run.job \in Submitted
                      /\ run.attempt <= attempts'[run.job]
                      /\ run.job \in pending' => run.attempt < attempts'[run.job]
                      /\ run.job \in inflight' /\ run.attempt = attempts'[run.job] =>
                           run.until = expires[run.job]
    BY <1>1 DEF RunsHaveLeases
  <2>1. /\ run.job \in Submitted
        /\ run.attempt <= attempts[run.job]
        /\ run.job \in pending => run.attempt < attempts[run.job]
        /\ run.job \in inflight /\ run.attempt = attempts[run.job] =>
             run.until = expires[run.job]
    BY DEF QueueInv, RunsHaveLeases
  <2>2. CASE run.job \in Requeued
    <3>1. run.job \notin inflight'
      BY <1>1, <2>2
    <3>. QED
      BY <1>2, <1>5, <2>1, <2>2, <3>1
  <2>3. CASE run.job \notin Requeued
    BY <1>1, <1>2, <1>5, <2>1, <2>3
  <2>. QED
    BY <2>2, <2>3
<1>8. LeaseWithinRound' /\ KnownJobs' /\ HonestReports'
  BY <1>1 DEF QueueInv, LeaseWithinRound, KnownJobs, HonestReports
<1>9. FirstBootNumbers' /\ FirstBootAttribution'
  BY <1>1 DEF QueueInv, FirstBootNumbers, FirstBootAttribution, Attribution
<1>. QED
  BY <1>3, <1>4, <1>6, <1>7, <1>8, <1>9 DEF QueueInv

(* A report resolves the leased job that has its number: before the first  *)
(* restart that is the job the report is about.                            *)
LEMMA HandleResultInv ==
  ASSUME TypeOK, QueueInv, NEW r \in wire, HandleResult(r)
  PROVE  QueueInv'
<1> DEFINE hit == Addressed(r)
<1>1. /\ inflight' = inflight \ hit /\ hit \subseteq inflight
      /\ wire' \subseteq wire
      /\ UNCHANGED <<now, nextID, id, deadline, pending, expires, reaped,
                     attempts, verdict, Submitted>>
      /\ UNCHANGED <<running, results, posting, restarts, performed, abandoned>>
  BY DEF HandleResult, Complete, Addressed, jobVars, histVars, Submitted
<1>2. r.job \in Jobs /\ r.status \in Statuses /\ <<r.job, r.status>> \in performed
  BY DEF TypeOK, Reports, QueueInv, HonestReports
<1>3. \A j \in hit : result[j] = NoVerdict /\ result'[j] = r.status
  BY <1>1 DEF HandleResult, Complete, QueueInv, OnePlace, TypeOK
<1>4. \A j \in Jobs \ hit : result'[j] = result[j]
  BY DEF HandleResult, Complete
<1>5. restarts = 0 => \A j \in hit : j = r.job
  BY <1>2 DEF Addressed, QueueInv, KnownJobs, FirstBootNumbers, Submitted, TypeOK
<1> HIDE DEF hit
<1>6. OnePlace'
  BY <1>1, <1>3, <1>4 DEF QueueInv, OnePlace
<1>7. NothingLost'
  BY <1>1, <1>2, <1>3, <1>4 DEF QueueInv, NothingLost, Waiting
<1>8. NoEarlyRetry'
  BY <1>1 DEF QueueInv, NoEarlyRetry
<1>9. KnownJobs'
  BY <1>1, <1>3, <1>4 DEF QueueInv, KnownJobs
<1>10. LeaseWithinRound' /\ HonestReports' /\ FirstBootAttribution'
  BY <1>1 DEF QueueInv, LeaseWithinRound, HonestReports, FirstBootAttribution,
              Attribution
<1>11. RunsHaveLeases'
  BY <1>1 DEF QueueInv, RunsHaveLeases
<1>12. FirstBootNumbers'
  BY <1>1, <1>2, <1>3, <1>4, <1>5 DEF QueueInv, FirstBootNumbers
<1>. QED
  BY <1>6, <1>7, <1>8, <1>9, <1>10, <1>11, <1>12 DEF QueueInv

LEMMA FailInv ==
  ASSUME TypeOK, QueueInv, NEW j \in Jobs, Fail(j)
  PROVE  QueueInv'
<1>1. /\ j \in reaped /\ reaped' = reaped \ {j}
      /\ UNCHANGED <<now, nextID, id, deadline, pending, inflight, expires,
                     attempts, verdict, Submitted>>
      /\ UNCHANGED <<wire, running, results, posting, restarts, performed,
                     abandoned>>
  BY DEF Fail, jobVars, workerVars, histVars, Submitted
<1>2. /\ result'[j] = Killed
      /\ \A k \in Jobs \ {j} : result'[k] = result[k]
  BY DEF Fail, QueueInv, OnePlace, TypeOK
<1>3. OnePlace'
  BY <1>1, <1>2 DEF QueueInv, OnePlace
<1>4. NothingLost'
  BY <1>1, <1>2 DEF QueueInv, NothingLost, Waiting
<1>5. NoEarlyRetry' /\ RunsHaveLeases'
  BY <1>1 DEF QueueInv, NoEarlyRetry, RunsHaveLeases
<1>6. KnownJobs'
  BY <1>1, <1>2 DEF QueueInv, KnownJobs
<1>7. LeaseWithinRound' /\ HonestReports' /\ FirstBootAttribution'
  BY <1>1 DEF QueueInv, LeaseWithinRound, HonestReports, FirstBootAttribution,
              Attribution
<1>8. FirstBootNumbers'
  BY <1>1, <1>2 DEF QueueInv, FirstBootNumbers
<1>. QED
  BY <1>3, <1>4, <1>5, <1>6, <1>7, <1>8 DEF QueueInv

(* The waiting goroutine takes its answer, or stops waiting. *)
LEMMA AskerInv ==
  ASSUME TypeOK, QueueInv, NEW j \in Jobs, Receive(j) \/ GiveUp(j)
  PROVE  QueueInv'
<1>1. UNCHANGED <<now, queueVars, attempts, wire, running, results, posting,
                  restarts, performed, abandoned, Submitted>>
  BY DEF Receive, GiveUp, queueVars, jobVars, workerVars, histVars, Submitted
<1>2. /\ \A k \in Jobs : result'[k] \in {result[k], NoVerdict}
      /\ \A k \in Jobs \ {j} : result'[k] = result[k] /\ verdict'[k] = verdict[k]
      /\ verdict'[j] # NoVerdict /\ verdict'[j] \in {result[j], Killed}
  BY DEF TypeOK, Receive, GiveUp
<1>3. OnePlace'
  BY <1>1, <1>2 DEF QueueInv, OnePlace, queueVars
<1>4. NothingLost'
  BY <1>1, <1>2 DEF QueueInv, NothingLost, Waiting, queueVars
<1>5. NoEarlyRetry' /\ RunsHaveLeases'
  BY <1>1 DEF QueueInv, NoEarlyRetry, RunsHaveLeases, queueVars
<1>6. KnownJobs'
  BY <1>1, <1>2 DEF QueueInv, KnownJobs, queueVars
<1>7. LeaseWithinRound' /\ HonestReports'
  BY <1>1 DEF QueueInv, LeaseWithinRound, HonestReports, queueVars
<1>8. FirstBootNumbers' /\ FirstBootAttribution'
  BY <1>1, <1>2 DEF QueueInv, FirstBootNumbers, FirstBootAttribution, Attribution,
                    queueVars
<1>. QED
  BY <1>3, <1>4, <1>5, <1>6, <1>7, <1>8 DEF QueueInv

LEMMA RestartInv ==
  ASSUME TypeOK, QueueInv, ControlRestart
  PROVE  QueueInv'
<1>1. /\ pending' = {} /\ inflight' = {} /\ reaped' = {} /\ wire' = {}
      /\ \A j \in Jobs : result'[j] = NoVerdict
      /\ restarts' = restarts + 1 /\ restarts \in Nat
      /\ abandoned' = abandoned \cup {j \in Submitted : verdict[j] = NoVerdict}
      /\ UNCHANGED <<now, id, attempts, verdict, performed, Submitted>>
  BY DEF TypeOK, ControlRestart, jobVars, Submitted
<1>2. \A w \in Workers : /\ running'[w] \subseteq running[w]
                         /\ results'[w] = results[w] \cup posting[w]
                         /\ posting'[w] = {}
  BY DEF ControlRestart
<1>3. OnePlace' /\ KnownJobs' /\ LeaseWithinRound'
  BY <1>1 DEF OnePlace, KnownJobs, LeaseWithinRound
<1>4. NothingLost'
  BY <1>1 DEF NothingLost, Waiting
<1>5. NoEarlyRetry'
  BY <1>1 DEF NoEarlyRetry
<1>6. RunsHaveLeases'
  BY <1>1, <1>2 DEF QueueInv, RunsHaveLeases
<1>7. HonestReports'
  <2>1. (wire \cup UNION {results[w] \cup posting[w] : w \in Workers})' \subseteq
          UNION {results[w] \cup posting[w] : w \in Workers}
    BY <1>1, <1>2
  <2>. QED
    BY <1>1, <2>1 DEF QueueInv, HonestReports
<1>8. FirstBootNumbers' /\ FirstBootAttribution'
  BY <1>1 DEF FirstBootNumbers, FirstBootAttribution
<1>. QED
  BY <1>3, <1>4, <1>5, <1>6, <1>7, <1>8 DEF QueueInv

LEMMA FinishInv ==
  ASSUME TypeOK, QueueInv,
         NEW w \in Workers, NEW run \in running[w], NEW s \in Statuses,
         Finish(w, run, s)
  PROVE  QueueInv'
<1>1. UNCHANGED <<now, queueVars, attempts, result, verdict, posting, restarts,
                  abandoned, Submitted>>
  BY DEF Finish, queueVars, jobVars, askerVars, Submitted
<1>2. \A v \in Workers : running'[v] \subseteq running[v]
  BY DEF TypeOK, Finish
<1>3. performed' = performed \cup {<<run.job, s>>}
  BY DEF Finish
<1>4. \A r \in (wire \cup UNION {results[v] \cup posting[v] : v \in Workers})' :
        \/ r \in wire \cup UNION {results[v] \cup posting[v] : v \in Workers}
        \/ r.job = run.job /\ r.status = s
  BY DEF TypeOK, Finish
<1>5. HonestReports'
  BY <1>3, <1>4 DEF QueueInv, HonestReports
<1>6. NoEarlyRetry' /\ RunsHaveLeases'
  BY <1>1, <1>2 DEF QueueInv, NoEarlyRetry, RunsHaveLeases, queueVars
<1>7. OnePlace' /\ NothingLost' /\ KnownJobs' /\ LeaseWithinRound'
  BY <1>1 DEF QueueInv, OnePlace, NothingLost, KnownJobs, LeaseWithinRound, Waiting,
              queueVars
<1>8. FirstBootNumbers' /\ FirstBootAttribution'
  BY <1>1, <1>3 DEF QueueInv, FirstBootNumbers, FirstBootAttribution, Attribution,
                    queueVars
<1>. QED
  BY <1>5, <1>6, <1>7, <1>8 DEF QueueInv

(* Steps that only move reports around, drop runs or let time pass. *)
LEMMA TransportInv ==
  ASSUME TypeOK, QueueInv,
         UNCHANGED <<queueVars, jobVars, askerVars, histVars>>,
         now' \in Nat, now' >= now,
         \A w \in Workers : running'[w] \subseteq running[w],
         (wire \cup UNION {results[w] \cup posting[w] : w \in Workers})' \subseteq
           wire \cup UNION {results[w] \cup posting[w] : w \in Workers}
  PROVE  QueueInv'
<1>1. UNCHANGED <<queueVars, attempts, result, verdict, restarts, performed,
                  abandoned, Submitted>>
  BY DEF queueVars, jobVars, askerVars, histVars, Submitted
<1>2. NoEarlyRetry'
  <2>1. \A w \in Workers : \A run \in running[w] : run.until \in Nat
    BY DEF TypeOK, Runs
  <2>2. now \in Nat
    BY DEF TypeOK
  <2>. QED
    BY <1>1, <2>1, <2>2 DEF QueueInv, NoEarlyRetry, queueVars
<1>3. RunsHaveLeases' /\ HonestReports'
  BY <1>1 DEF QueueInv, RunsHaveLeases, HonestReports, queueVars
<1>4. OnePlace' /\ NothingLost' /\ KnownJobs' /\ LeaseWithinRound'
  BY <1>1 DEF QueueInv, OnePlace, NothingLost, KnownJobs, LeaseWithinRound, Waiting,
              queueVars
<1>5. FirstBootNumbers' /\ FirstBootAttribution'
  BY <1>1 DEF QueueInv, FirstBootNumbers, FirstBootAttribution, Attribution,
              queueVars
<1>. QED
  BY <1>2, <1>3, <1>4, <1>5 DEF QueueInv

LEMMA StepInv == TypeOK /\ QueueInv /\ [Next]_vars => QueueInv'
<1> SUFFICES ASSUME TypeOK, QueueInv, [Next]_vars
             PROVE  QueueInv'
  OBVIOUS
<1>1. CASE Tick
  BY <1>1, TransportInv DEF TypeOK, Tick, workerVars
<1>2. ASSUME NEW w \in Workers, Claim(w)
      PROVE  QueueInv'
  <2>1. PICK S \in SUBSET Ready :
           /\ Grant(S)
           /\ running' = [running EXCEPT ![w] = @ \cup {RunOf(j) : j \in S}]
    BY <1>2 DEF Claim, Batches
  <2>. QED
    BY <1>2, <2>1, GrantInv DEF Claim, TypeOK
<1>3. ASSUME NEW w \in Remote, ClaimLost(w)
      PROVE  QueueInv'
  <2>1. PICK S \in SUBSET Ready : Grant(S)
    BY <1>3 DEF ClaimLost, Batches
  <2>. QED
    BY <1>3, <2>1, GrantInv DEF ClaimLost, workerVars
<1>4. ASSUME NEW w \in Remote, Hello(w)
      PROVE  QueueInv'
  BY <1>4, TransportInv DEF Hello, TypeOK
<1>5. ASSUME NEW w \in Remote, Flush(w) \/ FlushOk(w) \/ FlushError(w)
      PROVE  QueueInv'
  <2>1. w \in Workers
    BY DEF Remote
  <2>2. (wire \cup UNION {results[v] \cup posting[v] : v \in Workers})' \subseteq
          wire \cup UNION {results[v] \cup posting[v] : v \in Workers}
    BY <1>5, <2>1 DEF Flush, FlushOk, FlushError, TypeOK
  <2>3. /\ now' = now /\ running' = running
        /\ UNCHANGED <<queueVars, jobVars, askerVars, histVars>>
    BY <1>5 DEF Flush, FlushOk, FlushError
  <2>. QED
    BY <2>2, <2>3, TransportInv DEF TypeOK
<1>6. ASSUME NEW w \in Remote, WorkerCrash(w)
      PROVE  QueueInv'
  <2>1. /\ \A v \in Workers : running'[v] \subseteq running[v]
        /\ \A v \in Workers : results'[v] \cup posting'[v] \subseteq
                                results[v] \cup posting[v]
    BY <1>6 DEF WorkerCrash, TypeOK
  <2>. QED
    BY <1>6, <2>1, TransportInv DEF WorkerCrash, TypeOK
<1>7. CASE UNCHANGED vars
  BY <1>7, TransportInv DEF vars, workerVars, TypeOK
<1>. QED
  BY <1>1, <1>2, <1>3, <1>4, <1>5, <1>6, <1>7, ReapInv, RestartInv, SubmitInv,
     AskerInv, FailInv, HandleResultInv, FinishInv DEF Next

(* The inductive invariant of queue, leases and reports.                   *)
THEOREM DispatcherInvariant == Spec => []IInv
BY InitType, StepType, InitInv, StepInv, PTL DEF Spec, IInv

(* A job is in one place at a time: queued, leased, taken out by the       *)
(* reaper, or resolved (Dispatcher!OnePlace).                              *)
THEOREM JobInOnePlace == Spec => []OnePlace
BY DispatcherInvariant, PTL DEF IInv, QueueInv

(* No answer the orchestrator waits for gets lost (NothingLost).           *)
THEOREM NoAnswerLost == Spec => []NothingLost
BY DispatcherInvariant, PTL DEF IInv, QueueInv

(* While a lease lasts, nobody else is given its job (NoEarlyRetry).       *)
THEOREM RetriesAreNotEarly == Spec => []NoEarlyRetry
BY DispatcherInvariant, PTL DEF IInv, QueueInv

(* Until the control process is restarted, a status a job is answered with *)
(* comes from a run of that job (FirstBootAttribution).                    *)
THEOREM AnswersAreAttributed == Spec => []FirstBootAttribution
BY DispatcherInvariant, PTL DEF IInv, QueueInv

(***************************************************************************)
(* The dispatcher implements CheckJobs.                                    *)
(***************************************************************************)
LEMMA HonestResultsStep ==
  ASSUME TypeOK, QueueInv, HonestResults, [Next]_vars
  PROVE  HonestResults'
<1>1. ASSUME NEW r \in wire, HandleResult(r)
      PROVE  HonestResults'
  <2>1. r.job \in Jobs /\ <<r.job, r.status>> \in performed
    BY DEF TypeOK, Reports, QueueInv, HonestReports
  <2>2. /\ result' = [j \in Jobs |-> IF j \in Addressed(r) /\ result[j] = NoVerdict
                                    THEN r.status ELSE result[j]]
        /\ performed' = performed
    BY <1>1 DEF HandleResult, Complete, histVars
  <2>. QED
    BY <2>1, <2>2 DEF HonestResults
<1>2. ASSUME NEW j \in Jobs, Receive(j) \/ Fail(j)
      PROVE  HonestResults'
  <2>1. \A k \in Jobs : result'[k] = result[k] \/ result'[k] \in {NoVerdict, Killed}
    BY <1>2 DEF Receive, Fail, TypeOK
  <2>2. performed' = performed
    BY <1>2 DEF Receive, Fail, histVars
  <2>. QED
    BY <2>1, <2>2, DispatcherAssumption DEF HonestResults, DispatcherAssumption
<1>3. CASE ControlRestart
  BY <1>3, DispatcherAssumption
  DEF ControlRestart, HonestResults, DispatcherAssumption
<1>4. ASSUME result' = result, performed \subseteq performed'
      PROVE  HonestResults'
  BY <1>4 DEF HonestResults
<1>5. ASSUME NEW w \in Workers, NEW run \in running[w], NEW s \in Statuses,
             Finish(w, run, s)
      PROVE  HonestResults'
  BY <1>4, <1>5 DEF Finish, askerVars
<1>6. CASE \/ Tick \/ Reap \/ UNCHANGED vars
           \/ \E j \in Jobs : Submit(j) \/ GiveUp(j)
           \/ \E w \in Workers : Claim(w)
           \/ \E w \in Remote : \/ Hello(w) \/ ClaimLost(w) \/ Flush(w)
                                \/ FlushOk(w) \/ FlushError(w) \/ WorkerCrash(w)
  <2>1. result' = result /\ performed' = performed
    BY <1>6
    DEF Tick, Reap, Submit, GiveUp, Claim, Grant, Hello, ClaimLost, Flush, FlushOk,
        FlushError, WorkerCrash, vars, askerVars, histVars
  <2>. QED
    BY <1>4, <2>1
<1>. QED
  BY <1>1, <1>2, <1>3, <1>5, <1>6 DEF Next

(* Even after a restart a job is answered with what some checker returned. *)
THEOREM ResultsAreHonest == Spec => []HonestResults
<1>1. Init => HonestResults
  BY DispatcherAssumption DEF Init, HonestResults, DispatcherAssumption
<1>2. TypeOK /\ QueueInv /\ HonestResults /\ [Next]_vars => HonestResults'
  BY HonestResultsStep
<1>. QED
  BY <1>1, <1>2, DispatcherInvariant, PTL DEF Spec, IInv

LEMMA ContractStep ==
  ASSUME TypeOK, QueueInv, HonestResults, [Next]_vars
  PROVE  [Contract!Next]_(Contract!vars)
<1>1. ASSUME NEW j \in Jobs, Submit(j)
      PROVE  Contract!Ask(j)
  BY <1>1 DEF Submit, Number, Contract!Ask, Submitted, TypeOK, askerVars, histVars
<1>2. ASSUME NEW j \in Jobs, Receive(j)
      PROVE  Contract!Answer(j)
  <2>1. /\ result[j] \in Statuses \cup {Killed}
        /\ result[j] # Killed =>
             \E k \in Jobs : <<k, result[j]>> \in performed /\ (restarts > 0 \/ k = j)
    <3>1. /\ result[j] \in Statuses \cup {Killed}
          /\ restarts = 0 \/ restarts > 0
      BY <1>2 DEF Receive, TypeOK
    <3>2. CASE restarts = 0
      BY <3>1, <3>2 DEF QueueInv, FirstBootNumbers
    <3>3. CASE restarts > 0
      BY <3>1, <3>3 DEF HonestResults
    <3>. QED
      BY <3>1, <3>2, <3>3
  <2>2. /\ j \in Submitted \ abandoned /\ verdict[j] = NoVerdict
        /\ verdict' = [verdict EXCEPT ![j] = result[j]]
        /\ UNCHANGED <<Submitted, performed, abandoned, restarts>>
    BY <1>2 DEF Receive, Waiting, queueVars, histVars, Submitted
  <2>. QED
    BY <2>1, <2>2 DEF Contract!Answer
<1>3. ASSUME NEW j \in Jobs, GiveUp(j)
      PROVE  Contract!Answer(j)
  BY <1>3 DEF GiveUp, Waiting, queueVars, histVars, Submitted, Contract!Answer
<1>4. ASSUME NEW w \in Workers, NEW run \in running[w], NEW s \in Statuses,
             Finish(w, run, s)
      PROVE  Contract!Perform(run.job, s) /\ run.job \in Jobs
  <2>1. run.job \in Submitted
    BY DEF QueueInv, RunsHaveLeases
  <2>. QED
    BY <1>4, <2>1 DEF Finish, queueVars, askerVars, Submitted, Contract!Perform
<1>5. CASE ControlRestart
  <2>1. restarts' > 0
    BY <1>5 DEF ControlRestart, TypeOK
  <2>. QED
    BY <1>5, <2>1 DEF ControlRestart, Submitted, Contract!Restart, Contract!Next
<1>6. CASE \/ Tick \/ Reap \/ UNCHANGED vars
           \/ \E j \in Jobs : Fail(j)
           \/ \E r \in wire : HandleResult(r)
           \/ \E w \in Workers : Claim(w)
           \/ \E w \in Remote : \/ Hello(w) \/ ClaimLost(w) \/ Flush(w)
                                \/ FlushOk(w) \/ FlushError(w) \/ WorkerCrash(w)
  <2>1. UNCHANGED <<Submitted, performed, verdict, abandoned, restarts>>
    BY <1>6
    DEF Tick, Reap, Fail, HandleResult, Claim, Grant, Hello, ClaimLost, Flush,
        FlushOk, FlushError, WorkerCrash, vars, Submitted, queueVars, jobVars,
        askerVars, workerVars, histVars
  <2>. QED
    BY <2>1 DEF Contract!vars
<1>. QED
  BY <1>1, <1>2, <1>3, <1>4, <1>5, <1>6 DEF Next, Contract!Next

(* Every behaviour of the dispatcher is one of CheckJobs: a job is answered *)
(* at most once, with the status of a run of its own or with KILLED, and    *)
(* after a restart of the control process with the status of some run (the  *)
(* safety part of ImplementsCheckJobs; TLC checks the liveness part).       *)
THEOREM DispatcherImplementsCheckJobs ==
  Spec => Contract!Init /\ [][Contract!Next]_(Contract!vars)
<1>1. Init => Contract!Init
  BY DEF Init, Contract!Init, Submitted
<1>2. TypeOK /\ QueueInv /\ HonestResults /\ [Next]_vars =>
        [Contract!Next]_(Contract!vars)
  BY ContractStep
<1>. QED
  BY <1>1, <1>2, DispatcherInvariant, ResultsAreHonest, PTL DEF Spec, IInv

(* A claim is of queued jobs, which have no run of their next attempt; no   *)
(* other step starts a run.                                                 *)
LEMMA OneRunStep ==
  ASSUME TypeOK, QueueInv, OneRunPerLease, [Next]_vars
  PROVE  OneRunPerLease'
<1>1. ASSUME NEW w \in Workers, Claim(w)
      PROVE  OneRunPerLease'
  <2>1. PICK S \in SUBSET Ready :
           running' = [running EXCEPT ![w] = @ \cup {RunOf(j) : j \in S}]
    BY <1>1 DEF Claim, Batches
  <2>2. /\ running'[w] = running[w] \cup {RunOf(j) : j \in S}
        /\ \A v \in Workers \ {w} : running'[v] = running[v]
    BY <2>1 DEF TypeOK
  <2>3. \A j \in S : \A v \in Workers : \A run \in running[v] :
          run.job = j => run.attempt # attempts[j]
    <3>. SUFFICES ASSUME NEW j \in S, NEW v \in Workers, NEW run \in running[v],
                         run.job = j
                  PROVE  run.attempt # attempts[j]
      OBVIOUS
    <3>1. run.attempt \in Int /\ attempts[j] \in Int
      BY DEF TypeOK, Runs, Ready
    <3>2. run.attempt < attempts[j]
      BY DEF Ready, QueueInv, RunsHaveLeases
    <3>. QED
      BY <3>1, <3>2
  <2>4. \A j \in S : RunOf(j).job = j /\ RunOf(j).attempt = attempts[j]
    BY DEF RunOf
  <2>. SUFFICES ASSUME NEW v \in Workers, NEW u \in Workers,
                       NEW run \in running'[v], NEW other \in running'[u],
                       run.job = other.job, run.attempt = other.attempt
                PROVE  v = u /\ run = other
    BY DEF OneRunPerLease
  <2>5. \/ run \in running[v]
        \/ v = w /\ \E j \in S : run = RunOf(j)
    BY <2>2
  <2>6. \/ other \in running[u]
        \/ u = w /\ \E j \in S : other = RunOf(j)
    BY <2>2
  <2>7. CASE run \in running[v] /\ other \in running[u]
    BY <2>7 DEF OneRunPerLease
  <2>8. CASE run \in running[v] /\ u = w /\ \E j \in S : other = RunOf(j)
    BY <2>3, <2>4, <2>8
  <2>9. CASE other \in running[u] /\ v = w /\ \E j \in S : run = RunOf(j)
    BY <2>3, <2>4, <2>9
  <2>10. CASE v = w /\ u = w /\ (\E j \in S : run = RunOf(j))
                             /\ (\E j \in S : other = RunOf(j))
    BY <2>4, <2>10
  <2>. QED
    BY <2>5, <2>6, <2>7, <2>8, <2>9, <2>10
<1>2. ASSUME \A v \in Workers : running'[v] \subseteq running[v]
      PROVE  OneRunPerLease'
  BY <1>2 DEF OneRunPerLease
<1>3. ASSUME NEW w \in Workers, NEW run \in running[w], NEW s \in Statuses,
             Finish(w, run, s)
      PROVE  OneRunPerLease'
  BY <1>2, <1>3 DEF Finish, TypeOK
<1>4. ASSUME NEW w \in Remote, WorkerCrash(w)
      PROVE  OneRunPerLease'
  BY <1>2, <1>4 DEF WorkerCrash, TypeOK
<1>5. CASE ControlRestart
  BY <1>2, <1>5 DEF ControlRestart
<1>6. CASE \/ Tick \/ Reap \/ UNCHANGED vars
           \/ \E j \in Jobs : Submit(j) \/ Receive(j) \/ GiveUp(j) \/ Fail(j)
           \/ \E r \in wire : HandleResult(r)
           \/ \E w \in Remote : \/ Hello(w) \/ ClaimLost(w) \/ Flush(w)
                                \/ FlushOk(w) \/ FlushError(w)
  <2>1. running' = running
    BY <1>6
    DEF Tick, Reap, Submit, Receive, GiveUp, Fail, HandleResult, Hello, ClaimLost,
        Flush, FlushOk, FlushError, vars, workerVars
  <2>. QED
    BY <1>2, <2>1
<1>. QED
  BY <1>1, <1>3, <1>4, <1>5, <1>6 DEF Next

(* A run per lease, and MaxRequeues + 1 leases: the runs of a job map       *)
(* one-to-one into the attempts.                                            *)
LEMMA HandsByAttempt ==
  ASSUME TypeOK, OneRunPerLease, NEW j \in Jobs
  PROVE  Cardinality(Hands(j)) <= MaxRequeues + 1
<1>. DEFINE f == [h \in Hands(j) |-> h[2].attempt]
<1>1. ASSUME NEW h \in Hands(j)
      PROVE  /\ h = <<h[1], h[2]>>
             /\ h[1] \in Workers /\ h[2] \in running[h[1]] /\ h[2].job = j
  BY DEF Hands
<1>2. f \in [Hands(j) -> 0..MaxRequeues]
  BY <1>1 DEF TypeOK, Runs
<1>3. ASSUME NEW h \in Hands(j), NEW k \in Hands(j), f[h] = f[k]
      PROVE  h = k
  <2>1. h[2].attempt = k[2].attempt
    BY <1>3
  <2>. QED
    BY <1>1, <2>1 DEF OneRunPerLease
<1>4. f \in Injection(Hands(j), 0..MaxRequeues)
  BY <1>2, <1>3, Zenon DEF Injection, IsInjective
<1>5. /\ IsFiniteSet(0..2)
      /\ Cardinality(0..2) = IF 0 > 2 THEN 0 ELSE 2 - 0 + 1
  BY FS_Interval, 0 \in Int, 2 \in Int, Zenon
<1>6. IsFiniteSet(0..2) /\ Cardinality(0..2) = 3
  BY <1>5
<1>7. f \in Injection(Hands(j), 0..2)
  BY <1>4
<1>. HIDE DEF f
<1>8. Cardinality(Hands(j)) <= Cardinality(0..2)
  BY <1>6, <1>7, FS_Injection, Zenon
<1>. QED
  BY <1>6, <1>8

(* A job that hangs occupies at most MaxRequeues + 1 slots of the workers   *)
(* at once, whatever runs late, dies or restarts (HandsBounded).            *)
THEOREM HungJobsAreBounded == Spec => []HandsBounded
<1>1. Init => OneRunPerLease
  BY DEF Init, OneRunPerLease
<1>2. IInv /\ OneRunPerLease /\ [Next]_vars => OneRunPerLease'
  BY OneRunStep DEF IInv
<1>3. IInv /\ OneRunPerLease => HandsBounded
  BY HandsByAttempt DEF IInv, HandsBounded
<1>. QED
  BY <1>1, <1>2, <1>3, DispatcherInvariant, PTL DEF Spec
=============================================================================
