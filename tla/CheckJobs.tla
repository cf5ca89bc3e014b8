----------------------------- MODULE CheckJobs -----------------------------
(***************************************************************************)
(* What the round orchestrator (gameserver/src/checkers.go) expects from   *)
(* the job dispatcher (jobs.go), whatever happens to workers and messages: *)
(* every job that is asked for is answered exactly once, with the status   *)
(* of a real run of the checker for that very job, or with KILLED.         *)
(*                                                                         *)
(* The orchestrator lives in the same process.  When that is restarted,    *)
(* nobody waits any longer for the jobs that were not answered by then.    *)
(* What is asked afterwards is answered as before, exactly once and with   *)
(* a status a checker has returned, but it may be one of another job.      *)
(***************************************************************************)
EXTENDS Naturals

CONSTANTS
  Jobs,       \* the checker invocations
  Statuses,   \* what a run of a checker may return (OK, DOWN, ...)
  Killed,     \* "no worker completed the job in time"
  NoVerdict   \* the job is not answered yet

VARIABLES
  asked,      \* jobs handed to the dispatcher
  performed,  \* runs that really took place, as <<job, status>>
  verdict,    \* the answer each job got
  forgotten,  \* jobs nobody waits for any longer
  restarted   \* the process has been restarted

vars == <<asked, performed, verdict, forgotten, restarted>>

Init ==
  /\ asked = {}
  /\ performed = {}
  /\ verdict = [j \in Jobs |-> NoVerdict]
  /\ forgotten = {}
  /\ restarted = FALSE

Ask(j) ==
  /\ j \notin asked
  /\ asked' = asked \cup {j}
  /\ UNCHANGED <<performed, verdict, forgotten, restarted>>

Perform(j, s) ==
  /\ j \in asked
  /\ performed' = performed \cup {<<j, s>>}
  /\ UNCHANGED <<asked, verdict, forgotten, restarted>>

Answer(j) ==
  /\ j \in asked \ forgotten
  /\ verdict[j] = NoVerdict
  /\ \E s \in Statuses \cup {Killed} :
       /\ s # Killed => \E k \in Jobs : <<k, s>> \in performed /\ (restarted \/ k = j)
       /\ verdict' = [verdict EXCEPT ![j] = s]
  /\ UNCHANGED <<asked, performed, forgotten, restarted>>

Restart ==
  /\ restarted' = TRUE
  /\ forgotten' = forgotten \cup {j \in asked : verdict[j] = NoVerdict}
  /\ UNCHANGED <<asked, performed, verdict>>

Next ==
  \/ Restart
  \/ \E j \in Jobs :
       \/ Ask(j)
       \/ \E s \in Statuses : Perform(j, s)
       \/ Answer(j)

Fairness == \A j \in Jobs : WF_vars(Answer(j))

Spec == Init /\ [][Next]_vars /\ Fairness
=============================================================================
