----------------------------- MODULE TeamBoxes -----------------------------
(***************************************************************************)
(* The boxes of the teams on one node and their reset: incus/start.sh,     *)
(* incus/customize-vm.py, incus/agent.py, vmreset.go of the game server    *)
(* and reset_vm of run.py.                                                 *)
(*                                                                         *)
(* The container of the node builds everything on its first start: a base  *)
(* image, then in parallel a box per team, each on a storage pool of its   *)
(* own.  It leaves a marker and exits, is started again, and from then on  *)
(* starts the boxes that exist.  A reset destroys a box and clones it      *)
(* again, on behalf of the panel, through the agent of the node, or of a   *)
(* terminal, which does not ask whether the node is still being built.     *)
(* Each is a script of incus commands; a command may fail, the container   *)
(* may be stopped between any two, and the scripts of the first build and  *)
(* of several resets interleave.  No script outlives the container.        *)
(***************************************************************************)
EXTENDS Naturals

CONSTANTS
  Teams,              (* teams with a box on this node                      *)
  Builder,            (* the first build                                    *)
  Panel,              (* resets from the panel: one at a time for a team    *)
  Terminals,          (* resets from terminals: pairs of one and its team   *)
  MaxFailures,        (* bound: commands that fail for no reason            *)
  MaxStops            (* bound: stops of the container                      *)

ASSUME TeamBoxesAssumption ==
  /\ Builder # Panel
  /\ \A p \in Terminals : p[1] \notin {Builder, Panel} /\ p[2] \in Teams
  /\ MaxFailures \in Nat /\ MaxStops \in Nat

VARIABLES
  node,               (* where start.sh is                                  *)
  ready,              (* /var/lib/incus/ready                               *)
  base,               (* base-vm is complete                                *)
  pool,               (* storage pools                                      *)
  box,                (* the boxes                                          *)
  clone,              (* the scripts: what each does next to a team's box   *)
  failed,             (* a box could not be generated (first build)         *)
  failures, stops,
  old,                (* history: resets whose team still has the box from  *)
                      (* before they began                                  *)
  overlapped,         (* history: teams with two resets at a time, or with  *)
                      (* one while the boxes are built or started           *)
  damaged             (* history: teams with a reset that a failing command *)
                      (* or the end of the container interrupted, or whose  *)
                      (* box did not start with the node                    *)

incusVars == <<base, pool, box>>
histVars  == <<old, overlapped, damaged>>

vars == <<node, ready, incusVars, clone, failed, failures, stops, histVars>>

-----------------------------------------------------------------------------
(* What a script does after each of its steps: generate_customize_script,  *)
(* with destroy_box before it and the start of reset_box after it.  The    *)
(* commands that set the limits count as one; so do those that make host   *)
(* keys and push the tunnel ("tunnel"), and those that set the password    *)
(* and enable the tunnel ("password").                                     *)
After ==
  [delete |-> "deletePool", deletePool |-> "createPool", createPool |-> "copy",
   copy |-> "limits", limits |-> "start", start |-> "boot", boot |-> "tunnel",
   tunnel |-> "password", password |-> "stop", stop |-> "run", run |-> "idle"]

Steps == {"delete", "deletePool", "createPool", "copy", "limits", "start", "boot",
          "tunnel", "password", "stop", "run", "idle"}

Resets == ({Panel} \X Teams) \cup Terminals

Scripts == ({Builder} \X Teams) \cup Resets

Settings == {"tunnel", "password"}

Box == [there : BOOLEAN, configured : SUBSET Settings, running : BOOLEAN]

NoBox == [there |-> FALSE, configured |-> {}, running |-> FALSE]

TypeOK ==
  /\ node \in {"off", "base", "teams", "exit", "boot", "up"}
  /\ ready \in BOOLEAN /\ base \in BOOLEAN /\ failed \in BOOLEAN
  /\ pool \subseteq Teams
  /\ box \in [Teams -> Box]
  /\ clone \in [Scripts -> Steps]
  /\ failures \in 0..MaxFailures /\ stops \in 0..MaxStops
  /\ old \subseteq Scripts
  /\ overlapped \subseteq Teams /\ damaged \subseteq Teams
  /\ \A p \in Scripts : clone[p] # "idle" =>
       IF p[1] = Builder THEN node = "teams" ELSE node # "off"

Init ==
  /\ node = "off"
  /\ ready = FALSE /\ base = FALSE /\ failed = FALSE
  /\ pool = {}
  /\ box = [t \in Teams |-> NoBox]
  /\ clone = [p \in Scripts |-> "idle"]
  /\ failures = 0 /\ stops = 0
  /\ old = {} /\ overlapped = {} /\ damaged = {}

Idle(t) == \A p \in Resets : p[2] = t => clone[p] = "idle"

-----------------------------------------------------------------------------
(* start.sh                                                                *)

(* Mutant: what an earlier attempt has left is kept. *)
WipedNothing == UNCHANGED incusVars

Wiped == base' = FALSE /\ pool' = {} /\ box' = [t \in Teams |-> NoBox]

Launch ==
  /\ node = "off"
  /\ IF ready THEN node' = "boot" /\ UNCHANGED <<incusVars, overlapped, damaged>>
              ELSE node' = "base" /\ Wiped /\ overlapped' = {} /\ damaged' = {}
  /\ failed' = FALSE
  /\ UNCHANGED <<ready, clone, failures, stops, old>>

(* create_base_vm, after which the pool of processes starts.  A reset that *)
(* comes before it finds no base to clone from; the pool it has made lets  *)
(* this build fail, as it does if it clones from a base half made.         *)
BuildBase ==
  /\ node = "base"
  /\ node' = "teams"
  /\ base' = TRUE
  /\ clone' = [p \in Scripts |-> IF p[1] = Builder THEN "createPool" ELSE clone[p]]
  /\ UNCHANGED <<ready, pool, box, failed, failures, stops, histVars>>

BaseFails ==
  /\ node = "base"
  /\ failures < MaxFailures
  /\ failures' = failures + 1
  /\ node' = "exit"
  /\ UNCHANGED <<ready, incusVars, clone, failed, stops, histVars>>

(* Mutant: the marker is written in any case. *)
MarkedAlways == TRUE

Marked == ~failed

(* The results of all processes are in. *)
FinishBuild ==
  /\ node = "teams"
  /\ \A t \in Teams : clone[<<Builder, t>>] = "idle"
  /\ ready' = Marked
  /\ node' = "exit"
  /\ UNCHANGED <<incusVars, clone, failed, failures, stops, histVars>>

Halted == [t \in Teams |-> [box[t] EXCEPT !.running = FALSE]]

Killed == [p \in Scripts |-> "idle"]

(* The container goes down, and every script in it.                        *)
GoDown ==
  /\ node' = "off"
  /\ box' = Halted
  /\ clone' = Killed
  /\ damaged' = damaged \cup {t \in Teams : ~Idle(t)}
  /\ UNCHANGED <<ready, base, pool, failed, failures, old, overlapped>>

(* cleanup, on EXIT *)
Exit ==
  /\ node = "exit"
  /\ GoDown
  /\ UNCHANGED stops

(* cleanup, on a signal: docker stops the container, or the host goes down *)
Stop ==
  /\ node # "off"
  /\ stops < MaxStops
  /\ stops' = stops + 1
  /\ GoDown

(* customize-vm.py start: boxes that do not start (S) or are missing are   *)
(* only complained about.                                                  *)
StartAll ==
  /\ node = "boot"
  /\ node' = "up"
  /\ \E S \in SUBSET Teams :
       /\ S # {} => failures < MaxFailures
       /\ failures' = IF S = {} THEN failures ELSE failures + 1
       /\ box' = [t \in Teams |-> [box[t] EXCEPT
            !.running = box[t].running \/ (box[t].there /\ t \notin S)]]
       /\ damaged' = damaged \cup S
  /\ UNCHANGED <<ready, base, pool, clone, failed, stops, old, overlapped>>

-----------------------------------------------------------------------------
(* Resets.                                                                 *)

(* handleAdminResetVM and the agent's do_POST, which refuses a team it is  *)
(* at work for; or customize-vm.py run in the container by run.py, which   *)
(* looks at the game server only, not at what this node is doing.          *)
Reset(p) ==
  /\ IF p[1] = Panel THEN node = "up" ELSE node # "off"
  /\ clone[p] = "idle"
  /\ clone' = [clone EXCEPT ![p] = "delete"]
  /\ old' = IF box[p[2]].there THEN old \cup {p} ELSE old \ {p}
  /\ overlapped' = IF Idle(p[2]) /\ node = "up" THEN overlapped \ {p[2]}
                   ELSE overlapped \cup {p[2]}
  /\ UNCHANGED <<node, ready, incusVars, failed, failures, stops, damaged>>

-----------------------------------------------------------------------------
(* The commands.                                                           *)

At(p, step) == clone[p] = step

(* Mutant: the pool is left to the rebuild. *)
FollowingKeepsPool(p) ==
  IF clone[p] = "delete" THEN "createPool" ELSE After[clone[p]]

(* The builder's script ends with "stop". *)
Following(p) ==
  IF p[1] = Builder /\ clone[p] = "stop" THEN "idle" ELSE After[clone[p]]

Continue(p) == clone' = [clone EXCEPT ![p] = Following(p)]

Abandon(p) ==
  /\ clone' = [clone EXCEPT ![p] = "idle"]
  /\ failed' = (failed \/ p[1] = Builder)

(* Commands that end the script when they fail; "start" should, but its    *)
(* exit 1 only leaves a subshell.                                          *)
MustSucceedLess(step) ==
  step \notin {"delete", "deletePool", "createPool", "copy", "start"}
MustSucceed(step) == step \notin {"delete", "deletePool", "start"}

(* What incus makes of a command.                                          *)
Accepts(p) ==
  LET t == p[2] IN
  CASE clone[p] = "delete"     -> box[t].there
    [] clone[p] = "deletePool" -> t \in pool /\ ~box[t].there
    [] clone[p] = "createPool" -> t \notin pool
    [] clone[p] = "copy"       -> base /\ t \in pool /\ ~box[t].there
    [] clone[p] = "limits"     -> box[t].there
    [] clone[p] \in {"start", "run"} -> box[t].there /\ ~box[t].running
    [] clone[p] \in {"boot", "tunnel", "password", "stop"} -> box[t].running

Effect(p) ==
  LET t == p[2] IN
  /\ pool' = IF clone[p] = "createPool" THEN pool \cup {t}
             ELSE IF clone[p] = "deletePool" THEN pool \ {t} ELSE pool
  /\ box' = [box EXCEPT ![t] =
       CASE clone[p] = "delete"    -> NoBox
         [] clone[p] = "copy"      -> [NoBox EXCEPT !.there = TRUE]
         [] clone[p] \in {"start", "run"} -> [box[t] EXCEPT !.running = TRUE]
         [] clone[p] \in Settings  -> [box[t] EXCEPT !.configured = @ \cup {clone[p]}]
         [] clone[p] = "stop"      -> [box[t] EXCEPT !.running = FALSE]
         [] OTHER                  -> box[t]]

Succeeds(p) == clone[p] = "run" /\ Accepts(p)

RunCommand(p) ==
  /\ clone[p] # "idle"
  /\ Accepts(p)
  /\ Effect(p)
  /\ Continue(p)
  /\ old' = IF At(p, "copy") THEN {q \in old : q[2] # p[2]} ELSE old
  /\ damaged' = IF At(p, "run") THEN damaged \ {p[2]} ELSE damaged
  /\ UNCHANGED <<node, ready, base, failed, failures, stops, overlapped>>

(* A command is refused.  (wait_ready waits for a box that does not run    *)
(* and gives up in the end.)                                               *)
Refuse(p) ==
  /\ clone[p] # "idle"
  /\ ~Accepts(p)
  /\ IF MustSucceed(clone[p]) THEN Abandon(p) ELSE Continue(p) /\ UNCHANGED failed
  /\ UNCHANGED <<node, ready, incusVars, failures, stops, histVars>>

(* A command fails for reasons of its own: no space left, a box that does  *)
(* not boot, an image that does not build.                                 *)
CommandFails(p) ==
  /\ clone[p] # "idle"
  /\ failures < MaxFailures
  /\ failures' = failures + 1
  /\ IF MustSucceed(clone[p]) THEN Abandon(p) ELSE Continue(p) /\ UNCHANGED failed
  /\ damaged' = IF p[1] = Builder THEN damaged ELSE damaged \cup {p[2]}
  /\ UNCHANGED <<node, ready, incusVars, stops, old, overlapped>>

Command(p) == RunCommand(p) \/ Refuse(p)

StartScript == BuildBase \/ FinishBuild \/ Exit \/ StartAll

Next ==
  \/ Launch \/ StartScript \/ BaseFails \/ Stop
  \/ \E p \in Resets : Reset(p)
  \/ \E p \in Scripts : Command(p) \/ CommandFails(p)

Spec == Init /\ [][Next]_vars

(* Commands return.  Nothing is assumed of who starts the container: on    *)
(* its own docker does so where the compose file says "unless-stopped",    *)
(* which run.py leaves out for the first build next to the game server,    *)
(* and never after docker stop.                                            *)
FairSpec ==
  /\ Spec
  /\ WF_vars(StartScript)
  /\ \A p \in Scripts : WF_vars(Command(p))

-----------------------------------------------------------------------------
(* Properties.                                                             *)

(* "A leftover pool would make incus storage create fail and leave the     *)
(* team with no box at all" (customize-vm.py:249): on a node that is up a  *)
(* team has a box that runs, even if several resets of it overlapped each  *)
(* other, the first build or the start of the boxes.  The exceptions are   *)
(* a command that failed by itself and a reset that the end of the         *)
(* container cut short: a stop, or its exit after the first build.         *)
BoxSurvives ==
  \A t \in Teams :
    node = "up" /\ Idle(t) /\ t \notin damaged => box[t].running

(* Without overlaps the box is also complete: its keys, its tunnel and its *)
(* password are those of the team.                                         *)
BoxComplete ==
  \A t \in Teams :
    node = "up" /\ Idle(t) /\ t \notin damaged \cup overlapped =>
      box[t].configured = Settings

(* "Everything the team did to its box is gone" (customize-vm.py:263): a   *)
(* reset that reports success leaves a clone that is younger than itself.  *)
ResetStep == \A p \in Scripts : Succeeds(p) /\ clone'[p] = "idle" => p \notin old
ResetIsFresh == [][ResetStep]_vars

(* A first build that failed, was stopped or ran into a reset is made      *)
(* again from the start, whatever it left behind: if the container is      *)
(* always started again, by docker or by the operators, and they do not    *)
(* reset boxes in every build, the node is up in the end.                  *)
Building == node \in {"base", "teams"}
BuildsInPeace == \A p \in Terminals : Building => clone[p] = "idle"

NodeComesUp == []<>(node # "off") /\ <>[]BuildsInPeace => <>[](node = "up")

(* "A team that breaks its own machine beyond repair gets it back"         *)
(* (README.md:348): a box is not lost for good, started or not.            *)
BoxNotLost ==
  \A t \in Teams : node = "up" /\ Idle(t) => box[t].there /\ box[t].configured = Settings

-----------------------------------------------------------------------------
(* The inductive invariant.                                                *)

Complete(t) == box[t].there /\ box[t].configured = Settings

(* A reset that still has the old box ahead of it has not cloned yet.      *)
OldUntilCopied ==
  \A p \in old : clone[p] \in {"idle", "delete", "deletePool", "createPool", "copy"}

(* The marker stands for a finished build.                                 *)
MarkerHolds ==
  /\ Building => ~ready
  /\ node \in {"boot", "up"} => ready
  /\ ready \/ node = "teams" => base

(* incus does not delete the pool of a box.                                *)
BoxesOnPools ==
  \A t \in Teams :
    /\ box[t].there => t \in pool
    /\ box[t].running => box[t].there

(* Without an overlap a team has one script at a time.                     *)
OneAtATime ==
  \A t \in Teams \ overlapped :
    /\ node # "up" => Idle(t)
    /\ \A p, q \in Resets :
         p[2] = t /\ q[2] = t /\ clone[p] # "idle" /\ clone[q] # "idle" => p = q

(* What a script that has come to a step has done, whatever failed.        *)
Achieved(t, step) ==
  /\ step \in {"limits", "start", "boot", "tunnel", "password", "stop", "run"} =>
       box[t].there
  /\ step \in {"password", "stop", "run"} => "tunnel" \in box[t].configured
  /\ step \in {"stop", "run"} => "password" \in box[t].configured

BuildsAdvance ==
  node = "teams" /\ ~failed =>
    \A t \in Teams \ overlapped :
      Achieved(t, IF clone[<<Builder, t>>] = "idle" THEN "run" ELSE clone[<<Builder, t>>])

ResetsAdvance ==
  \A p \in Resets :
    p[2] \notin overlapped /\ clone[p] # "idle" => Achieved(p[2], clone[p])

(* What holds at a step if nothing failed: the next command is accepted.   *)
Accepted(t, step) ==
  /\ step \in {"deletePool", "createPool", "copy"} => ~box[t].there
  /\ step = "createPool" => t \notin pool
  /\ step = "copy" => t \in pool
  /\ step \in {"limits", "start", "run"} => ~box[t].running
  /\ step \in {"boot", "tunnel", "password", "stop"} => box[t].running

ResetsAccepted ==
  \A p \in Resets :
    p[2] \notin overlapped \cup damaged /\ clone[p] # "idle" => Accepted(p[2], clone[p])

BoxesComplete ==
  ready => \A t \in Teams \ (overlapped \cup damaged) : Idle(t) => Complete(t)

(* However many resets overlap, one of them is about to make the box...    *)
Rebuilding(t) ==
  \E p \in Resets :
    /\ p[2] = t
    /\ \/ clone[p] \in {"delete", "deletePool"}
       \/ clone[p] = "createPool" /\ t \notin pool
       \/ clone[p] = "copy" /\ t \in pool

(* ...or about to start it.                                                *)
Starting(t) ==
  \E p \in Resets : p[2] = t /\ clone[p] \in {"delete", "limits", "start", "run"}

Built(t) ==
  ready \/ (node = "teams" /\ ~failed /\ clone[<<Builder, t>>] = "idle")

BoxesRecover ==
  \A t \in Teams \ damaged : Built(t) =>
    IF box[t].there THEN node = "up" => box[t].running \/ Starting(t) ELSE Rebuilding(t)

IInv ==
  /\ TypeOK
  /\ OldUntilCopied
  /\ MarkerHolds
  /\ BoxesOnPools
  /\ OneAtATime
  /\ BuildsAdvance
  /\ ResetsAdvance
  /\ ResetsAccepted
  /\ BoxesComplete
  /\ BoxesRecover
=============================================================================
