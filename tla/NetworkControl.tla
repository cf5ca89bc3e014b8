--------------------------- MODULE NetworkControl ---------------------------
(***************************************************************************)
(* The game network and who drives it: gameserver/src/ctfroute.go and      *)
(* nodes.go on the control node, router/agent.py and router/ctfroute.sh on *)
(* the routers.                                                            *)
(*                                                                         *)
(* The control node stores the state the network is supposed to be in and  *)
(* the teams that are cut off, and then sends the command to every router. *)
(* Commands get lost; routers reboot and come up frozen; the control node  *)
(* restarts.  The agent of each router asks for the state periodically and *)
(* repairs what differs.  A command is a script of iptables calls, and the *)
(* scripts of several callers run on a router at the same time.            *)
(***************************************************************************)
EXTENDS Integers, Sequences, FiniteSets

CONSTANTS
  Routers,
  Bannable,           (* teams that may be banned from the network          *)
  Callers,            (* organizers' requests and the round loop            *)
  Orders,             (* the network states they ask for                    *)
  Agent,              (* the reconcile loop, as a process of a router       *)
  NoTeam,
  MaxOrders,          (* bound: calls                                       *)
  MaxReboots,         (* bound: reboots of routers                          *)
  MaxRestarts         (* bound: restarts of the control node                *)

ASSUME NetworkControlAssumption ==
  /\ Orders \subseteq {"unlocked", "locked", "frozen"}
  /\ Agent \notin Callers
  /\ NoTeam \notin Bannable
  /\ MaxOrders \in Nat /\ MaxReboots \in Nat /\ MaxRestarts \in Nat

VARIABLES
  stored,             (* setting network_state, column network_banned       *)
  published,          (* the same in memory: what node-sync answers         *)
  caller,             (* the calls                                          *)
  rules,              (* the iptables rules of each router                  *)
  script,             (* what is left of the scripts running on a router    *)
  agent,              (* the reconcile loops                                *)
  orders, reboots, restarts,
  asked               (* history: the states that have been asked for       *)

controlVars == <<stored, published, caller>>
routerVars  == <<rules, script, agent>>
boundVars   == <<orders, reboots, restarts>>

networkVars == <<controlVars, routerVars, boundVars, asked>>

-----------------------------------------------------------------------------
NetworkStates == {"unlocked", "locked", "frozen"}

(* What a router is, or should be, like.  "unknown": nothing was asked yet *)
Network == [state : NetworkStates \cup {"unknown"}, banned : SUBSET Bannable]

FreezeRule == <<"freeze", NoTeam>>
LockRule   == <<"lock", NoTeam>>

(* The two rules that cut off a team: from its players, and to them. *)
From(t) == <<"from", t>>
To(t)   == <<"to", t>>

Rules ==
  {FreezeRule, LockRule} \cup {From(t) : t \in Bannable} \cup {To(t) : t \in Bannable}

Commands == [name : NetworkStates, team : {NoTeam}] \cup
            [name : {"ban", "unban"}, team : Bannable]

StateCommand(s)  == [name |-> s, team |-> NoTeam]
TeamCommand(n, t) == [name |-> n, team |-> t]

(* clear_network_rules *)
Clear == <<<<"delete", FreezeRule>>, <<"delete", LockRule>>>>

(* Mutant: the new rule is added before the old ones are deleted. *)
ScriptInverted(c) ==
  CASE c.name = "unlocked" -> Clear
    [] c.name = "locked"   -> <<<<"append", LockRule>>>> \o Clear
    [] c.name = "frozen"   -> <<<<"append", FreezeRule>>>> \o Clear
    [] c.name = "ban"      -> <<<<"ensure", From(c.team)>>, <<"ensure", To(c.team)>>>>
    [] c.name = "unban"    -> <<<<"delete", From(c.team)>>, <<"delete", To(c.team)>>>>

(* ctfroute.sh: the iptables calls of a command. *)
Script(c) ==
  CASE c.name = "unlocked" -> Clear
    [] c.name = "locked"   -> Clear \o <<<<"append", LockRule>>>>
    [] c.name = "frozen"   -> Clear \o <<<<"append", FreezeRule>>>>
    [] c.name = "ban"      -> <<<<"ensure", From(c.team)>>, <<"ensure", To(c.team)>>>>
    [] c.name = "unban"    -> <<<<"delete", From(c.team)>>, <<"delete", To(c.team)>>>>

(* ctfroute status *)
StateOf(r) ==
  IF rules[r][FreezeRule] > 0 THEN "frozen"
  ELSE IF rules[r][LockRule] > 0 THEN "locked"
  ELSE "unlocked"

BannedAt(r) == {t \in Bannable : rules[r][From(t)] > 0 \/ rules[r][To(t)] > 0}

Processes == Callers \cup {Agent}

(* send: the routers the call has not reached yet; after: what follows a   *)
(* broadcast; bans: the teams still to be cut off again.                   *)
Calls ==
  [step : {"idle", "remember", "send", "reload", "reapply", "boot"},
   command : Commands, send : SUBSET Routers,
   after : {"idle", "reload", "reapply", "boot"}, bans : SUBSET Bannable]

NoCall == [step |-> "idle", command |-> StateCommand("frozen"), send |-> {},
           after |-> "idle", bans |-> {}]

Broadcast(command, after, bans) ==
  [step |-> "send", command |-> command, send |-> Routers, after |-> after, bans |-> bans]

(* applyNetworkBans: main's at boot, or the reload button's. *)
Reapplying(step, bans) == [NoCall EXCEPT !.step = step, !.bans = bans]

(* main has not started the servers and the round loop yet. *)
Booting == \E c \in Callers : "boot" \in {caller[c].step, caller[c].after}

(* seen: what ctfroute status said; wanted: what the control node said.    *)
Agents ==
  [step : {"asleep", "asking", "fixing"}, seen : Network, wanted : Network]

Asleep == [step |-> "asleep", seen |-> [state |-> "unknown", banned |-> {}],
           wanted |-> [state |-> "unknown", banned |-> {}]]

(* A router comes up frozen, unless VM_NET_LOCKED is "n", which run.py     *)
(* never sets, and without bans.                                           *)
BootRules == [rule \in Rules |-> IF rule = FreezeRule THEN 1 ELSE 0]

NetworkTypeOK ==
  /\ stored \in Network
  /\ published \in Network
  /\ caller \in [Callers -> Calls]
  /\ rules \in [Routers -> [Rules -> Nat]]
  /\ \A r \in Routers, p \in Processes :
       \A i \in DOMAIN script[r][p] :
         script[r][p][i] \in {"delete", "append", "ensure"} \X Rules
  /\ agent \in [Routers -> Agents]
  /\ orders \in 0..MaxOrders /\ reboots \in 0..MaxReboots
  /\ restarts \in 0..MaxRestarts
  /\ asked \subseteq NetworkStates

NetworkInit ==
  /\ stored = [state |-> "unknown", banned |-> {}]
  /\ published = stored
  /\ caller = [c \in Callers |-> NoCall]
  /\ rules = [r \in Routers |-> BootRules]
  /\ script = [r \in Routers |-> [p \in Processes |-> <<>>]]
  /\ agent = [r \in Routers |-> Asleep]
  /\ orders = 0 /\ reboots = 0 /\ restarts = 0
  /\ asked = {}

-----------------------------------------------------------------------------
(* The control node.                                                       *)

Order(c) ==
  /\ ~Booting
  /\ caller[c].step = "idle"
  /\ orders < MaxOrders
  /\ orders' = orders + 1

(* setNetworkTo: the setting first... *)
OrderState(c, s) ==
  /\ Order(c)
  /\ stored' = [stored EXCEPT !.state = s]
  /\ asked' = asked \cup {s}
  /\ caller' = [caller EXCEPT ![c] =
                  [Broadcast(StateCommand(s), "idle", {}) EXCEPT !.step = "remember"]]
  /\ UNCHANGED <<published, routerVars, reboots, restarts>>

(* ...then memory... *)
Remember(c) ==
  /\ caller[c].step = "remember"
  /\ published' = [published EXCEPT !.state = caller[c].command.name]
  /\ caller' = [caller EXCEPT ![c].step = "send"]
  /\ UNCHANGED <<stored, routerVars, boundVars, asked>>

(* handleAdminPatchTeam: the column, the command, and a reload at the end. *)
(* Whoever asks says whether the team is to be cut off, whatever it was.   *)
OrderBan(c, t, ban) ==
  /\ Order(c)
  /\ stored' = [stored EXCEPT !.banned = IF ban THEN stored.banned \cup {t}
                                         ELSE stored.banned \ {t}]
  /\ caller' = [caller EXCEPT ![c] =
       Broadcast(TeamCommand(IF ban THEN "ban" ELSE "unban", t), "reload", {})]
  /\ UNCHANGED <<published, routerVars, reboots, restarts, asked>>

(* handleAdminReload: memory is read again, and every ban applied again.   *)
OrderReload(c) ==
  /\ Order(c)
  /\ published' = stored
  /\ caller' = [caller EXCEPT ![c] = Reapplying("reapply", stored.banned)]
  /\ UNCHANGED <<stored, routerVars, reboots, restarts, asked>>

(* applyNetworkBans: one broadcast after the other, to the teams that were *)
(* banned when it began.                                                   *)
Reapply(c) ==
  /\ caller[c].step \in {"reapply", "boot"}
  /\ \/ /\ caller[c].bans = {}
        /\ caller' = [caller EXCEPT ![c] = NoCall]
     \/ \E t \in caller[c].bans :
          caller' = [caller EXCEPT ![c] =
            Broadcast(TeamCommand("ban", t), caller[c].step, caller[c].bans \ {t})]
  /\ UNCHANGED <<stored, published, routerVars, boundVars, asked>>

(* ctfRouteBroadcast: a router is reached, or it is not.  Its answer is    *)
(* the end of the script.  (A script left by a restart ends first.)        *)
Reach(c, r) ==
  /\ caller[c].step = "send"
  /\ r \in caller[c].send
  /\ script[r][c] = <<>>
  /\ script' = [script EXCEPT ![r][c] = Script(caller[c].command)]
  /\ caller' = [caller EXCEPT ![c].send = caller[c].send \ {r}]
  /\ UNCHANGED <<stored, published, rules, agent, boundVars, asked>>

Lose(c, r) ==
  /\ caller[c].step = "send"
  /\ r \in caller[c].send
  /\ caller' = [caller EXCEPT ![c].send = caller[c].send \ {r}]
  /\ UNCHANGED <<stored, published, routerVars, boundVars, asked>>

Sent(c) ==
  /\ caller[c].step = "send"
  /\ caller[c].send = {}
  /\ \A r \in Routers : script[r][c] = <<>>
  /\ caller' = [caller EXCEPT ![c] =
       IF caller[c].after = "idle" THEN NoCall
       ELSE [caller[c] EXCEPT !.step = caller[c].after]]
  /\ UNCHANGED <<stored, published, routerVars, boundVars, asked>>

(* ReloadState *)
Reload(c) ==
  /\ caller[c].step = "reload"
  /\ published' = stored
  /\ caller' = [caller EXCEPT ![c] = NoCall]
  /\ UNCHANGED <<stored, routerVars, boundVars, asked>>

(* The control node dies and comes back: InitState, and then main itself,  *)
(* in the place of caller c, applies the bans before it lets anybody in.   *)
(* Scripts started on a router run to their end.                           *)
Restart(c) ==
  /\ restarts < MaxRestarts
  /\ restarts' = restarts + 1
  /\ published' = stored
  /\ caller' = [[d \in Callers |-> NoCall] EXCEPT ![c] =
                  Reapplying("boot", stored.banned)]
  /\ UNCHANGED <<stored, routerVars, orders, reboots, asked>>

-----------------------------------------------------------------------------
(* The routers.                                                            *)

(* One iptables call.  Deleting removes one rule of its kind, if there is  *)
(* one; ensure is -C followed by -I when the rule is missing.              *)
RunCall(r, p) ==
  /\ script[r][p] # <<>>
  /\ LET action == Head(script[r][p])[1]
         rule   == Head(script[r][p])[2]
         n      == rules[r][rule]
         rest   == Tail(script[r][p])
     IN  \/ /\ action = "delete"
            /\ rules' = [rules EXCEPT ![r][rule] = IF n > 0 THEN n - 1 ELSE 0]
            /\ script' = [script EXCEPT ![r][p] = rest]
         \/ /\ action = "append"
            /\ rules' = [rules EXCEPT ![r][rule] = n + 1]
            /\ script' = [script EXCEPT ![r][p] = rest]
         \/ /\ action = "ensure"
            /\ script' = [script EXCEPT ![r][p] =
                            IF n > 0 THEN rest ELSE <<<<"append", rule>>>> \o rest]
            /\ UNCHANGED rules
  /\ UNCHANGED <<controlVars, agent, boundVars, asked>>

(* reconcile_network_state: what does this router look like? *)
Look(r) ==
  /\ agent[r].step = "asleep"
  /\ agent' = [agent EXCEPT ![r] =
                 [Asleep EXCEPT !.step = "asking",
                    !.seen = [state |-> StateOf(r), banned |-> BannedAt(r)]]]
  /\ UNCHANGED <<controlVars, rules, script, boundVars, asked>>

(* sync_with_control, handleNodeSync *)
Sync(r) ==
  /\ ~Booting
  /\ agent[r].step = "asking"
  /\ agent' = [agent EXCEPT ![r].step = "fixing", ![r].wanted = published]
  /\ UNCHANGED <<controlVars, rules, script, boundVars, asked>>

SyncFails(r) ==
  /\ agent[r].step = "asking"
  /\ agent' = [agent EXCEPT ![r] = Asleep]
  /\ UNCHANGED <<controlVars, rules, script, boundVars, asked>>

(* Mutant: an agent that leaves the state alone. *)
StateFixedAlways(a) == TRUE

(* What is still to be repaired: the state first, then the missing bans,   *)
(* then the stale ones.                                                    *)
StateFixed(a) == a.wanted.state \in {a.seen.state, "unknown"}
ToRestore(a)  == a.wanted.banned \ a.seen.banned
ToLift(a)     == a.seen.banned \ a.wanted.banned

(* Each command is run to its end before the next one. *)
Fixing(r) == agent[r].step = "fixing" /\ script[r][Agent] = <<>>

AgentRuns(r, command) == script' = [script EXCEPT ![r][Agent] = Script(command)]

FixState(r) ==
  /\ Fixing(r)
  /\ ~StateFixed(agent[r])
  /\ AgentRuns(r, StateCommand(agent[r].wanted.state))
  /\ agent' = [agent EXCEPT ![r].seen.state = agent[r].wanted.state]
  /\ UNCHANGED <<controlVars, rules, boundVars, asked>>

RestoreBan(r, t) ==
  /\ Fixing(r)
  /\ StateFixed(agent[r])
  /\ t \in ToRestore(agent[r])
  /\ AgentRuns(r, TeamCommand("ban", t))
  /\ agent' = [agent EXCEPT ![r].seen.banned = agent[r].seen.banned \cup {t}]
  /\ UNCHANGED <<controlVars, rules, boundVars, asked>>

LiftBan(r, t) ==
  /\ Fixing(r)
  /\ StateFixed(agent[r])
  /\ ToRestore(agent[r]) = {}
  /\ t \in ToLift(agent[r])
  /\ AgentRuns(r, TeamCommand("unban", t))
  /\ agent' = [agent EXCEPT ![r].seen.banned = agent[r].seen.banned \ {t}]
  /\ UNCHANGED <<controlVars, rules, boundVars, asked>>

Sleep(r) ==
  /\ Fixing(r)
  /\ StateFixed(agent[r])
  /\ ToRestore(agent[r]) = {} /\ ToLift(agent[r]) = {}
  /\ agent' = [agent EXCEPT ![r] = Asleep]
  /\ UNCHANGED <<controlVars, rules, script, boundVars, asked>>

Reboot(r) ==
  /\ reboots < MaxReboots
  /\ reboots' = reboots + 1
  /\ rules' = [rules EXCEPT ![r] = BootRules]
  /\ script' = [script EXCEPT ![r] = [p \in Processes |-> <<>>]]
  /\ agent' = [agent EXCEPT ![r] = Asleep]
  /\ UNCHANGED <<controlVars, orders, restarts, asked>>

-----------------------------------------------------------------------------
Control(c) == Remember(c) \/ Reapply(c) \/ Sent(c) \/ Reload(c) \/
              \E r \in Routers : Reach(c, r) \/ Lose(c, r)

Fix(r) ==
  FixState(r) \/ Sleep(r) \/ \E t \in Bannable : RestoreBan(r, t) \/ LiftBan(r, t)

NetworkNext ==
  \/ \E c \in Callers : \/ \E s \in Orders : OrderState(c, s)
                        \/ \E t \in Bannable, b \in BOOLEAN : OrderBan(c, t, b)
                        \/ OrderReload(c)
                        \/ Control(c)
                        \/ Restart(c)
  \/ \E r \in Routers : \/ \E p \in Processes : RunCall(r, p)
                        \/ Look(r) \/ Sync(r) \/ SyncFails(r) \/ Fix(r)
                        \/ Reboot(r)

NetworkSpec == NetworkInit /\ [][NetworkNext]_networkVars

(* Goroutines, scripts and the reconcile loop (which survives every        *)
(* exception) keep going; a router that keeps asking gets through at last. *)
Fairness ==
  /\ \A c \in Callers : WF_networkVars(Control(c))
  /\ \A r \in Routers, p \in Processes : WF_networkVars(RunCall(r, p))
  /\ \A r \in Routers : /\ WF_networkVars(Look(r))
                         /\ SF_networkVars(Sync(r))
                         /\ WF_networkVars(Fix(r))

FairNetworkSpec == NetworkSpec /\ Fairness

-----------------------------------------------------------------------------
(* Properties.                                                             *)

Settled(r) == \A p \in Processes : script[r][p] = <<>>

(* "Routers now converge on the state the control node publishes instead   *)
(* of being told once" (README.md:161): whatever was lost, rebooted or     *)
(* interleaved, in the end every router is in the published state.         *)
AsPublished(r) ==
  /\ published.state \in {StateOf(r), "unknown"}
  /\ BannedAt(r) = published.banned

RoutersConverge == <>[](\A r \in Routers : AsPublished(r))

(* A router between commands is in a state somebody has asked for, or in   *)
(* the one it boots into, however the scripts of a router interleave.      *)
NothingUnasked ==
  \A r \in Routers : Settled(r) => StateOf(r) \in asked \cup {"frozen"}

(* "start_time - grace_time < now() < start_time: the network is locked"   *)
(* (README.md:67): it is not open before it is unlocked.                   *)
ClosedUntilUnlocked ==
  "unlocked" \notin asked => \A r \in Routers : StateOf(r) # "unlocked"

-----------------------------------------------------------------------------
(* Why nothing is unasked: the inductive invariant of the proof.           *)

IptablesCalls == {"delete", "append", "ensure"} \X Rules

Opening == {<<"delete", FreezeRule>>, <<"delete", LockRule>>}
Closing == {<<"append", FreezeRule>>, <<"append", LockRule>>}

Has(scr, call) == \E i \in DOMAIN scr : scr[i] = call

(* Only states that were asked for are stored, published and sent. *)
OnlyAsked ==
  /\ {stored.state, published.state} \subseteq asked \cup {"unknown"}
  /\ \A r \in Routers : agent[r].wanted.state \in asked \cup {"unknown"}
  /\ \A c \in Callers :
       /\ caller[c].step = "remember" => caller[c].command.team = NoTeam
       /\ caller[c].step \in {"remember", "send"} /\ caller[c].command.team = NoTeam
          => caller[c].command.name \in asked

(* A lock is there, or about to be, when one was asked for. *)
LockAsked ==
  \A r \in Routers :
    \/ "locked" \in asked
    \/ /\ rules[r][LockRule] = 0
       /\ \A p \in Processes : ~Has(script[r][p], <<"append", LockRule>>)

(* A script that opens a network nobody has unlocked closes it in the end: *)
(* its last call adds a rule again.                                        *)
ClosesAgain ==
  \A r \in Routers, p \in Processes :
    \A i \in DOMAIN script[r][p] :
      script[r][p][i] \in Opening =>
        "unlocked" \in asked \/ script[r][p][Len(script[r][p])] \in Closing

BansAreEnsured ==
  \A r \in Routers, p \in Processes :
    \A i \in DOMAIN script[r][p] :
      script[r][p][i][1] = "ensure" => script[r][p][i][2] \notin {FreezeRule, LockRule}

(* A network nobody has unlocked is closed, or somebody is closing it. *)
StaysClosed ==
  \A r \in Routers :
    \/ "unlocked" \in asked
    \/ rules[r][FreezeRule] > 0 \/ rules[r][LockRule] > 0
    \/ \E p \in Processes :
         script[r][p] # <<>> /\ script[r][p][Len(script[r][p])] \in Closing

NetworkInv ==
  /\ NetworkTypeOK
  /\ script \in [Routers -> [Processes -> Seq(IptablesCalls)]]
  /\ OnlyAsked /\ LockAsked /\ ClosesAgain /\ BansAreEnsured /\ StaysClosed

=============================================================================
