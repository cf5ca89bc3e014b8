----------------------------- MODULE ControlRoom -----------------------------
(***************************************************************************)
(* The control room of one organizer, next to the server it controls:      *)
(* gameserver/frontend, AdminPage.tsx, admin.ts and the panels under       *)
(* components/admin, over the handlers of GameState.                       *)
(*                                                                         *)
(* The page polls what the server has in memory, and asks for it again     *)
(* whenever a call of its own has succeeded.  It survives everything that  *)
(* may happen between a click and its answer: another organizer changes    *)
(* the same thing, the server is restarted, the answer gets lost.          *)
(*                                                                         *)
(* panel is the query of the overview, the one that is asked again every   *)
(* five seconds; those of the other panels are asked again after a call    *)
(* and when the window gets the focus only.  The buttons with an explicit      *)
(* value (pause, network, freeze, bans) are represented by pause, the      *)
(* forms with a Save button (settings, team, service) by the settings.     *)
(***************************************************************************)
EXTENDS GameState

CONSTANTS
  me,                 (* the organizer at this browser                      *)
  Sent,               (* a request that is on its way to the server         *)
  None                (* nothing                                            *)

ASSUME ControlRoomAssumption ==
  /\ me \in Callers
  /\ None \notin BOOLEAN /\ None \notin Ticks
  /\ Sent \notin BOOLEAN /\ Sent # None

VARIABLES
  panel,              (* query ["admin", "overview"]                        *)
  click,              (* the mutation under way                             *)
  meant               (* history: what calls of mine that succeeded have    *)
                      (* set, and nobody else has set since                 *)

roomVars == <<vars, panel, click, meant>>

-----------------------------------------------------------------------------
(* Of the answer only game_paused decides over what a click does. *)
Shown == BOOLEAN

Choices == [tick : Ticks \cup {None}, paused : BOOLEAN \cup {None}]

(* wire: the request under way, or what it brings; behind (history): what  *)
(* was read before the last call that succeeded was over.                  *)
RoomTypeOK ==
  /\ panel \in [data : Shown \cup {None}, wire : Shown \cup {Sent, None},
                behind : SUBSET {"data", "wire"}]
  /\ click \in [reply : {"none", "wait", "error"}, sets : Choices]
  /\ meant \in Choices

NoChoice == [tick |-> None, paused |-> None]

NoPanel == [data |-> None, wire |-> Sent, behind |-> {}]

NoClick == [reply |-> "none", sets |-> NoChoice]

Refused == [reply |-> "error", sets |-> NoChoice]

RoomInit ==
  /\ Init
  /\ panel = NoPanel
  /\ click = NoClick
  /\ meant = NoChoice

-----------------------------------------------------------------------------
(* The query.                                                              *)

(* A request is sent; what one under way brings is forgotten. *)
Fetch(q) == [q EXCEPT !.wire = Sent, !.behind = q.behind \ {"wire"}]

(* Mutant: the page asks once, and again only after calls of its own. *)
DueOnce == panel.wire = None /\ panel.data = None

(* refetchInterval of the overview, and when the window gets the focus. *)
Due == panel.wire = None

Poll ==
  /\ Due
  /\ panel' = Fetch(panel)
  /\ UNCHANGED <<vars, click, meant>>

(* The server answers with what it has in memory. *)
Serve ==
  /\ panel.wire = Sent
  /\ panel' = [panel EXCEPT !.wire = mem.paused]
  /\ UNCHANGED <<vars, click, meant>>

Receive ==
  /\ panel.wire \in Shown
  /\ panel' = [data |-> panel.wire, wire |-> None,
               behind |-> IF "wire" \in panel.behind THEN {"data"} ELSE {}]
  /\ UNCHANGED <<vars, click, meant>>

(* An attempt fails and is repeated; after three of them an alert takes    *)
(* the place of the panels, until a later poll succeeds.                   *)
Miss ==
  /\ panel.wire # None
  /\ panel' \in {Fetch(panel), [NoPanel EXCEPT !.wire = None]}
  /\ UNCHANGED <<vars, click, meant>>

(* The page is opened again. *)
Reopen ==
  /\ panel' = NoPanel
  /\ click' = NoClick
  /\ UNCHANGED <<vars, meant>>

-----------------------------------------------------------------------------
(* Clicks.  A button is disabled while its call is under way, and calls    *)
(* are made one at a time.                                                 *)

Usable == panel.data # None

Forget(old, new) ==
  [tick   |-> IF new.tick # None THEN None ELSE old.tick,
   paused |-> IF new.paused # None THEN None ELSE old.paused]

Learn(old, new) ==
  [tick   |-> IF new.tick # None THEN new.tick ELSE old.tick,
   paused |-> IF new.paused # None THEN new.paused ELSE old.paused]

(* The call starts; a patch that is refused has ended at once. *)
Click(sets) ==
  /\ Usable /\ Quiet /\ click.reply = "none"
  /\ click' = IF call'[me].step = "idle" THEN Refused
              ELSE [reply |-> "wait", sets |-> sets]
  /\ meant' = Forget(meant, sets)
  /\ UNCHANGED panel

(* Mutant: the call turns over whatever the server has. *)
WantedToggled == ~mem.paused

(* The button says what it does, and sends it. *)
Wanted == ~panel.data

PauseOrResume ==
  /\ Usable
  /\ WritePaused(me, Wanted)
  /\ Click([NoChoice EXCEPT !.paused = ~panel.data])

(* SettingsPanel sends what is in its fields: what was in memory when the  *)
(* panel was opened, or what was typed since.                              *)
SaveSettings ==
  \E t \in Ticks :
    /\ PatchSettings(me, t)
    /\ Click([NoChoice EXCEPT !.tick = t])

(* TeamRow: a team is saved, banned, or gets a new token. *)
SaveTeam ==
  /\ \E t \in Teams : PatchTeam(me, t)
  /\ Click(NoChoice)

(* ServiceRow, and "Reload state": services are not among the contents, so *)
(* that the reload is what is left of them.                                *)
SaveService ==
  /\ StartReload(me)
  /\ Click(NoChoice)

(* VpnProfilesPanel: the switch of a profile. *)
ToggleProfile ==
  /\ \E p \in Profiles, s \in BOOLEAN : SuspendProfile(me, p, s)
  /\ Click(NoChoice)

(* Mutant: what is under way is taken for an answer. *)
InvalidatedJoining(q) ==
  IF q.wire = None THEN Fetch(q)
  ELSE [q EXCEPT !.behind = q.behind \cup (IF q.wire = Sent THEN {} ELSE {"wire"})]

(* invalidateQueries asks again, whatever is under way. *)
Invalidated(q) == Fetch(q)

(* useAdminMutation: the call has succeeded. *)
Succeed ==
  /\ click.reply = "wait"
  /\ At(me, "idle")
  /\ panel' = Invalidated([panel EXCEPT !.behind = {"data"}])
  /\ meant' = Learn(meant, click.sets)
  /\ click' = NoClick
  /\ UNCHANGED vars

(* It was refused, or its answer gets lost; the server may be still at it. *)
Fails ==
  /\ click.reply # "none"
  /\ click' = NoClick
  /\ UNCHANGED <<vars, panel, meant>>

-----------------------------------------------------------------------------
(* Everybody else; a call goes on.                                         *)

Continue(c) ==
  /\ SetPaused(c) \/ PatchFile(c) \/ ReadKey(c) \/ Store(c) \/ ListTeams(c)
     \/ WriteTeams(c) \/ PersistProfiles(c)
  /\ UNCHANGED <<panel, click, meant>>

OthersCall(c) ==
  /\ Quiet /\ click.reply # "wait"
  /\ \/ /\ \E p \in BOOLEAN : WritePaused(c, p)
        /\ meant' = [meant EXCEPT !.paused = None]
     \/ /\ \E t \in Ticks : PatchSettings(c, t)
        /\ meant' = [meant EXCEPT !.tick = None]
     \/ /\ \/ \E t \in Teams : PatchTeam(c, t)
           \/ StartReload(c)
           \/ \E p \in Profiles, s \in BOOLEAN : SuspendProfile(c, p, s)
        /\ UNCHANGED meant
  /\ UNCHANGED <<panel, click>>

(* The connections of the server break with it. *)
ServerRestart ==
  /\ Restart
  /\ click' = IF click.reply = "wait" THEN Refused ELSE click
  /\ UNCHANGED <<panel, meant>>

RoomNext ==
  \/ Poll \/ Serve \/ Receive \/ Miss \/ Reopen
  \/ PauseOrResume \/ SaveSettings \/ SaveTeam \/ SaveService \/ ToggleProfile
  \/ Succeed \/ Fails
  \/ \E c \in Callers : Continue(c)
  \/ \E c \in Callers \ {me} : OthersCall(c)
  \/ ServerRestart

(* The interval of the query goes on ticking, and not every request and    *)
(* not every answer gets lost.                                             *)
RoomFairness ==
  /\ WF_roomVars(Poll)
  /\ SF_roomVars(Serve)
  /\ SF_roomVars(Receive)

RoomSpec == RoomInit /\ [][RoomNext]_roomVars

FairRoomSpec == RoomSpec /\ RoomFairness

-----------------------------------------------------------------------------
(* Properties.                                                             *)

(* "Changes take effect immediately and are written back to config.json,   *)
(* so a restart keeps them" (SettingsPanel.tsx:55): what a call of mine    *)
(* has set holds in memory, database and file, restarts included, until    *)
(* somebody sets it again.  The pause button does what its label said when *)
(* it was clicked, whatever the game has become in the meantime.  The      *)
(* server does not tell when it could not write the file: then the promise *)
(* holds for memory and database only.                                     *)
InFile(tick) == "file" \notin halfDone => file.tick = tick

PromisesHold ==
  Quiet =>
    /\ meant.paused # None => meant.paused = mem.paused /\ meant.paused = db.paused
    /\ meant.tick # None => /\ meant.tick = mem.tick /\ meant.tick = db.tick
                            /\ InFile(meant.tick)

(* Once the page has asked again after a click, what it shows was read     *)
(* after that call was over: the next click is made on what the first one  *)
(* has done (useAdminMutation).                                            *)
OwnChangesShown == Usable /\ panel.wire = None => "data" \notin panel.behind

(* What others do is shown, too: a game that stays paused is shown paused  *)
(* in the overview, and one that goes on is not (refetchInterval).         *)
PanelCatchesUp ==
  \A p \in BOOLEAN :
    <>[](mem.paused = p) => <>[](panel.data # None => panel.data = p)

(* ------- The inductive invariant behind them. --------------------------- *)

(* Calls do not overlap, here: what the one under way still has to do is   *)
(* what memory and database differ in.                                     *)
OneByOne ==
  /\ \A c, d \in Callers : ~At(c, "idle") /\ ~At(d, "idle") => c = d
  /\ \A c \in Callers : ~At(c, "idle") => InProgress(c)
  /\ MemoryFollows

(* What was promised holds at every moment, and a call that sets something *)
(* else has withdrawn it first.                                            *)
Kept ==
  /\ meant.paused # None => meant.paused = mem.paused /\ meant.paused = db.paused
  /\ meant.tick # None => /\ meant.tick = mem.tick /\ meant.tick = db.tick
                          /\ InFile(meant.tick)
  /\ \A c \in Callers : /\ At(c, "setPaused") => meant.paused = None
                        /\ At(c, "patchFile") => meant.tick = None

(* What a call of mine has written by now of what its success will promise. *)
Awaited ==
  click.reply = "wait" =>
    /\ \A c \in Callers \ {me} : At(c, "idle")
    /\ click.sets.paused # None => db.paused = click.sets.paused
    /\ click.sets.tick # None =>
         /\ call[me].step \in {"patchFile", "reload", "store", "idle"}
         /\ ~call[me].team
         /\ db.tick = click.sets.tick
         /\ IF At(me, "patchFile") THEN call[me].tick = click.sets.tick
            ELSE InFile(click.sets.tick)
         /\ At(me, "idle") => mem.tick = click.sets.tick

(* Data that is older than a call of mine is about to be replaced.         *)
Refetching ==
  /\ "wire" \notin panel.behind
  /\ "data" \in panel.behind => panel.wire # None

RoomInv == TypeOK /\ RoomTypeOK /\ OneByOne /\ Kept /\ Awaited /\ Refetching
=============================================================================
