----------------------------- MODULE GameState -----------------------------
(***************************************************************************)
(* The runtime configuration of the game and its three copies:             *)
(* gameserver/src/state.go, the handlers of admin_api.go and               *)
(* vpn_profiles.go that change it, and config.go.                          *)
(*                                                                         *)
(* The database is the authority, memory (GameState) is what the server    *)
(* acts upon, config.json is what the deployment tool reads.  Organizers   *)
(* change settings, teams and VPN profiles; every call writes some copies  *)
(* one after the other, and several calls may be under way: the admin API  *)
(* takes requests concurrently and the round loop reloads the state when   *)
(* the game is resumed.  ReloadState reads the database key by key, without *)
(* a lock, and then replaces all of memory.                                *)
(*                                                                         *)
(* Settings that are handled alike are represented by one of them: tick    *)
(* for those of PATCH /settings, paused for those with a setter of their   *)
(* own.  A team is represented by the number of its last edit.             *)
(***************************************************************************)
EXTENDS Integers, Sequences

CONSTANTS
  Callers,            (* calls under way: admin requests, the round loop    *)
  Teams,
  Profiles,           (* VPN profiles                                       *)
  Ticks,              (* values of tick_time                                *)
  DefaultTick,
  MaxEdits,           (* bound: edits of a team                             *)
  MaxCrashes          (* bound: restarts of the server                      *)

ASSUME GameStateAssumption ==
  /\ DefaultTick \in Ticks
  /\ MaxEdits \in Nat
  /\ MaxCrashes \in Nat

VARIABLES
  db,                 (* tables settings and teams                          *)
  mem,                (* GameState                                          *)
  file,               (* config.json                                        *)
  call,               (* the calls                                          *)
  crashes,            (* restarts so far                                    *)
  halfDone            (* history: the copies that miss what the database    *)
                      (* got, from a request that was refused half-way or   *)
                      (* because the file could not be written              *)

vars == <<db, mem, file, call, crashes, halfDone>>

-----------------------------------------------------------------------------
Contents ==
  [tick : Ticks, paused : BOOLEAN, teams : [Teams -> 0..MaxEdits],
   profiles : SUBSET Profiles]

(* What a call is about to do. *)
Steps == {"idle", "setPaused", "patchFile", "reload", "store", "persist",
          "listTeams", "writeTeams"}

(* The keys ReloadState reads before it takes the lock, in this order. *)
ReadOrder == <<"tick", "paused", "teams">>

(* tick, paused, teams, profiles: the values the call holds; reads: how    *)
(* many keys its ReloadState has read; team: it is a team edit, which      *)
(* writes the list of teams to the file after the reload.                  *)
Calls ==
  [step : Steps, tick : Ticks, paused : BOOLEAN, teams : [Teams -> 0..MaxEdits],
   profiles : SUBSET Profiles, reads : 0..3, team : BOOLEAN]

Fresh ==
  [tick |-> DefaultTick, paused |-> FALSE, teams |-> [t \in Teams |-> 0],
   profiles |-> {}]

Idle ==
  [step |-> "idle", tick |-> DefaultTick, paused |-> FALSE,
   teams |-> [t \in Teams |-> 0], profiles |-> {}, reads |-> 0, team |-> FALSE]

TypeOK ==
  /\ db \in Contents
  /\ mem \in Contents
  /\ file \in [tick : Ticks, teams : [Teams -> 0..MaxEdits]]
  /\ call \in [Callers -> Calls]
  /\ crashes \in 0..MaxCrashes
  /\ halfDone \subseteq {"mem", "file"}

Init ==
  /\ db = Fresh
  /\ mem = Fresh
  /\ file = [tick |-> DefaultTick, teams |-> [t \in Teams |-> 0]]
  /\ call = [c \in Callers |-> Idle]
  /\ crashes = 0
  /\ halfDone = {}

At(c, s) == call[c].step = s

End(c) == call' = [call EXCEPT ![c] = Idle]

-----------------------------------------------------------------------------
(* SetGamePaused: the database first, then memory. *)
WritePaused(c, p) ==
  /\ At(c, "idle")
  /\ db' = [db EXCEPT !.paused = p]
  /\ call' = [call EXCEPT ![c] = [Idle EXCEPT !.step = "setPaused", !.paused = p]]
  /\ UNCHANGED <<mem, file, crashes, halfDone>>

SetPaused(c) ==
  /\ At(c, "setPaused")
  /\ mem' = [mem EXCEPT !.paused = call[c].paused]
  /\ End(c)
  /\ UNCHANGED <<db, file, crashes, halfDone>>

(* handleAdminPatchSettings writes the settings of the patch one by one.   *)
(* A time that does not parse ends it there: neither file nor memory       *)
(* learn of what is already written.                                       *)
PatchSettings(c, t) ==
  /\ At(c, "idle")
  /\ db' = [db EXCEPT !.tick = t]
  /\ \/ /\ call' = [call EXCEPT ![c] = [Idle EXCEPT !.step = "patchFile",
                                                   !.tick = t]]
        /\ UNCHANGED halfDone
     \/ /\ halfDone' = {"mem", "file"}
        /\ UNCHANGED call
  /\ UNCHANGED <<mem, file, crashes>>

(* patchConfigFile: reads and writes the file under configMutationLock.    *)
(* An error is logged, and the call goes on as if the file were written.   *)
PatchFile(c) ==
  /\ At(c, "patchFile")
  /\ \/ /\ file' = [file EXCEPT !.tick = call[c].tick]
        /\ halfDone' = halfDone \ {"file"}
     \/ /\ halfDone' = halfDone \cup {"file"}
        /\ UNCHANGED file
  /\ call' = [call EXCEPT ![c].step = "reload"]
  /\ UNCHANGED <<db, mem, crashes>>

(* handleAdminPatchTeam: one UPDATE, then a reload. *)
PatchTeam(c, t) ==
  /\ At(c, "idle")
  /\ db.teams[t] < MaxEdits
  /\ db' = [db EXCEPT !.teams[t] = db.teams[t] + 1]
  /\ call' = [call EXCEPT ![c] = [Idle EXCEPT !.step = "reload", !.team = TRUE]]
  /\ UNCHANGED <<mem, file, crashes, halfDone>>

(* handleAdminReload, or the round loop after a pause. *)
StartReload(c) ==
  /\ At(c, "idle")
  /\ call' = [call EXCEPT ![c] = [Idle EXCEPT !.step = "reload"]]
  /\ UNCHANGED <<db, mem, file, crashes, halfDone>>

(* ReloadState reads the next key. *)
ReadKey(c) ==
  /\ At(c, "reload")
  /\ LET key  == ReadOrder[call[c].reads + 1]
         n    == call[c].reads + 1
         read == [call[c] EXCEPT !.reads = n,
                                 !.step = IF n = Len(ReadOrder) THEN "store" ELSE "reload"]
     IN  call' = [call EXCEPT ![c] = [read EXCEPT ![key] = db[key]]]
  /\ UNCHANGED <<db, mem, file, crashes, halfDone>>

(* Mutant: the teams are not among what is replaced. *)
LoadedButTeams(c) == [tick |-> call[c].tick, paused |-> call[c].paused,
                      teams |-> mem.teams, profiles |-> db.profiles]

(* It replaces memory; the profiles are read under the lock. *)
Loaded(c) == [tick |-> call[c].tick, paused |-> call[c].paused,
              teams |-> call[c].teams, profiles |-> db.profiles]

Store(c) ==
  /\ At(c, "store")
  /\ mem' = Loaded(c)
  /\ call' = IF call[c].team THEN [call EXCEPT ![c].step = "listTeams"]
             ELSE [call EXCEPT ![c] = Idle]
  /\ halfDone' = halfDone \ {"mem"}
  /\ UNCHANGED <<db, file, crashes>>

(* syncTeamsToConfigFile lists the teams of memory, then writes the list,  *)
(* or logs that it cannot.                                                 *)
ListTeams(c) ==
  /\ At(c, "listTeams")
  /\ call' = [call EXCEPT ![c].teams = mem.teams, ![c].step = "writeTeams"]
  /\ UNCHANGED <<db, mem, file, crashes, halfDone>>

WriteTeams(c) ==
  /\ At(c, "writeTeams")
  /\ file' \in {file, [file EXCEPT !.teams = call[c].teams]}
  /\ End(c)
  /\ UNCHANGED <<db, mem, crashes, halfDone>>

(* SetProfileSuspended: memory first, under the lock; the list that comes  *)
(* out of it is written to the database after the lock is released.        *)
SuspendProfile(c, p, suspended) ==
  /\ At(c, "idle")
  /\ mem' = [mem EXCEPT !.profiles =
               IF suspended THEN mem.profiles \cup {p} ELSE mem.profiles \ {p}]
  /\ call' = [call EXCEPT ![c] = [Idle EXCEPT !.step = "persist",
                                              !.profiles = mem'.profiles]]
  /\ UNCHANGED <<db, file, crashes, halfDone>>

Persisted(c) == call[c].profiles

PersistProfiles(c) ==
  /\ At(c, "persist")
  /\ db' = [db EXCEPT !.profiles = Persisted(c)]
  /\ End(c)
  /\ UNCHANGED <<mem, file, crashes, halfDone>>

(* The server dies, and InitState loads everything from the database. *)
Restart ==
  /\ crashes < MaxCrashes
  /\ crashes' = crashes + 1
  /\ mem' = db
  /\ call' = [c \in Callers |-> Idle]
  /\ halfDone' = halfDone \ {"mem"}
  /\ UNCHANGED <<db, file>>

Next ==
  \/ Restart
  \/ \E c \in Callers :
       \/ \E p \in BOOLEAN : WritePaused(c, p)
       \/ SetPaused(c)
       \/ \E t \in Ticks : PatchSettings(c, t)
       \/ PatchFile(c)
       \/ \E t \in Teams : PatchTeam(c, t)
       \/ StartReload(c) \/ ReadKey(c) \/ Store(c)
       \/ ListTeams(c) \/ WriteTeams(c)
       \/ \E p \in Profiles, s \in BOOLEAN : SuspendProfile(c, p, s)
       \/ PersistProfiles(c)

Spec == Init /\ [][Next]_vars

-----------------------------------------------------------------------------
(* Properties.                                                             *)

Quiet == \A c \in Callers : At(c, "idle")

(* When calls do not overlap, memory follows the database: whenever no     *)
(* call is under way they agree, but for what a refused request left       *)
(* behind, which the next reload picks up.                                 *)
Follows(copy, original) ==
  /\ "mem" \notin halfDone => copy.tick = original.tick
  /\ copy.paused = original.paused
  /\ copy.teams = original.teams
  /\ copy.profiles = original.profiles

MemoryFollows == Quiet => Follows(mem, db)

(* "copied into GameState at boot and from then on the database is the     *)
(* authority (see state.go)" (config.go:53): once a pause, or the end of   *)
(* one, is in the database and no call is under way, the server obeys it.  *)
PauseIsObeyed == Quiet => mem.paused = db.paused

(* "The suspended set is stored on the control node" (README.md:342): a    *)
(* profile whose suspension is over and done with is in the database.      *)
SuspensionsAreStored == Quiet => db.profiles = mem.profiles

(* "two concurrent admin requests cannot lose each other's changes"        *)
(* (config.go:113): an edit of a team that is in the file stays there.     *)
TeamsStayInFile ==
  [][\A t \in Teams : file'.teams[t] >= file.teams[t]]_vars

(* ------- The inductive invariant behind MemoryFollows. ----------------- *)

(* What a call still has to do is what memory and database differ in.      *)
InProgress(c) ==
  /\ At(c, "idle") \/ At(c, "listTeams") \/ At(c, "writeTeams") => Follows(mem, db)
  /\ At(c, "setPaused") =>
       Follows([mem EXCEPT !.paused = call[c].paused], db)
  /\ At(c, "patchFile") \/ At(c, "reload") \/ At(c, "store") =>
       mem.profiles = db.profiles
  /\ At(c, "patchFile") => call[c].reads = 0
  /\ At(c, "reload") => /\ call[c].reads < 3
                        /\ call[c].reads >= 1 => call[c].tick = db.tick
                        /\ call[c].reads >= 2 => call[c].paused = db.paused
  /\ At(c, "store") => /\ call[c].tick = db.tick
                       /\ call[c].paused = db.paused
                       /\ call[c].teams = db.teams
  /\ At(c, "persist") =>
       Follows(mem, [db EXCEPT !.profiles = call[c].profiles])

IInv == TypeOK /\ \A c \in Callers : InProgress(c)
=============================================================================
