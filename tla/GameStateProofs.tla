-------------------------- MODULE GameStateProofs --------------------------
(* Calls that do not overlap keep memory and database in step, whatever    *)
(* the teams, profiles and values: one caller, and the control room of one *)
(* organizer among others.                                                 *)
EXTENDS ControlRoom, TLAPS

USE GameStateAssumption DEF GameStateAssumption

(* Calls are made one at a time. *)
OneAtATime == \E c : Callers = {c}

LEMMA IdleType == Idle \in Calls
BY DEF Idle, Calls, Steps

(* A reload that is under way has a key left to read. *)
KeyLeft == \A c \in Callers :
  At(c, "patchFile") \/ At(c, "reload") => call[c].reads < 3

TypeInv == TypeOK /\ KeyLeft

LEMMA InitType == Init => TypeInv
<1> SUFFICES ASSUME Init PROVE TypeInv
  OBVIOUS
<1>1. Fresh \in Contents
  BY DEF Fresh, Contents
<1>2. TypeOK
  BY <1>1, IdleType DEF Init, TypeOK
<1>3. \A c \in Callers : At(c, "idle")
  BY DEF Init, At, Idle
<1> QED
  BY <1>2, <1>3 DEF TypeInv, KeyLeft, At

(***************************************************************************)
(* Type correctness is preserved.                                          *)
(***************************************************************************)
LEMMA TypeStep ==
  ASSUME TypeInv, [Next]_vars
  PROVE  TypeOK'
<1>0. /\ TypeOK
      /\ \A c \in Callers : At(c, "reload") => call[c].reads < 3
  BY DEF TypeInv, KeyLeft
<1>1. CASE UNCHANGED vars
  BY <1>0, <1>1 DEF vars, TypeOK
<1>2. CASE Restart
  BY <1>0, <1>2, IdleType DEF TypeOK, Restart
<1>3. ASSUME NEW c \in Callers, NEW p \in BOOLEAN, WritePaused(c, p)
      PROVE  TypeOK'
  <2>1. [db EXCEPT !.paused = p] \in Contents
    BY <1>0 DEF TypeOK, Contents
  <2>2. [Idle EXCEPT !.step = "setPaused", !.paused = p] \in Calls
    BY IdleType DEF Calls, Steps
  <2> QED
    BY <1>0, <1>3, <2>1, <2>2 DEF TypeOK, WritePaused
<1>4. ASSUME NEW c \in Callers, SetPaused(c)
      PROVE  TypeOK'
  <2>1. [mem EXCEPT !.paused = call[c].paused] \in Contents
    BY <1>0 DEF TypeOK, Contents, Calls
  <2> QED
    BY <1>0, <1>4, <2>1, IdleType DEF TypeOK, SetPaused, End
<1>5. ASSUME NEW c \in Callers, NEW t \in Ticks, PatchSettings(c, t)
      PROVE  TypeOK'
  <2>1. [db EXCEPT !.tick = t] \in Contents
    BY <1>0 DEF TypeOK, Contents
  <2>2. [Idle EXCEPT !.step = "patchFile", !.tick = t] \in Calls
    BY IdleType DEF Calls, Steps
  <2> QED
    BY <1>0, <1>5, <2>1, <2>2 DEF TypeOK, PatchSettings
<1>6. ASSUME NEW c \in Callers, PatchFile(c)
      PROVE  TypeOK'
  <2>1. [call[c] EXCEPT !.step = "reload"] \in Calls
    BY <1>0 DEF TypeOK, Calls, Steps
  <2>2. [file EXCEPT !.tick = call[c].tick] \in [tick : Ticks, teams : [Teams -> 0..MaxEdits]]
    BY <1>0 DEF TypeOK, Calls
  <2> QED
    BY <1>0, <1>6, <2>1, <2>2 DEF TypeOK, PatchFile
<1>7. ASSUME NEW c \in Callers, NEW t \in Teams, PatchTeam(c, t)
      PROVE  TypeOK'
  <2>1. db.teams[t] + 1 \in 0..MaxEdits
    BY <1>0, <1>7 DEF TypeOK, Contents, PatchTeam
  <2>2. [db EXCEPT !.teams[t] = db.teams[t] + 1] \in Contents
    BY <1>0, <2>1 DEF TypeOK, Contents
  <2>3. [Idle EXCEPT !.step = "reload", !.team = TRUE] \in Calls
    BY IdleType DEF Calls, Steps
  <2> QED
    BY <1>0, <1>7, <2>2, <2>3 DEF TypeOK, PatchTeam
<1>8. ASSUME NEW c \in Callers, StartReload(c)
      PROVE  TypeOK'
  <2>1. [Idle EXCEPT !.step = "reload"] \in Calls
    BY IdleType DEF Calls, Steps
  <2> QED
    BY <1>0, <1>8, <2>1 DEF TypeOK, StartReload
<1>9. ASSUME NEW c \in Callers, ReadKey(c)
      PROVE  TypeOK'
  <2>1. call' \in [Callers -> Calls]
    <3> DEFINE n == call[c].reads + 1
               read == [call[c] EXCEPT !.reads = n,
                                       !.step = IF n = Len(ReadOrder) THEN "store" ELSE "reload"]
               step == IF n = Len(ReadOrder) THEN "store" ELSE "reload"
    <3>1. call[c] \in Calls /\ n \in {1, 2, 3}
      BY <1>0, <1>9 DEF TypeOK, ReadKey, Calls
    <3>7. step \in Steps
      BY DEF Steps
    <3>2. read \in Calls
      <4> HIDE DEF n, step
      <4>1. n \in 0..3
        BY <3>1
      <4>2. [call[c] EXCEPT !.reads = n, !.step = step] \in Calls
        BY <3>1, <3>7, <4>1 DEF Calls
      <4> QED
        BY <4>2 DEF step
    <3>3. ReadOrder[n] \in {"tick", "paused", "teams"}
      BY <3>1 DEF ReadOrder
    <3>4. db.tick \in Ticks /\ db.paused \in BOOLEAN /\ db.teams \in [Teams -> 0..MaxEdits]
      BY <1>0 DEF TypeOK, Contents
    <3>5. call' = [call EXCEPT ![c] = [read EXCEPT ![ReadOrder[n]] = db[ReadOrder[n]]]]
      BY <1>9 DEF ReadKey
    <3> HIDE DEF read, n
    <3>6. [read EXCEPT ![ReadOrder[n]] = db[ReadOrder[n]]] \in Calls
      <4>1. CASE ReadOrder[n] = "tick"
        BY <3>2, <3>4, <4>1 DEF Calls
      <4>2. CASE ReadOrder[n] = "paused"
        BY <3>2, <3>4, <4>2 DEF Calls
      <4>3. CASE ReadOrder[n] = "teams"
        BY <3>2, <3>4, <4>3 DEF Calls
      <4> QED
        BY <3>3, <4>1, <4>2, <4>3
    <3> QED
      BY <1>0, <3>5, <3>6 DEF TypeOK
  <2> QED
    BY <1>0, <1>9, <2>1 DEF TypeOK, ReadKey
<1>10. ASSUME NEW c \in Callers, Store(c)
       PROVE  TypeOK'
  <2>1. Loaded(c) \in Contents
    BY <1>0 DEF TypeOK, Contents, Calls, Loaded
  <2>2. [call[c] EXCEPT !.step = "listTeams"] \in Calls
    BY <1>0 DEF TypeOK, Calls, Steps
  <2> QED
    BY <1>0, <1>10, <2>1, <2>2, IdleType DEF TypeOK, Store
<1>11. ASSUME NEW c \in Callers, ListTeams(c)
       PROVE  TypeOK'
  <2> DEFINE listing == [call[c] EXCEPT !.teams = mem.teams, !.step = "writeTeams"]
  <2>1. listing \in Calls
    <3>1. call[c] \in Calls /\ mem.teams \in [Teams -> 0..MaxEdits] /\ "writeTeams" \in Steps
      BY <1>0 DEF TypeOK, Contents, Steps
    <3> QED
      BY <3>1 DEF Calls
  <2>2. call' = [call EXCEPT ![c] = listing]
    BY <1>0, <1>11 DEF TypeOK, ListTeams
  <2> HIDE DEF listing
  <2> QED
    BY <1>0, <1>11, <2>1, <2>2 DEF TypeOK, ListTeams
<1>12. ASSUME NEW c \in Callers, WriteTeams(c)
       PROVE  TypeOK'
  <2>1. [file EXCEPT !.teams = call[c].teams] \in [tick : Ticks, teams : [Teams -> 0..MaxEdits]]
    BY <1>0 DEF TypeOK, Calls
  <2> QED
    BY <1>0, <1>12, <2>1, IdleType DEF TypeOK, WriteTeams, End
<1>13. ASSUME NEW c \in Callers, NEW p \in Profiles, NEW s \in BOOLEAN,
              SuspendProfile(c, p, s)
       PROVE  TypeOK'
  <2> DEFINE profiles == IF s THEN mem.profiles \cup {p} ELSE mem.profiles \ {p}
  <2>1. profiles \subseteq Profiles
    BY <1>0 DEF TypeOK, Contents
  <2>2. mem' = [mem EXCEPT !.profiles = profiles]
    BY <1>13 DEF SuspendProfile
  <2>3. mem' \in Contents /\ mem'.profiles \subseteq Profiles
    BY <1>0, <2>1, <2>2 DEF TypeOK, Contents
  <2>4. [Idle EXCEPT !.step = "persist", !.profiles = mem'.profiles] \in Calls
    BY <2>3, IdleType DEF Calls, Steps
  <2> QED
    BY <1>0, <1>13, <2>3, <2>4 DEF TypeOK, SuspendProfile
<1>14. ASSUME NEW c \in Callers, PersistProfiles(c)
       PROVE  TypeOK'
  <2>1. [db EXCEPT !.profiles = call[c].profiles] \in Contents
    BY <1>0 DEF TypeOK, Contents, Calls
  <2> QED
    BY <1>0, <1>14, <2>1, IdleType DEF TypeOK, PersistProfiles, Persisted, End
<1> QED
  BY <1>1, <1>2, <1>3, <1>4, <1>5, <1>6, <1>7, <1>8, <1>9, <1>10, <1>11, <1>12,
     <1>13, <1>14 DEF Next

LEMMA KeyLeftStep ==
  ASSUME TypeInv, [Next]_vars
  PROVE  KeyLeft'
<1> SUFFICES ASSUME NEW d \in Callers, (At(d, "patchFile") \/ At(d, "reload"))'
             PROVE  (call[d].reads < 3)'
  BY DEF KeyLeft
<1>0. /\ TypeOK /\ KeyLeft
      /\ \A c \in Callers : call[c] \in Calls
  BY DEF TypeInv, TypeOK
<1>1. CASE call'[d] = call[d]
  BY <1>0, <1>1 DEF KeyLeft, At
<1>2. CASE call'[d] # call[d]
  <2>1. CASE Restart
    BY <2>1 DEF Restart, At, Idle
  <2>2. ASSUME NEW c \in Callers, ReadKey(c)
        PROVE  (call[d].reads < 3)'
    <3>1. c = d
      BY <1>0, <1>2, <2>2 DEF ReadKey, TypeOK
    <3> DEFINE n == call[d].reads + 1
    <3>2. n \in {1, 2, 3}
      BY <1>0, <2>2, <3>1 DEF ReadKey, Calls, KeyLeft, At
    <3>3. ReadOrder[n] \in {"tick", "paused", "teams"}
      BY <3>2 DEF ReadOrder
    <3>4. call'[d].reads = n /\ call'[d].step = IF n = 3 THEN "store" ELSE "reload"
      <4> DEFINE read == [call[d] EXCEPT !.reads = n,
                            !.step = IF n = Len(ReadOrder) THEN "store" ELSE "reload"]
      <4>1. call'[d] = [read EXCEPT ![ReadOrder[n]] = db[ReadOrder[n]]]
        BY <1>0, <2>2, <3>1 DEF ReadKey, TypeOK
      <4>2. read.reads = n /\ read.step = IF n = 3 THEN "store" ELSE "reload"
        BY <1>0 DEF Calls, ReadOrder
      <4>3. read \in [DOMAIN call[d] -> UNION {{read[f]} : f \in DOMAIN call[d]}]
        OBVIOUS
      <4> HIDE DEF read, n
      <4> QED
        BY <3>3, <4>1, <4>2, <4>3
    <3> QED
      BY <3>2, <3>4 DEF At
  <2>3. ASSUME NEW c \in Callers, PatchFile(c)
        PROVE  (call[d].reads < 3)'
    BY <1>0, <1>2, <2>3 DEF PatchFile, TypeOK, Calls, KeyLeft, At
  <2>4. ASSUME NEW c \in Callers,
               \/ SetPaused(c) \/ WriteTeams(c) \/ PersistProfiles(c) \/ ListTeams(c)
               \/ Store(c)
        PROVE  FALSE
    BY <1>0, <1>2, <2>4 DEF SetPaused, WriteTeams, PersistProfiles, ListTeams, Store,
       End, TypeOK, Calls, At, Idle
  <2>5. ASSUME NEW c \in Callers,
               \/ StartReload(c)
               \/ \E p \in BOOLEAN : WritePaused(c, p)
               \/ \E t \in Ticks : PatchSettings(c, t)
               \/ \E t \in Teams : PatchTeam(c, t)
               \/ \E p \in Profiles, s \in BOOLEAN : SuspendProfile(c, p, s)
        PROVE  (call[d].reads < 3)'
    <3>1. c = d
      BY <1>0, <1>2, <2>5 DEF StartReload, WritePaused, PatchSettings, PatchTeam,
         SuspendProfile, TypeOK
    <3>2. Idle.reads = 0 /\ Idle \in Calls
      BY IdleType DEF Idle
    <3>3. CASE StartReload(c)
      BY <1>0, <3>1, <3>2, <3>3 DEF StartReload, TypeOK, Calls
    <3>4. ASSUME NEW p \in BOOLEAN, WritePaused(c, p)
          PROVE  (call[d].reads < 3)'
      BY <1>0, <3>1, <3>2, <3>4 DEF WritePaused, TypeOK, Calls
    <3>5. ASSUME NEW t \in Ticks, PatchSettings(c, t)
          PROVE  (call[d].reads < 3)'
      <4>1. call' = [call EXCEPT ![c] = [Idle EXCEPT !.step = "patchFile", !.tick = t]]
        BY <1>2, <3>5 DEF PatchSettings
      <4>2. call'[d] = [Idle EXCEPT !.step = "patchFile", !.tick = t]
        BY <1>0, <3>1, <4>1 DEF TypeOK
      <4> QED
        BY <3>2, <4>2 DEF Calls
    <3>6. ASSUME NEW t \in Teams, PatchTeam(c, t)
          PROVE  (call[d].reads < 3)'
      BY <1>0, <3>1, <3>2, <3>6 DEF PatchTeam, TypeOK, Calls
    <3>7. ASSUME NEW p \in Profiles, NEW s \in BOOLEAN, SuspendProfile(c, p, s)
          PROVE  (call[d].reads < 3)'
      BY <1>0, <3>1, <3>2, <3>7 DEF SuspendProfile, TypeOK, Calls
    <3> QED
      BY <2>5, <3>3, <3>4, <3>5, <3>6, <3>7
  <2> QED
    BY <1>2, <2>1, <2>2, <2>3, <2>4, <2>5 DEF Next, vars
<1> QED
  BY <1>1, <1>2

(* The state is well formed, however the calls overlap. *)
THEOREM TypeCorrect == Spec => []TypeOK
<1>1. TypeInv /\ [Next]_vars => TypeInv'
  BY TypeStep, KeyLeftStep DEF TypeInv
<1> QED
  BY InitType, <1>1, PTL DEF Spec, TypeInv

(***************************************************************************)
(* One call at a time: what a call still has to do is what memory and the  *)
(* database differ in.                                                     *)
(***************************************************************************)
LEMMA InitInv == Init => IInv
<1> SUFFICES ASSUME Init PROVE IInv
  OBVIOUS
<1>1. Follows(mem, db)
  BY DEF Init, Follows
<1>2. \A c \in Callers : call[c].step = "idle"
  BY DEF Init, Idle
<1> QED
  BY <1>1, <1>2, InitType DEF IInv, TypeInv, InProgress, At

(* What a call of c may do. *)
CallNext(c) ==
  \/ \E p \in BOOLEAN : WritePaused(c, p)
  \/ SetPaused(c)
  \/ \E t \in Ticks : PatchSettings(c, t)
  \/ PatchFile(c)
  \/ \E t \in Teams : PatchTeam(c, t)
  \/ StartReload(c) \/ ReadKey(c) \/ Store(c)
  \/ ListTeams(c) \/ WriteTeams(c)
  \/ \E p \in Profiles, s \in BOOLEAN : SuspendProfile(c, p, s)
  \/ PersistProfiles(c)

(* A step of a call leaves less, or something else, for it to do. *)
LEMMA OwnStep ==
  ASSUME TypeOK, NEW d \in Callers, InProgress(d), CallNext(d)
  PROVE  InProgress(d)'
<1>0. /\ TypeOK /\ InProgress(d)
      /\ call[d] \in Calls
      /\ call \in [Callers -> Calls]
      /\ db \in Contents /\ mem \in Contents
  BY DEF TypeOK
<1>3. ASSUME NEW p \in BOOLEAN, WritePaused(d, p)
      PROVE  InProgress(d)'
  <2>1. At(d, "setPaused")' /\ call'[d].paused = p
    BY <1>0, <1>3, IdleType DEF WritePaused, At, Calls
  <2>2. Follows(mem, db)
    BY <1>0, <1>3 DEF WritePaused, InProgress
  <2>3. Follows([mem EXCEPT !.paused = call[d].paused], db)'
    BY <1>0, <1>3, <2>1, <2>2 DEF WritePaused, Follows, Contents
  <2> QED
    BY <2>1, <2>3 DEF InProgress, At
<1>4. ASSUME SetPaused(d)
      PROVE  InProgress(d)'
  <2>1. At(d, "idle")'
    BY <1>0, <1>4 DEF SetPaused, End, At, Idle
  <2>2. Follows(mem, db)'
    BY <1>0, <1>4 DEF SetPaused, InProgress, Follows
  <2> QED
    BY <2>1, <2>2 DEF InProgress, At
<1>5. ASSUME NEW t \in Ticks, PatchSettings(d, t)
      PROVE  InProgress(d)'
  <2>1. Follows(mem, db) /\ db' = [db EXCEPT !.tick = t] /\ mem' = mem
    BY <1>0, <1>5 DEF PatchSettings, InProgress
  <2>2. CASE halfDone' = {"mem", "file"} /\ call' = call
    BY <1>0, <1>5, <2>1, <2>2 DEF PatchSettings, InProgress, Follows, At, Contents
  <2>3. CASE call' = [call EXCEPT ![d] = [Idle EXCEPT !.step = "patchFile", !.tick = t]]
    <3>1. call'[d] = [Idle EXCEPT !.step = "patchFile", !.tick = t]
      BY <1>0, <2>3
    <3>2. At(d, "patchFile")' /\ call'[d].reads = 0
      BY <3>1 DEF At, Idle
    <3> QED
      BY <1>0, <2>1, <3>2 DEF InProgress, Follows, At, Contents
  <2> QED
    BY <1>5, <2>2, <2>3 DEF PatchSettings
<1>6. ASSUME PatchFile(d)
      PROVE  InProgress(d)'
  <2>1. At(d, "reload")' /\ call'[d].reads = 0
    BY <1>0, <1>6 DEF PatchFile, InProgress, At, Calls
  <2> QED
    BY <1>0, <1>6, <2>1 DEF PatchFile, InProgress, At
<1>7. ASSUME NEW t \in Teams, PatchTeam(d, t)
      PROVE  InProgress(d)'
  <2>1. At(d, "reload")' /\ call'[d].reads = 0
    BY <1>0, <1>7 DEF PatchTeam, At, Idle
  <2> QED
    BY <1>0, <1>7, <2>1 DEF PatchTeam, InProgress, Follows, At, Contents
<1>8. ASSUME StartReload(d)
      PROVE  InProgress(d)'
  <2>1. At(d, "reload")' /\ call'[d].reads = 0
    BY <1>0, <1>8 DEF StartReload, At, Idle
  <2> QED
    BY <1>0, <1>8, <2>1 DEF StartReload, InProgress, Follows, At
<1>9. ASSUME ReadKey(d)
      PROVE  InProgress(d)'
  <2> DEFINE n == call[d].reads + 1
             read == [call[d] EXCEPT !.reads = n,
                        !.step = IF n = Len(ReadOrder) THEN "store" ELSE "reload"]
  <2>1. /\ call[d].reads \in {0, 1, 2}
        /\ call[d].reads >= 1 => call[d].tick = db.tick
        /\ call[d].reads >= 2 => call[d].paused = db.paused
        /\ mem.profiles = db.profiles
    BY <1>0, <1>9 DEF ReadKey, InProgress, Calls, At
  <2>2. call'[d] = [read EXCEPT ![ReadOrder[n]] = db[ReadOrder[n]]]
    BY <1>0, <1>9 DEF ReadKey
  <2>3. UNCHANGED <<mem, db>>
    BY <1>9 DEF ReadKey
  <2>7. /\ read.reads = n /\ read.tick = call[d].tick /\ read.paused = call[d].paused
        /\ read.step = IF n = 3 THEN "store" ELSE "reload"
    BY <1>0 DEF Calls, ReadOrder
  <2>8. DOMAIN read = {"step", "tick", "paused", "teams", "profiles", "reads", "team"}
    BY <1>0 DEF Calls
  <2>9. read \in [DOMAIN read -> {read[f] : f \in DOMAIN read}]
    OBVIOUS
  <2> HIDE DEF read
  <2>4. CASE call[d].reads = 0
    <3>1. n = 1 /\ ReadOrder[n] = "tick" /\ Len(ReadOrder) = 3
      BY <2>4 DEF ReadOrder
    <3>2. call'[d].tick = db.tick /\ call'[d].reads = 1 /\ call'[d].step = "reload"
      BY <2>2, <2>7, <2>8, <2>9, <3>1
    <3> QED
      BY <2>1, <2>3, <3>2 DEF InProgress, At
  <2>5. CASE call[d].reads = 1
    <3>1. n = 2 /\ ReadOrder[n] = "paused" /\ Len(ReadOrder) = 3
      BY <2>5 DEF ReadOrder
    <3>2. /\ call'[d].tick = db.tick /\ call'[d].paused = db.paused
          /\ call'[d].reads = 2 /\ call'[d].step = "reload"
      BY <2>1, <2>2, <2>5, <2>7, <2>8, <2>9, <3>1
    <3> QED
      BY <2>1, <2>3, <3>2 DEF InProgress, At
  <2>6. CASE call[d].reads = 2
    <3>1. n = 3 /\ ReadOrder[n] = "teams" /\ Len(ReadOrder) = 3
      BY <2>6 DEF ReadOrder
    <3>2. /\ call'[d].tick = db.tick /\ call'[d].paused = db.paused
          /\ call'[d].teams = db.teams /\ call'[d].step = "store"
      BY <2>1, <2>2, <2>6, <2>7, <2>8, <2>9, <3>1
    <3> QED
      BY <2>1, <2>3, <3>2 DEF InProgress, At
  <2> QED
    BY <2>1, <2>4, <2>5, <2>6
<1>10. ASSUME Store(d)
       PROVE  InProgress(d)'
  <2>1. Follows(mem, db)'
    BY <1>0, <1>10 DEF Store, Loaded, InProgress, Follows
  <2>2. At(d, "idle")' \/ At(d, "listTeams")'
    BY <1>0, <1>10 DEF Store, At, Idle, Calls
  <2> QED
    BY <2>1, <2>2 DEF InProgress, At
<1>11. ASSUME ListTeams(d)
       PROVE  InProgress(d)'
  <2>1. At(d, "writeTeams")'
    BY <1>0, <1>11 DEF ListTeams, At, Calls
  <2>2. Follows(mem, db)'
    BY <1>0, <1>11 DEF ListTeams, InProgress, Follows
  <2> QED
    BY <2>1, <2>2 DEF InProgress, At
<1>12. ASSUME WriteTeams(d)
       PROVE  InProgress(d)'
  <2>1. At(d, "idle")'
    BY <1>0, <1>12 DEF WriteTeams, End, At, Idle
  <2>2. Follows(mem, db)'
    BY <1>0, <1>12 DEF WriteTeams, InProgress, Follows
  <2> QED
    BY <2>1, <2>2 DEF InProgress, At
<1>13. ASSUME NEW p \in Profiles, NEW s \in BOOLEAN,
              SuspendProfile(d, p, s)
       PROVE  InProgress(d)'
  <2> DEFINE profiles == IF s THEN mem.profiles \cup {p} ELSE mem.profiles \ {p}
  <2>1. mem' = [mem EXCEPT !.profiles = profiles] /\ UNCHANGED <<db, halfDone>>
    BY <1>13 DEF SuspendProfile
  <2>2. /\ call'[d] = [Idle EXCEPT !.step = "persist", !.profiles = mem'.profiles]
        /\ Follows(mem, db)
    BY <1>0, <1>13 DEF SuspendProfile, InProgress
  <2>3. At(d, "persist")' /\ call'[d].profiles = mem'.profiles
    BY <2>2 DEF At, Idle
  <2>4. Follows(mem, [db EXCEPT !.profiles = call[d].profiles])'
    BY <1>0, <2>1, <2>2, <2>3 DEF Follows, Contents
  <2> QED
    BY <2>3, <2>4 DEF InProgress, At
<1>14. ASSUME PersistProfiles(d)
       PROVE  InProgress(d)'
  <2>1. At(d, "idle")'
    BY <1>0, <1>14 DEF PersistProfiles, End, At, Idle
  <2>2. Follows(mem, db)'
    BY <1>0, <1>14 DEF PersistProfiles, Persisted, InProgress, Follows
  <2> QED
    BY <2>1, <2>2 DEF InProgress, At
<1> QED
  BY <1>3, <1>4, <1>5, <1>6, <1>7, <1>8, <1>9, <1>10, <1>11, <1>12,
     <1>13, <1>14 DEF CallNext

LEMMA CallStep ==
  ASSUME OneAtATime, IInv, [Next]_vars, NEW d \in Callers
  PROVE  InProgress(d)'
<1>0. TypeOK /\ InProgress(d) /\ \A c \in Callers : c = d
  BY DEF IInv, OneAtATime
<1>1. CASE UNCHANGED vars
  BY <1>0, <1>1 DEF vars, InProgress, At, Follows
<1>2. CASE Restart
  <2>1. Follows(mem, db)' /\ At(d, "idle")'
    BY <1>2 DEF Restart, Follows, At, Idle
  <2> QED
    BY <2>1 DEF InProgress, At
<1>3. CASE CallNext(d)
  BY <1>0, <1>3, OwnStep
<1> QED
  BY <1>0, <1>1, <1>2, <1>3 DEF Next, CallNext

(* Calls made one at a time: at every moment memory and the database       *)
(* differ at most in what the call under way has still to write.           *)
THEOREM CallsInOrder == ASSUME OneAtATime PROVE Spec => []IInv
<1>1. TypeInv /\ [Next]_vars => TypeInv'
  BY TypeStep, KeyLeftStep DEF TypeInv
<1>2. Init => TypeInv /\ IInv
  BY InitType, InitInv
<1>3. TypeInv /\ IInv /\ [Next]_vars => TypeInv' /\ IInv'
  BY <1>1, CallStep DEF IInv, TypeInv
<1> QED
  BY <1>2, <1>3, PTL DEF Spec

(* Calls made one at a time: what the server acts upon is what the         *)
(* database says, for any teams, profiles, values and crashes.             *)
THEOREM MemoryInStep == ASSUME OneAtATime PROVE Spec => []MemoryFollows
<1>1. IInv => MemoryFollows
  <2> SUFFICES ASSUME IInv, Quiet PROVE Follows(mem, db)
    BY DEF MemoryFollows
  <2> QED
    BY DEF IInv, InProgress, Quiet, OneAtATime
<1> QED
  BY <1>1, CallsInOrder, PTL

(***************************************************************************)
(* The control room: clicks of one organizer, on a server that others use. *)
(***************************************************************************)

(* A step of a call leaves the other calls where they are. *)
LEMMA OthersStay ==
  ASSUME TypeOK, NEW c \in Callers, CallNext(c), NEW d \in Callers, d # c
  PROVE  call'[d] = call[d]
<1>0. call \in [Callers -> Calls]
  BY DEF TypeOK
<1> QED
  BY <1>0 DEF CallNext, WritePaused, SetPaused, PatchSettings, PatchFile, PatchTeam,
     StartReload, ReadKey, Store, ListTeams, WriteTeams, SuspendProfile,
     PersistProfiles, End

(* A key that is read leaves a reload a reload. *)
LEMMA ReadKeyShape ==
  ASSUME TypeInv, NEW c \in Callers, ReadKey(c)
  PROVE  call'[c].step \in {"reload", "store"} /\ call'[c].team = call[c].team
<1> DEFINE n == call[c].reads + 1
           read == [call[c] EXCEPT !.reads = n,
                      !.step = IF n = Len(ReadOrder) THEN "store" ELSE "reload"]
<1>1. call[c] \in Calls /\ n \in {1, 2, 3}
  BY DEF TypeInv, TypeOK, ReadKey, KeyLeft, Calls, At
<1>2. call'[c] = [read EXCEPT ![ReadOrder[n]] = db[ReadOrder[n]]]
  BY DEF TypeInv, TypeOK, ReadKey
<1>3. ReadOrder[n] \in {"tick", "paused", "teams"}
  BY <1>1 DEF ReadOrder
<1>4. read.step \in {"reload", "store"} /\ read.team = call[c].team
  BY <1>1 DEF Calls, ReadOrder
<1>5. DOMAIN read = {"step", "tick", "paused", "teams", "profiles", "reads", "team"}
  BY <1>1 DEF Calls
<1> HIDE DEF read, n
<1> QED
  BY <1>2, <1>3, <1>4, <1>5

LEMMA Choosing ==
  ASSUME ControlRoomAssumption
  PROVE  /\ NoChoice \in Choices
         /\ \A p \in BOOLEAN : [NoChoice EXCEPT !.paused = p] \in Choices
         /\ \A t \in Ticks : [NoChoice EXCEPT !.tick = t] \in Choices
         /\ \A old, new \in Choices : Forget(old, new) \in Choices /\ Learn(old, new) \in Choices
BY DEF NoChoice, Choices, Forget, Learn

(* What is clicked is a value. *)
LEMMA WantedType ==
  ASSUME RoomTypeOK, Usable
  PROVE  panel.data \in BOOLEAN /\ (~panel.data) \in BOOLEAN
<1>1. panel.data \in BOOLEAN \cup {None} /\ panel.data # None
  BY DEF RoomTypeOK, Usable, Shown
<1>2. panel.data \in BOOLEAN
  BY <1>1
<1>3. CASE panel.data = TRUE
  BY <1>3
<1>4. CASE panel.data = FALSE
  BY <1>4
<1> QED
  BY <1>2, <1>3, <1>4

(* What a step of the room is to the server: calls start when no other is  *)
(* under way.                                                              *)
LEMMA RoomCalls ==
  ASSUME TypeOK, RoomTypeOK, OneByOne, ControlRoomAssumption, [RoomNext]_roomVars
  PROVE  \/ UNCHANGED vars
         \/ Restart
         \/ \E c \in Callers :
              CallNext(c) /\ \A d \in Callers \ {c} : At(d, "idle")
<1>1. CASE UNCHANGED roomVars \/ Poll \/ Serve \/ Receive \/ Miss \/ Reopen
           \/ Succeed \/ Fails
  BY <1>1 DEF roomVars, Poll, Serve, Receive, Miss, Reopen, Succeed, Fails
<1>2. CASE ServerRestart
  BY <1>2 DEF ServerRestart
<1>3. CASE PauseOrResume
  <2>1. CallNext(me) /\ Quiet
    BY <1>3, WantedType DEF PauseOrResume, Wanted, CallNext, Click, ControlRoomAssumption
  <2> QED
    BY <2>1 DEF Quiet, ControlRoomAssumption
<1>4. CASE SaveSettings \/ SaveTeam \/ SaveService \/ ToggleProfile
  <2>1. CallNext(me) /\ Quiet
    BY <1>4 DEF SaveSettings, SaveTeam, SaveService, ToggleProfile, CallNext, Click
  <2> QED
    BY <2>1 DEF Quiet, ControlRoomAssumption
<1>5. ASSUME NEW c \in Callers, Continue(c)
      PROVE  CallNext(c) /\ \A d \in Callers \ {c} : At(d, "idle")
  <2>1. CallNext(c)
    BY <1>5 DEF Continue, CallNext
  <2>2. ~At(c, "idle")
    BY <1>5 DEF Continue, SetPaused, PatchFile, ReadKey, Store, ListTeams, WriteTeams,
       PersistProfiles, At
  <2> QED
    BY <2>1, <2>2 DEF OneByOne
<1>6. ASSUME NEW c \in Callers, OthersCall(c)
      PROVE  CallNext(c) /\ \A d \in Callers \ {c} : At(d, "idle")
  BY <1>6 DEF OthersCall, CallNext, Quiet
<1> QED
  BY <1>1, <1>2, <1>3, <1>4, <1>5, <1>6 DEF RoomNext

LEMMA RoomServer ==
  ASSUME TypeOK, RoomTypeOK, OneByOne, ControlRoomAssumption, [RoomNext]_roomVars
  PROVE  [Next]_vars
BY RoomCalls DEF Next, CallNext

LEMMA OneByOneStep ==
  ASSUME TypeOK, RoomTypeOK, OneByOne, ControlRoomAssumption, [RoomNext]_roomVars
  PROVE  OneByOne'
<1>1. CASE UNCHANGED vars
  <2>1. \A c \in Callers : /\ At(c, "idle")' <=> At(c, "idle")
                           /\ InProgress(c)' <=> InProgress(c)
    BY <1>1 DEF vars, At, InProgress, Follows
  <2> QED
    BY <1>1, <2>1 DEF vars, OneByOne, MemoryFollows, Quiet, Follows
<1>2. CASE Restart
  <2>1. Follows(mem, db)' /\ \A c \in Callers : At(c, "idle")'
    BY <1>2 DEF Restart, Follows, At, Idle
  <2> QED
    BY <2>1 DEF OneByOne, MemoryFollows
<1>3. ASSUME NEW c \in Callers, CallNext(c), \A d \in Callers \ {c} : At(d, "idle")
      PROVE  OneByOne'
  <2>1. InProgress(c)
    <3>1. CASE At(c, "idle")
      <4>1. Quiet
        BY <1>3, <3>1 DEF Quiet
      <4> QED
        BY <3>1, <4>1 DEF OneByOne, MemoryFollows, InProgress, At
    <3> QED
      BY <3>1 DEF OneByOne
  <2>2. InProgress(c)'
    BY <1>3, <2>1, OwnStep
  <2>3. \A d \in Callers \ {c} : At(d, "idle")'
    BY <1>3, OthersStay DEF At
  <2>4. MemoryFollows'
    BY <2>2 DEF MemoryFollows, Quiet, InProgress
  <2> QED
    BY <2>2, <2>3, <2>4 DEF OneByOne
<1> QED
  BY <1>1, <1>2, <1>3, RoomCalls

LEMMA RoomTypeStep ==
  ASSUME TypeOK, RoomTypeOK, ControlRoomAssumption, [RoomNext]_roomVars
  PROVE  RoomTypeOK'
<1>0. /\ panel.data \in BOOLEAN \cup {None} /\ panel.wire \in BOOLEAN \cup {Sent, None}
      /\ panel.behind \subseteq {"data", "wire"}
      /\ panel = [data |-> panel.data, wire |-> panel.wire, behind |-> panel.behind]
      /\ click \in [reply : {"none", "wait", "error"}, sets : Choices]
      /\ meant \in Choices /\ mem.paused \in BOOLEAN
  BY DEF RoomTypeOK, Shown, TypeOK, Contents
<1> DEFINE Panels == [data : Shown \cup {None}, wire : Shown \cup {Sent, None},
                      behind : SUBSET {"data", "wire"}]
<1>1. /\ NoPanel \in Panels /\ [NoPanel EXCEPT !.wire = None] \in Panels
      /\ NoClick \in [reply : {"none", "wait", "error"}, sets : Choices]
      /\ Refused \in [reply : {"none", "wait", "error"}, sets : Choices]
  BY Choosing DEF NoPanel, NoClick, Refused, Shown
<1>2. \A q \in Panels : Fetch(q) \in Panels
  BY DEF Fetch
<1>3. panel \in Panels
  BY DEF RoomTypeOK
<1>4. CASE UNCHANGED roomVars
  BY <1>4 DEF roomVars, RoomTypeOK
<1>5. CASE Poll \/ Serve \/ Receive \/ Miss \/ Reopen \/ Fails
  <2>1. panel' \in Panels
    <3>1. CASE Poll \/ Miss \/ Reopen \/ Fails
      BY <3>1, <1>1, <1>2, <1>3 DEF Poll, Miss, Reopen, Fails
    <3>2. CASE Serve
      BY <3>2, <1>0, <1>3 DEF Serve, Shown
    <3>3. CASE Receive
      BY <3>3, <1>0, <1>3 DEF Receive, Shown
    <3> QED
      BY <1>5, <3>1, <3>2, <3>3
  <2>2. /\ click' \in [reply : {"none", "wait", "error"}, sets : Choices]
        /\ meant' \in Choices
    BY <1>0, <1>1, <1>5 DEF Poll, Serve, Receive, Miss, Reopen, Fails
  <2> QED
    BY <2>1, <2>2 DEF RoomTypeOK
<1>6. ASSUME NEW sets \in Choices, Click(sets)
      PROVE  RoomTypeOK'
  BY <1>0, <1>1, <1>6, Choosing DEF Click, RoomTypeOK
<1>7. CASE PauseOrResume \/ SaveSettings \/ SaveTeam \/ SaveService \/ ToggleProfile
  BY <1>6, <1>7, WantedType, Choosing
     DEF PauseOrResume, SaveSettings, SaveTeam, SaveService, ToggleProfile
<1>8. CASE Succeed
  <2>1. [panel EXCEPT !.behind = {"data"}] \in Panels
    BY <1>3
  <2>2. panel' \in Panels
    BY <1>2, <1>8, <2>1 DEF Succeed, Invalidated
  <2>3. click.sets \in Choices
    BY <1>0
  <2> QED
    BY <1>0, <1>1, <1>8, <2>2, <2>3, Choosing DEF Succeed, RoomTypeOK
<1>9. ASSUME NEW c \in Callers, Continue(c) \/ OthersCall(c)
      PROVE  RoomTypeOK'
  BY <1>0, <1>9 DEF Continue, OthersCall, RoomTypeOK, Choices
<1>10. CASE ServerRestart
  BY <1>0, <1>1, <1>10 DEF ServerRestart, RoomTypeOK
<1> QED
  BY <1>4, <1>5, <1>7, <1>8, <1>9, <1>10 DEF RoomNext

(* A call of mine that has succeeded asks again at once, whatever is under *)
(* way, and only an answer replaces the data.                              *)
LEMMA RefetchingStep ==
  ASSUME TypeOK, RoomTypeOK, Refetching, ControlRoomAssumption, [RoomNext]_roomVars
  PROVE  Refetching'
<1>0. /\ panel.wire \in BOOLEAN \cup {Sent, None}
      /\ panel \in [data : Shown \cup {None}, wire : Shown \cup {Sent, None},
                    behind : SUBSET {"data", "wire"}]
      /\ mem.paused \in BOOLEAN
      /\ None \notin BOOLEAN /\ Sent # None
  BY DEF RoomTypeOK, TypeOK, Contents, Shown, ControlRoomAssumption
<1>1. \A q \in [data : Shown \cup {None}, wire : Shown \cup {Sent, None},
                behind : SUBSET {"data", "wire"}] :
        Fetch(q).wire = Sent /\ Fetch(q).behind = q.behind \ {"wire"}
  BY DEF Fetch
<1>2. CASE Poll \/ Miss \/ Reopen
  BY <1>0, <1>1, <1>2 DEF Poll, Miss, Reopen, Refetching, NoPanel
<1>3. CASE Serve
  BY <1>0, <1>3 DEF Serve, Refetching
<1>4. CASE Receive
  BY <1>0, <1>4 DEF Receive, Refetching
<1>5. CASE Succeed
  <2>1. [panel EXCEPT !.behind = {"data"}] \in
          [data : Shown \cup {None}, wire : Shown \cup {Sent, None},
           behind : SUBSET {"data", "wire"}]
    BY <1>0
  <2> QED
    BY <1>0, <1>1, <1>5, <2>1 DEF Succeed, Invalidated, Refetching
<1>6. CASE UNCHANGED panel
  BY <1>6 DEF Refetching
<1> QED
  BY <1>2, <1>3, <1>4, <1>5, <1>6 DEF RoomNext, roomVars, Fails, PauseOrResume,
     SaveSettings, SaveTeam, SaveService, ToggleProfile, Click, Continue, OthersCall,
     ServerRestart

(* Calls that are over, or that others make, and what was promised.        *)
LEMMA KeptStep ==
  ASSUME TypeInv, RoomTypeOK, OneByOne, Kept, Awaited, ControlRoomAssumption,
         [RoomNext]_roomVars
  PROVE  Kept'
<1>0. /\ call \in [Callers -> Calls]
      /\ db \in Contents /\ mem \in Contents
      /\ file \in [tick : Ticks, teams : [Teams -> 0..MaxEdits]]
      /\ meant \in Choices /\ click.sets \in Choices
      /\ None \notin BOOLEAN /\ None \notin Ticks /\ me \in Callers
      /\ TypeOK
  BY DEF TypeInv, TypeOK, RoomTypeOK, ControlRoomAssumption
<1>1. CASE UNCHANGED <<vars, meant>>
  BY <1>1 DEF vars, Kept, InFile, At
<1>2. CASE Succeed
  <2>1. click.reply = "wait" /\ At(me, "idle") /\ UNCHANGED vars
        /\ meant' = Learn(meant, click.sets)
    BY <1>2 DEF Succeed
  <2>2. Quiet
    BY <2>1 DEF Awaited, Quiet
  <2>3. mem.paused = db.paused
    BY <2>2 DEF OneByOne, MemoryFollows, Follows
  <2>4. /\ click.sets.paused # None => click.sets.paused = db.paused
        /\ click.sets.tick # None => /\ click.sets.tick = db.tick
                                     /\ click.sets.tick = mem.tick
                                     /\ InFile(click.sets.tick)
    BY <2>1 DEF Awaited, At
  <2>5. \A c \in Callers : ~At(c, "setPaused") /\ ~At(c, "patchFile")
    BY <2>2 DEF Quiet, At
  <2> QED
    BY <2>1, <2>3, <2>4, <2>5 DEF Kept, InFile, Learn, vars, At
<1>3. ASSUME NEW sets \in Choices, Click(sets)
      PROVE  meant' = Forget(meant, sets) /\ Quiet
  BY <1>3 DEF Click
<1>4. CASE PauseOrResume
  <2>1. WritePaused(me, Wanted) /\ Wanted \in BOOLEAN /\ Quiet
    BY <1>4, WantedType DEF PauseOrResume, Wanted, Click
  <2>2. meant'.paused = None /\ meant'.tick = meant.tick
    BY <1>0, <1>4, WantedType DEF PauseOrResume, Click, Forget, NoChoice
  <2>3. /\ db'.tick = db.tick /\ UNCHANGED <<mem, file, halfDone>>
        /\ At(me, "setPaused")'
        /\ \A c \in Callers \ {me} : At(c, "idle")'
    BY <1>0, <2>1, IdleType DEF WritePaused, Contents, Quiet, At, Idle
  <2> QED
    BY <2>2, <2>3 DEF Kept, InFile, At
<1>5. CASE SaveSettings
  <2>1. PICK t \in Ticks : PatchSettings(me, t) /\ Click([NoChoice EXCEPT !.tick = t])
    BY <1>5 DEF SaveSettings
  <2>2. meant'.tick = None /\ meant'.paused = meant.paused /\ Quiet
    BY <1>0, <2>1 DEF Click, Forget, NoChoice
  <2>3. /\ db'.paused = db.paused /\ mem' = mem /\ file' = file
        /\ "file" \in halfDone => "file" \in halfDone'
        /\ call' = call \/ At(me, "patchFile")'
    <3>1. /\ db' = [db EXCEPT !.tick = t] /\ mem' = mem /\ file' = file
          /\ halfDone' = halfDone \/ halfDone' = {"mem", "file"}
          /\ \/ call' = [call EXCEPT ![me] = [Idle EXCEPT !.step = "patchFile", !.tick = t]]
             \/ call' = call
      BY <2>1 DEF PatchSettings
    <3>2. db'.paused = db.paused
      BY <1>0, <3>1 DEF Contents
    <3>3. [Idle EXCEPT !.step = "patchFile", !.tick = t].step = "patchFile"
      BY DEF Idle
    <3> QED
      BY <1>0, <3>1, <3>2, <3>3 DEF At
  <2>4. \A c \in Callers \ {me} : At(c, "idle")'
    BY <1>0, <2>1, <2>2 DEF PatchSettings, At, Quiet
  <2>5. At(me, "idle")' \/ At(me, "patchFile")'
    BY <1>0, <2>2, <2>3 DEF At, Quiet
  <2> QED
    BY <2>2, <2>3, <2>4, <2>5 DEF Kept, InFile, At
<1>6. ASSUME NEW c \in Callers, Quiet, meant' = meant,
             \/ \E t \in Teams : PatchTeam(c, t)
             \/ StartReload(c)
             \/ \E p \in Profiles, s \in BOOLEAN : SuspendProfile(c, p, s)
      PROVE  Kept'
  <2>1. db'.tick = db.tick /\ db'.paused = db.paused
        /\ UNCHANGED <<file, halfDone>>
    BY <1>0, <1>6 DEF PatchTeam, StartReload, SuspendProfile, Contents
  <2>2. mem'.tick = mem.tick /\ mem'.paused = mem.paused
    BY <1>0, <1>6 DEF PatchTeam, StartReload, SuspendProfile, Contents
  <2>3. call'[c].step \in {"reload", "persist"}
    <3>1. CASE \E t \in Teams : PatchTeam(c, t)
      BY <1>0, <3>1 DEF PatchTeam, Idle
    <3>2. CASE StartReload(c)
      BY <1>0, <3>2 DEF StartReload, Idle
    <3>3. CASE \E p \in Profiles, s \in BOOLEAN : SuspendProfile(c, p, s)
      BY <1>0, <3>3 DEF SuspendProfile, Idle
    <3> QED
      BY <1>6, <3>1, <3>2, <3>3
  <2>4. \A d \in Callers \ {c} : At(d, "idle")'
    <3>1. CallNext(c)
      BY <1>6 DEF CallNext
    <3> QED
      BY <1>0, <1>6, <3>1, OthersStay DEF Quiet, At
  <2> QED
    BY <1>6, <2>1, <2>2, <2>3, <2>4 DEF Kept, InFile, At
<1>7. CASE SaveTeam \/ SaveService \/ ToggleProfile
  <2>1. Click(NoChoice)
    BY <1>7 DEF SaveTeam, SaveService, ToggleProfile
  <2>2. meant' = meant /\ Quiet
    <3>1. Forget(meant, NoChoice) = meant
      BY <1>0 DEF Forget, NoChoice, Choices
    <3> QED
      BY <2>1, <3>1 DEF Click
  <2> QED
    BY <1>0, <1>6, <1>7, <2>2 DEF SaveTeam, SaveService, ToggleProfile
<1>8. ASSUME NEW c \in Callers, Continue(c)
      PROVE  Kept'
  <2>1. meant' = meant
    BY <1>8 DEF Continue
  <2>2. \A d \in Callers \ {c} : At(d, "idle")'
    <3>1. CallNext(c)
      BY <1>8 DEF Continue, CallNext
    <3>2. ~At(c, "idle")
      BY <1>8 DEF Continue, At,
         SetPaused, PatchFile, ReadKey, Store, ListTeams, WriteTeams, PersistProfiles
    <3>3. \A d \in Callers \ {c} : At(d, "idle")
      BY <3>2 DEF OneByOne
    <3> QED
      BY <1>0, <3>1, <3>3, OthersStay DEF At
  <2>3. InProgress(c)
    BY <1>8 DEF Continue, OneByOne, At,
       SetPaused, PatchFile, ReadKey, Store, ListTeams, WriteTeams, PersistProfiles
  <2>4. CASE SetPaused(c)
    <3>1. /\ mem'.tick = mem.tick /\ UNCHANGED <<db, file, halfDone>>
          /\ At(c, "setPaused") /\ At(c, "idle")'
      BY <1>0, <2>4 DEF SetPaused, Contents, End, At, Idle
    <3> QED
      BY <2>1, <2>2, <3>1 DEF Kept, InFile, At
  <2>5. CASE PatchFile(c)
    <3>1. /\ UNCHANGED <<db, mem>> /\ At(c, "patchFile") /\ At(c, "reload")'
      BY <1>0, <2>5 DEF PatchFile, At, Calls
    <3> QED
      BY <2>1, <2>2, <3>1 DEF Kept, InFile, At
  <2>6. CASE ReadKey(c)
    <3>1. UNCHANGED <<db, mem, file, halfDone>> /\ call'[c].step \in {"reload", "store"}
      BY <2>6, ReadKeyShape DEF ReadKey
    <3> QED
      BY <2>1, <2>2, <3>1 DEF Kept, InFile, At
  <2>7. CASE Store(c)
    <3>1. /\ UNCHANGED <<db, file>> /\ mem'.tick = db.tick /\ mem'.paused = db.paused
          /\ halfDone' = halfDone \ {"mem"}
          /\ call'[c].step \in {"idle", "listTeams"}
      BY <1>0, <2>3, <2>7 DEF Store, Loaded, InProgress, At, Calls, Idle
    <3> QED
      BY <2>1, <2>2, <3>1 DEF Kept, InFile, At
  <2>8. CASE ListTeams(c) \/ WriteTeams(c) \/ PersistProfiles(c)
    <3>1. /\ mem' = mem /\ db'.tick = db.tick /\ db'.paused = db.paused
          /\ file'.tick = file.tick /\ halfDone' = halfDone
      BY <1>0, <2>8 DEF ListTeams, WriteTeams, PersistProfiles, Contents
    <3>2. call'[c].step \in {"idle", "writeTeams"}
      BY <1>0, <2>8 DEF ListTeams, WriteTeams, PersistProfiles, End, Idle, Calls
    <3> QED
      BY <2>1, <2>2, <3>1, <3>2 DEF Kept, InFile, At
  <2> QED
    BY <1>8, <2>4, <2>5, <2>6, <2>7, <2>8 DEF Continue
<1>9. ASSUME NEW c \in Callers \ {me}, OthersCall(c)
      PROVE  Kept'
  <2>1. Quiet
    BY <1>9 DEF OthersCall
  <2>2. CallNext(c) /\ \A d \in Callers \ {c} : At(d, "idle")'
    <3>1. CallNext(c)
      BY <1>9 DEF OthersCall, CallNext
    <3> QED
      BY <1>0, <2>1, <3>1, OthersStay DEF Quiet, At
  <2>3. ASSUME NEW p \in BOOLEAN, WritePaused(c, p),
               meant' = [meant EXCEPT !.paused = None]
        PROVE  Kept'
    <3>1. /\ db'.tick = db.tick /\ UNCHANGED <<mem, file, halfDone>>
          /\ meant'.paused = None /\ meant'.tick = meant.tick
          /\ At(c, "setPaused")'
      BY <1>0, <2>3 DEF WritePaused, Contents, Choices, At, Idle
    <3> QED
      BY <2>2, <3>1 DEF Kept, InFile, At
  <2>4. ASSUME NEW t \in Ticks, PatchSettings(c, t),
               meant' = [meant EXCEPT !.tick = None]
        PROVE  Kept'
    <3>1. /\ db'.paused = db.paused /\ UNCHANGED <<mem, file>>
          /\ "file" \in halfDone => "file" \in halfDone'
          /\ meant'.tick = None /\ meant'.paused = meant.paused
      BY <1>0, <2>4 DEF PatchSettings, Contents, Choices
    <3>2. call'[c].step \in {"idle", "patchFile"}
      <4>1. \/ call' = [call EXCEPT ![c] = [Idle EXCEPT !.step = "patchFile", !.tick = t]]
            \/ call' = call
        BY <2>4 DEF PatchSettings
      <4>2. [Idle EXCEPT !.step = "patchFile", !.tick = t].step = "patchFile"
        BY DEF Idle
      <4> QED
        BY <1>0, <2>1, <4>1, <4>2 DEF Quiet, At
    <3> QED
      BY <2>2, <3>1, <3>2 DEF Kept, InFile, At
  <2> QED
    BY <1>6, <1>9, <2>1, <2>3, <2>4 DEF OthersCall
<1>10. CASE ServerRestart
  <2>1. /\ mem' = db /\ UNCHANGED <<db, file, meant>>
        /\ halfDone' = halfDone \ {"mem"}
        /\ \A c \in Callers : At(c, "idle")'
    BY <1>10 DEF ServerRestart, Restart, At, Idle
  <2> QED
    BY <2>1 DEF Kept, InFile, At
<1>11. CASE Poll \/ Serve \/ Receive \/ Miss \/ Reopen \/ Fails \/ UNCHANGED roomVars
  BY <1>1, <1>11 DEF Poll, Serve, Receive, Miss, Reopen, Fails, roomVars, vars
<1> QED
  BY <1>2, <1>4, <1>5, <1>7, <1>8, <1>9, <1>10, <1>11 DEF RoomNext

(* What my call has written when it is answered.                           *)
LEMMA AwaitedStep ==
  ASSUME TypeInv, RoomTypeOK, OneByOne, Awaited, ControlRoomAssumption,
         [RoomNext]_roomVars
  PROVE  Awaited'
<1>0. /\ call \in [Callers -> Calls]
      /\ db \in Contents /\ mem \in Contents
      /\ file \in [tick : Ticks, teams : [Teams -> 0..MaxEdits]]
      /\ click \in [reply : {"none", "wait", "error"}, sets : Choices]
      /\ None \notin BOOLEAN /\ None \notin Ticks /\ me \in Callers
      /\ TypeOK
  BY DEF TypeInv, TypeOK, RoomTypeOK, ControlRoomAssumption
<1>1. CASE UNCHANGED <<vars, click>>
  BY <1>1 DEF vars, Awaited, InFile, At
<1>2. CASE click'.reply # "wait"
  BY <1>2 DEF Awaited
<1>3. ASSUME NEW sets \in Choices, Click(sets), click'.reply = "wait"
      PROVE  Quiet /\ click'.sets = sets /\ ~At(me, "idle")'
  BY <1>3 DEF Click, Refused, At
<1>4. CASE PauseOrResume /\ click'.reply = "wait"
  <2>1. WritePaused(me, Wanted) /\ Wanted \in BOOLEAN
    BY <1>4, WantedType DEF PauseOrResume, Wanted
  <2>2. Quiet /\ click'.sets = [NoChoice EXCEPT !.paused = ~panel.data]
    BY <1>3, <1>4, WantedType, Choosing DEF PauseOrResume
  <2>3. /\ db'.paused = ~panel.data /\ click'.sets.tick = None
        /\ click'.sets.paused = ~panel.data
    BY <1>0, <2>1, <2>2 DEF WritePaused, Wanted, Contents, NoChoice
  <2>4. \A c \in Callers \ {me} : At(c, "idle")'
    BY <1>0, <2>1, <2>2 DEF WritePaused, At, Quiet
  <2> QED
    BY <2>3, <2>4 DEF Awaited
<1>5. CASE SaveSettings /\ click'.reply = "wait"
  <2>1. PICK t \in Ticks : PatchSettings(me, t) /\ Click([NoChoice EXCEPT !.tick = t])
    BY <1>5 DEF SaveSettings
  <2>2. /\ Quiet /\ click'.sets = [NoChoice EXCEPT !.tick = t]
        /\ ~At(me, "idle")'
    BY <1>3, <1>5, <2>1, Choosing
  <2>3. click'.sets.tick = t /\ click'.sets.paused = None /\ db'.tick = t
    BY <1>0, <2>1, <2>2 DEF PatchSettings, Contents, NoChoice
  <2>4. call' = [call EXCEPT ![me] = [Idle EXCEPT !.step = "patchFile", !.tick = t]]
    BY <2>1, <2>2 DEF PatchSettings, Quiet, At
  <2>5. call'[me] = [Idle EXCEPT !.step = "patchFile", !.tick = t]
        /\ \A c \in Callers \ {me} : call'[c] = call[c]
    BY <1>0, <2>4
  <2>6. call'[me].step = "patchFile" /\ call'[me].tick = t /\ ~call'[me].team
    BY <2>5 DEF Idle
  <2> QED
    BY <2>2, <2>3, <2>5, <2>6 DEF Awaited, At, Quiet
<1>6. CASE (SaveTeam \/ SaveService \/ ToggleProfile) /\ click'.reply = "wait"
  <2>1. Click(NoChoice) /\ Quiet /\ click'.sets = NoChoice
    BY <1>3, <1>6, Choosing DEF SaveTeam, SaveService, ToggleProfile
  <2>2. CallNext(me)
    BY <1>6 DEF SaveTeam, SaveService, ToggleProfile, CallNext
  <2>3. \A c \in Callers \ {me} : At(c, "idle")'
    BY <1>0, <2>1, <2>2, OthersStay DEF Quiet, At
  <2> QED
    BY <2>1, <2>3 DEF Awaited, NoChoice
<1>7. ASSUME NEW c \in Callers, Continue(c), click.reply = "wait"
      PROVE  Awaited'
  <2>1. click' = click
    BY <1>7 DEF Continue
  <2>2. c = me /\ InProgress(c)
    BY <1>7 DEF Awaited, Continue, OneByOne, At,
       SetPaused, PatchFile, ReadKey, Store, ListTeams, WriteTeams, PersistProfiles
  <2>3. \A d \in Callers \ {me} : At(d, "idle")'
    <3>1. CallNext(me)
      BY <1>7, <2>2 DEF Continue, CallNext
    <3> QED
      BY <1>0, <1>7, <3>1, OthersStay DEF Awaited, At
  <2>4. db'.paused = db.paused /\ db'.tick = db.tick
    BY <1>0, <1>7 DEF Continue, Contents,
       SetPaused, PatchFile, ReadKey, Store, ListTeams, WriteTeams, PersistProfiles
  <2>5. ASSUME click.sets.tick # None
        PROVE  /\ call'[me].step \in {"patchFile", "reload", "store", "idle"}
               /\ ~call'[me].team
               /\ IF At(me, "patchFile")' THEN call'[me].tick = click.sets.tick
                  ELSE InFile(click.sets.tick)'
               /\ At(me, "idle")' => mem'.tick = click.sets.tick
    <3>0. /\ call[me].step \in {"patchFile", "reload", "store", "idle"}
          /\ ~call[me].team /\ db.tick = click.sets.tick
          /\ At(me, "patchFile") => call[me].tick = click.sets.tick
          /\ ~At(me, "patchFile") => InFile(click.sets.tick)
      BY <1>7, <2>5 DEF Awaited
    <3>1. CASE PatchFile(me)
      <4>1. /\ call'[me].step = "reload" /\ call'[me].team = call[me].team
            /\ call[me].tick = click.sets.tick
        BY <1>0, <3>0, <3>1 DEF PatchFile, At, Calls
      <4>2. InFile(click.sets.tick)'
        BY <1>0, <2>1, <3>1, <4>1 DEF PatchFile, InFile
      <4> QED
        BY <3>0, <4>1, <4>2 DEF At
    <3>2. CASE ReadKey(me)
      <4>1. /\ call'[me].step \in {"reload", "store"} /\ ~call'[me].team
            /\ UNCHANGED <<file, halfDone>> /\ At(me, "reload")
        BY <3>0, <3>2, ReadKeyShape DEF ReadKey, ControlRoomAssumption
      <4> QED
        BY <2>1, <3>0, <4>1 DEF At, InFile
    <3>3. CASE Store(me)
      <4>1. call' = [call EXCEPT ![me] = Idle] /\ file' = file
            /\ halfDone' = halfDone \ {"mem"}
        BY <3>0, <3>3 DEF Store
      <4>2. mem'.tick = db.tick
        BY <2>2, <3>3 DEF Store, Loaded, InProgress, At
      <4>3. At(me, "store")
        BY <3>3 DEF Store
      <4> QED
        BY <1>0, <2>1, <3>0, <4>1, <4>2, <4>3 DEF At, Idle, InFile
    <3> QED
      BY <1>7, <2>2, <3>0, <3>1, <3>2, <3>3 DEF Continue, SetPaused, ListTeams,
         WriteTeams, PersistProfiles, At
  <2> QED
    BY <1>7, <2>1, <2>3, <2>4, <2>5 DEF Awaited
<1>8. ASSUME NEW c \in Callers, OthersCall(c) \/ Continue(c), click.reply # "wait"
      PROVE  Awaited'
  BY <1>2, <1>8 DEF OthersCall, Continue
<1>9. CASE ServerRestart
  BY <1>2, <1>9 DEF ServerRestart, Refused
<1>10. CASE Poll \/ Serve \/ Receive \/ Miss \/ Reopen \/ Fails \/ Succeed
            \/ UNCHANGED roomVars
  BY <1>1, <1>2, <1>10 DEF Poll, Serve, Receive, Miss, Reopen, Fails, Succeed, NoClick,
     roomVars, vars
<1> QED
  BY <1>2, <1>4, <1>5, <1>6, <1>7, <1>8, <1>9, <1>10 DEF RoomNext, OthersCall

RoomIInv == TypeInv /\ RoomInv

LEMMA RoomInitInv == ASSUME ControlRoomAssumption PROVE RoomInit => RoomIInv
<1> SUFFICES ASSUME RoomInit PROVE RoomIInv
  OBVIOUS
<1>1. TypeInv
  BY InitType DEF RoomInit
<1>2. RoomTypeOK
  BY Choosing DEF RoomInit, RoomTypeOK, NoPanel, NoClick, Shown
<1>3. (\A c \in Callers : At(c, "idle")) /\ Follows(mem, db)
  BY DEF RoomInit, Init, At, Idle, Follows
<1>4. OneByOne
  BY <1>3 DEF OneByOne, MemoryFollows
<1>5. Kept
  BY <1>3 DEF Kept, RoomInit, NoChoice, At
<1>6. Awaited /\ Refetching
  BY DEF RoomInit, Awaited, Refetching, NoClick, NoPanel, ControlRoomAssumption
<1> QED
  BY <1>1, <1>2, <1>4, <1>5, <1>6 DEF RoomIInv, RoomInv, TypeInv

LEMMA RoomStep ==
  ASSUME ControlRoomAssumption, RoomIInv, [RoomNext]_roomVars
  PROVE  RoomIInv'
<1>1. /\ TypeInv /\ TypeOK /\ RoomTypeOK /\ OneByOne /\ Kept /\ Awaited /\ Refetching
  BY DEF RoomIInv, RoomInv
<1>2. TypeInv'
  BY <1>1, RoomServer, TypeStep, KeyLeftStep DEF TypeInv
<1>3. RoomTypeOK' /\ OneByOne' /\ Kept' /\ Awaited' /\ Refetching'
  BY <1>1, RoomTypeStep, OneByOneStep, KeptStep, AwaitedStep, RefetchingStep
<1> QED
  BY <1>2, <1>3 DEF RoomIInv, RoomInv, TypeInv

(* The control room keeps its invariant, whatever the other organizers do, *)
(* restarts and lost answers included.                                     *)
THEOREM RoomInOrder == RoomSpec => []RoomInv
<1>1. RoomInit => RoomIInv
  BY RoomInitInv, ControlRoomAssumption
<1>2. RoomIInv /\ [RoomNext]_roomVars => RoomIInv'
  BY RoomStep, ControlRoomAssumption
<1>3. RoomIInv => RoomInv
  BY DEF RoomIInv
<1> QED
  BY <1>1, <1>2, <1>3, PTL DEF RoomSpec

(* What a call of the organizer that succeeded has set holds in memory, in *)
(* the database and in config.json whenever no call is under way, for any  *)
(* number of organizers and whatever is restarted or lost meanwhile.       *)
THEOREM PromisesAreKept == RoomSpec => []PromisesHold
<1>1. RoomInv => PromisesHold
  BY DEF RoomInv, Kept, PromisesHold
<1> QED
  BY <1>1, RoomInOrder, PTL

(* Once the page has asked again, what it shows was read after the last    *)
(* call of the organizer was over.                                         *)
THEOREM ClicksAreSeen == RoomSpec => []OwnChangesShown
<1>1. RoomInv => OwnChangesShown
  BY DEF RoomInv, Refetching, OwnChangesShown
<1> QED
  BY <1>1, RoomInOrder, PTL

(* Calls that start only when none is under way keep memory and database   *)
(* together, whoever makes them.                                           *)
THEOREM RoomMemoryInStep == RoomSpec => []MemoryFollows
<1>1. RoomInv => MemoryFollows
  BY DEF RoomInv, OneByOne
<1> QED
  BY <1>1, RoomInOrder, PTL

(* Every step of the control room is a step of the server's state, or none. *)
THEOREM RoomImplementsGameState == RoomSpec => Spec
<1>1. RoomInit => Init
  BY DEF RoomInit
<1>2. RoomInv /\ [RoomNext]_roomVars => [Next]_vars
  BY RoomServer, ControlRoomAssumption DEF RoomInv
<1> QED
  BY <1>1, <1>2, RoomInOrder, PTL DEF RoomSpec, Spec
=============================================================================
