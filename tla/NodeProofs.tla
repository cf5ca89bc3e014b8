----------------------------- MODULE NodeProofs -----------------------------
(***************************************************************************)
(* Theorems about what runs on the nodes: the boxes of the teams           *)
(* (TeamBoxes) and, from the second half on, the rules of the routers and  *)
(* who changes them (NetworkControl).                                      *)
(***************************************************************************)
EXTENDS TeamBoxes, NetworkControl, SequenceTheorems, TLAPS

(* Which scripts there are. *)
LEMMA ScriptFacts ==
  /\ Resets \subseteq Scripts
  /\ \A p \in Scripts : p[2] \in Teams
  /\ \A p \in Resets : p[1] # Builder
  /\ \A p \in Scripts : p \notin Resets => p[1] = Builder /\ p = <<Builder, p[2]>>
  /\ \A t \in Teams : <<Builder, t>> \in Scripts \ Resets
  BY TeamBoxesAssumption DEF Scripts, Resets

(* The step that follows another. *)
LEMMA FollowingFacts ==
  ASSUME TypeOK, NEW p \in Scripts, clone[p] # "idle"
  PROVE  /\ clone[p] = "delete" => Following(p) = "deletePool"
         /\ clone[p] = "deletePool" => Following(p) = "createPool"
         /\ clone[p] = "createPool" => Following(p) = "copy"
         /\ clone[p] = "copy" => Following(p) = "limits"
         /\ clone[p] = "limits" => Following(p) = "start"
         /\ clone[p] = "start" => Following(p) = "boot"
         /\ clone[p] = "boot" => Following(p) = "tunnel"
         /\ clone[p] = "tunnel" => Following(p) = "password"
         /\ clone[p] = "password" => Following(p) = "stop"
         /\ clone[p] = "stop" => Following(p) = (IF p[1] = Builder THEN "idle" ELSE "run")
         /\ clone[p] = "run" => Following(p) = "idle"
         /\ Following(p) \in Steps
<1>1. clone[p] \in Steps BY DEF TypeOK
<1> QED BY <1>1, SMT DEF Following, After, Steps


LEMMA ContinueFacts ==
  ASSUME TypeOK, NEW p \in Scripts, clone[p] # "idle", Continue(p)
  PROVE  /\ clone' \in [Scripts -> Steps]
         /\ clone'[p] = Following(p)
         /\ \A q \in Scripts : q # p => clone'[q] = clone[q]
<1>1. clone \in [Scripts -> Steps] /\ Following(p) \in Steps
  BY FollowingFacts DEF TypeOK
<1>2. clone' = [clone EXCEPT ![p] = Following(p)]
  BY DEF Continue
<1> QED
  BY <1>1, <1>2

LEMMA AbandonFacts ==
  ASSUME TypeOK, NEW p \in Scripts, Abandon(p)
  PROVE  /\ clone' \in [Scripts -> Steps]
         /\ clone'[p] = "idle"
         /\ \A q \in Scripts : q # p => clone'[q] = clone[q]
         /\ failed' = (failed \/ p[1] = Builder)
<1>1. clone \in [Scripts -> Steps] /\ "idle" \in Steps
  BY DEF TypeOK, Steps
<1>2. clone' = [clone EXCEPT ![p] = "idle"]
  BY DEF Abandon
<1> QED
  BY <1>1, <1>2 DEF Abandon

(* What a command that is accepted makes of the box of its team.           *)
LEMMA EffectFacts ==
  ASSUME TypeOK, NEW p \in Scripts, clone[p] # "idle", Effect(p)
  PROVE  /\ pool' \subseteq Teams
         /\ box' \in [Teams -> Box]
         /\ \A t \in Teams : t # p[2] => box'[t] = box[t] /\ (t \in pool' <=> t \in pool)
         /\ box'[p[2]].there =
              (clone[p] # "delete" /\ (clone[p] = "copy" \/ box[p[2]].there))
         /\ box'[p[2]].running =
              (clone[p] \in {"start", "run"} \/
                (clone[p] \notin {"delete", "copy", "stop"} /\ box[p[2]].running))
         /\ box'[p[2]].configured =
              (IF clone[p] \in {"delete", "copy"} THEN {}
               ELSE IF clone[p] \in Settings THEN box[p[2]].configured \cup {clone[p]}
               ELSE box[p[2]].configured)
         /\ p[2] \in pool' <=>
              (clone[p] = "createPool" \/ (clone[p] # "deletePool" /\ p[2] \in pool))
<1> DEFINE t == p[2]
           made == CASE clone[p] = "delete"    -> NoBox
                     [] clone[p] = "copy"      -> [NoBox EXCEPT !.there = TRUE]
                     [] clone[p] \in {"start", "run"} -> [box[t] EXCEPT !.running = TRUE]
                     [] clone[p] \in Settings  -> [box[t] EXCEPT !.configured = @ \cup {clone[p]}]
                     [] clone[p] = "stop"      -> [box[t] EXCEPT !.running = FALSE]
                     [] OTHER                  -> box[t]
<1>1. t \in Teams /\ box[t] \in Box /\ clone[p] \in Steps
  BY ScriptFacts DEF TypeOK
<1>2. /\ made \in Box
      /\ made.there = (clone[p] # "delete" /\ (clone[p] = "copy" \/ box[t].there))
      /\ made.running = (clone[p] \in {"start", "run"} \/
                (clone[p] \notin {"delete", "copy", "stop"} /\ box[t].running))
      /\ made.configured = (IF clone[p] \in {"delete", "copy"} THEN {}
                            ELSE IF clone[p] \in Settings THEN box[t].configured \cup {clone[p]}
                            ELSE box[t].configured)
  BY <1>1 DEF Box, NoBox, Settings, Steps
<1>3. box' = [box EXCEPT ![t] = made]
  BY DEF Effect
<1>4. /\ box' \in [Teams -> Box]
      /\ box'[t] = made
      /\ \A u \in Teams : u # t => box'[u] = box[u]
  BY <1>1, <1>2, <1>3 DEF TypeOK
<1>5. /\ pool' \subseteq Teams
      /\ t \in pool' <=> (clone[p] = "createPool" \/ (clone[p] # "deletePool" /\ t \in pool))
      /\ \A u \in Teams : u # t => (u \in pool' <=> u \in pool)
  <2>0. t \in Teams /\ pool \subseteq Teams
    BY <1>1 DEF TypeOK
  <2>1. \/ clone[p] = "createPool" /\ pool' = pool \cup {t}
        \/ clone[p] = "deletePool" /\ pool' = pool \ {t}
        \/ clone[p] \notin {"createPool", "deletePool"} /\ pool' = pool
    BY DEF Effect
  <2> HIDE DEF t, made
  <2> QED
    BY <2>0, <2>1
<1> QED
  BY <1>1, <1>2, <1>4, <1>5

LEMMA HaltedFacts ==
  ASSUME TypeOK
  PROVE  /\ Halted \in [Teams -> Box]
         /\ \A t \in Teams : /\ Halted[t].there = box[t].there
                             /\ Halted[t].configured = box[t].configured
  BY DEF TypeOK, Halted, Box

LEMMA NoBoxType == NoBox \in Box
  BY DEF NoBox, Box

LEMMA KilledFacts ==
  ASSUME GoDown
  PROVE  /\ clone' \in [Scripts -> Steps] /\ \A p \in Scripts : clone'[p] = "idle"
         /\ \A t \in Teams : t \notin damaged' => t \notin damaged /\ Idle(t)
  BY DEF GoDown, Killed, Steps

LEMMA StartAllFacts ==
  ASSUME TypeOK, StartAll
  PROVE  /\ box' \in [Teams -> Box] /\ failures' \in 0..MaxFailures
         /\ damaged \subseteq damaged' /\ damaged' \subseteq Teams
         /\ \A t \in Teams :
              /\ box'[t].there = box[t].there
              /\ box'[t].configured = box[t].configured
              /\ box'[t].running => box[t].running \/ box[t].there
              /\ t \notin damaged' => (box'[t].running <=> box[t].running \/ box[t].there)
<1>1. PICK S \in SUBSET Teams :
        /\ S # {} => failures < MaxFailures
        /\ failures' = IF S = {} THEN failures ELSE failures + 1
        /\ box' = [t \in Teams |-> [box[t] EXCEPT
             !.running = box[t].running \/ (box[t].there /\ t \notin S)]]
        /\ damaged' = damaged \cup S
  BY DEF StartAll
<1>2. failures' \in 0..MaxFailures
  BY <1>1, TeamBoxesAssumption DEF TypeOK, TeamBoxesAssumption
<1>3. damaged \subseteq damaged' /\ damaged' \subseteq Teams
  BY <1>1 DEF TypeOK
<1>4. ASSUME NEW t \in Teams
      PROVE  /\ box'[t] \in Box
             /\ box'[t].there = box[t].there
             /\ box'[t].configured = box[t].configured
             /\ box'[t].running = (box[t].running \/ (box[t].there /\ t \notin S))
  <2>1. box[t] \in Box
    BY DEF TypeOK
  <2> QED
    BY <1>1, <2>1 DEF Box
<1>5. box' \in [Teams -> Box]
  BY <1>1, <1>4
<1> QED
  BY <1>1, <1>2, <1>3, <1>4, <1>5

(***************************************************************************)
(* Type correctness is preserved.                                          *)
(***************************************************************************)
LEMMA TypeStep ==
  ASSUME TypeOK, [Next]_vars
  PROVE  TypeOK'
<1> USE DEF incusVars, histVars
<1>1. CASE UNCHANGED vars
  BY <1>1 DEF vars, TypeOK
<1>2. CASE Launch
  BY <1>2, NoBoxType DEF Launch, Wiped, TypeOK
<1>3. CASE BuildBase
  <2>1. clone' \in [Scripts -> Steps]
    BY <1>3 DEF BuildBase, TypeOK, Steps
  <2>2. \A p \in Scripts : clone'[p] # "idle" =>
          IF p[1] = Builder THEN node' = "teams" ELSE node' # "off"
    BY <1>3 DEF BuildBase, TypeOK
  <2> QED
    BY <1>3, <2>1, <2>2 DEF BuildBase, TypeOK
<1>4. CASE BaseFails
  BY <1>4, TeamBoxesAssumption DEF BaseFails, TypeOK, TeamBoxesAssumption
<1>5. CASE FinishBuild
  <2>1. \A p \in Scripts : p[1] = Builder => clone[p] = "idle"
    BY <1>5, ScriptFacts DEF FinishBuild
  <2> QED
    BY <1>5, <2>1 DEF FinishBuild, Marked, TypeOK
<1>6. CASE StartAll
  <2>1. \A p \in Scripts : clone[p] # "idle" => p[1] # Builder
    BY <1>6 DEF StartAll, TypeOK
  <2> QED
    BY <1>6, <2>1, StartAllFacts DEF StartAll, TypeOK
<1>7. CASE Exit \/ Stop
  <2>1. stops' \in 0..MaxStops /\ GoDown
    BY <1>7, TeamBoxesAssumption DEF Exit, Stop, TypeOK, TeamBoxesAssumption
  <2>2. damaged' \subseteq Teams
    BY <2>1 DEF GoDown, TypeOK
  <2> QED
    BY <2>1, <2>2, KilledFacts, HaltedFacts DEF GoDown, TypeOK
<1>9. ASSUME NEW p \in Resets, Reset(p)
      PROVE  TypeOK'
  <2>1. p \in Scripts /\ p[2] \in Teams /\ p[1] # Builder
    BY ScriptFacts
  <2>2. clone' \in [Scripts -> Steps] /\ \A q \in Scripts : q # p => clone'[q] = clone[q]
    BY <1>9, <2>1 DEF Reset, TypeOK, Steps
  <2>3. old' \subseteq Scripts /\ overlapped' \subseteq Teams
    BY <1>9, <2>1 DEF Reset, TypeOK
  <2> QED
    BY <1>9, <2>1, <2>2, <2>3 DEF Reset, TypeOK
<1>10. ASSUME NEW p \in Scripts, RunCommand(p)
       PROVE  TypeOK'
  <2>1. /\ pool' \subseteq Teams /\ box' \in [Teams -> Box]
        /\ clone' \in [Scripts -> Steps]
        /\ \A q \in Scripts : q # p => clone'[q] = clone[q]
    BY <1>10, EffectFacts, ContinueFacts DEF RunCommand
  <2>2. old' \subseteq Scripts /\ damaged' \subseteq Teams
    BY <1>10 DEF RunCommand, TypeOK
  <2> QED
    BY <1>10, <2>1, <2>2 DEF RunCommand, TypeOK
<1>11. ASSUME NEW p \in Scripts, Refuse(p)
       PROVE  TypeOK'
  <2>1. /\ failed' \in BOOLEAN /\ clone' \in [Scripts -> Steps]
        /\ \A q \in Scripts : q # p => clone'[q] = clone[q]
    BY <1>11, ContinueFacts, AbandonFacts DEF Refuse, TypeOK
  <2> QED
    BY <1>11, <2>1 DEF Refuse, TypeOK
<1>12. ASSUME NEW p \in Scripts, CommandFails(p)
       PROVE  TypeOK'
  <2>1. /\ failed' \in BOOLEAN /\ clone' \in [Scripts -> Steps]
        /\ \A q \in Scripts : q # p => clone'[q] = clone[q]
    BY <1>12, ContinueFacts, AbandonFacts DEF CommandFails, TypeOK
  <2>2. failures' \in 0..MaxFailures /\ damaged' \subseteq Teams
    BY <1>12, ScriptFacts, TeamBoxesAssumption DEF CommandFails, TypeOK, TeamBoxesAssumption
  <2> QED
    BY <1>12, <2>1, <2>2 DEF CommandFails, TypeOK
<1> QED
  BY <1>1, <1>2, <1>3, <1>4, <1>5, <1>6, <1>7, <1>9, <1>10, <1>11, <1>12
  DEF Next, StartScript, Command

(* A command leaves the other scripts and the other teams alone.           *)
LEMMA CommandFrame ==
  ASSUME TypeOK, NEW p \in Scripts, Command(p) \/ CommandFails(p)
  PROVE  /\ node' = node /\ ready' = ready /\ base' = base /\ overlapped' = overlapped
         /\ clone[p] # "idle"
         /\ \A q \in Scripts : q # p => clone'[q] = clone[q]
         /\ \A t \in Teams : t # p[2] =>
              box'[t] = box[t] /\ (t \in pool' <=> t \in pool) /\ (t \in damaged' <=> t \in damaged)
<1> USE DEF incusVars, histVars
<1>1. CASE RunCommand(p)
  BY <1>1, EffectFacts, ContinueFacts DEF RunCommand
<1>2. CASE Refuse(p)
  BY <1>2, ContinueFacts, AbandonFacts DEF Refuse
<1>3. CASE CommandFails(p)
  BY <1>3, ContinueFacts, AbandonFacts DEF CommandFails
<1> QED
  BY <1>1, <1>2, <1>3 DEF Command

(***************************************************************************)
(* The parts of the invariant, one by one.                                 *)
(***************************************************************************)
LEMMA OldStep ==
  ASSUME TypeOK, OldUntilCopied, [Next]_vars
  PROVE  OldUntilCopied'
<1> USE DEF incusVars, histVars, OldUntilCopied
<1>1. CASE UNCHANGED vars \/ Launch \/ BaseFails \/ FinishBuild \/ StartAll
  BY <1>1 DEF vars, Launch, BaseFails, FinishBuild, StartAll
<1>2. CASE BuildBase
  BY <1>2 DEF BuildBase, TypeOK
<1>3. CASE Exit \/ Stop
  BY <1>3, KilledFacts DEF Exit, Stop, GoDown, TypeOK
<1>4. ASSUME NEW p \in Resets, Reset(p)
      PROVE  OldUntilCopied'
  <2>1. /\ old' \subseteq old \cup {p}
        /\ clone'[p] = "delete"
        /\ \A q \in Scripts : q # p => clone'[q] = clone[q]
    BY <1>4, ScriptFacts DEF Reset, TypeOK
  <2> QED
    BY <2>1 DEF TypeOK
<1>5. ASSUME NEW p \in Scripts, RunCommand(p)
      PROVE  OldUntilCopied'
  <2>1. \A q \in Scripts : q # p => clone'[q] = clone[q]
    BY <1>5, CommandFrame DEF Command
  <2>2. clone'[p] = Following(p) /\ clone[p] # "idle"
    BY <1>5, ContinueFacts DEF RunCommand
  <2>3. old' \subseteq old /\ (clone[p] = "copy" => p \notin old')
    BY <1>5 DEF RunCommand, At
  <2>4. p \in old' => clone'[p] \in {"deletePool", "createPool", "copy"}
    BY <2>2, <2>3, FollowingFacts
  <2> QED
    BY <2>1, <2>3, <2>4 DEF TypeOK
<1>6. ASSUME NEW p \in Scripts, Refuse(p) \/ CommandFails(p)
      PROVE  OldUntilCopied'
  <2>1. \A q \in Scripts : q # p => clone'[q] = clone[q]
    BY <1>6, CommandFrame DEF Command
  <2>2. /\ old' = old /\ clone[p] # "idle"
        /\ clone'[p] = "idle" \/ (~MustSucceed(clone[p]) /\ clone'[p] = Following(p))
    BY <1>6, ContinueFacts, AbandonFacts DEF Refuse, CommandFails
  <2>3. p \in old => clone'[p] \in {"idle", "deletePool", "createPool"}
    BY <2>2, FollowingFacts DEF MustSucceed
  <2> QED
    BY <2>1, <2>2, <2>3 DEF TypeOK
<1> QED
  BY <1>1, <1>2, <1>3, <1>4, <1>5, <1>6 DEF Next, StartScript, Command

LEMMA MarkerStep ==
  ASSUME TypeOK, MarkerHolds, [Next]_vars
  PROVE  MarkerHolds'
<1> USE DEF incusVars, MarkerHolds, Building
<1>1. CASE UNCHANGED vars \/ Launch \/ StartScript \/ BaseFails \/ Stop
  BY <1>1 DEF vars, StartScript, Launch, Wiped, BuildBase, FinishBuild, Exit, StartAll,
              BaseFails, Stop, GoDown, TypeOK
<1>2. ASSUME NEW p \in Resets, Reset(p)
      PROVE  MarkerHolds'
  BY <1>2 DEF Reset
<1>3. ASSUME NEW p \in Scripts, Command(p) \/ CommandFails(p)
      PROVE  MarkerHolds'
  BY <1>3, CommandFrame
<1> QED
  BY <1>1, <1>2, <1>3 DEF Next

LEMMA PoolStep ==
  ASSUME TypeOK, BoxesOnPools, [Next]_vars
  PROVE  BoxesOnPools'
<1> USE DEF incusVars, BoxesOnPools
<1>1. CASE UNCHANGED vars \/ BaseFails \/ BuildBase \/ FinishBuild
  BY <1>1 DEF vars, BaseFails, BuildBase, FinishBuild
<1>2. CASE Launch
  BY <1>2 DEF Launch, Wiped, NoBox
<1>3. CASE Exit \/ Stop
  <2>1. \A t \in Teams : ~box'[t].running
    BY <1>3 DEF Exit, Stop, GoDown, Halted, TypeOK, Box
  <2> QED
    BY <1>3, <2>1, HaltedFacts DEF Exit, Stop, GoDown
<1>4. CASE StartAll
  BY <1>4, StartAllFacts DEF StartAll
<1>5. ASSUME NEW p \in Resets, Reset(p)
      PROVE  BoxesOnPools'
  BY <1>5 DEF Reset
<1>6. ASSUME NEW p \in Scripts, RunCommand(p)
      PROVE  BoxesOnPools'
  <2>1. clone[p] # "idle" /\ Effect(p) /\ p[2] \in Teams /\ clone[p] \in Steps
    BY <1>6, ScriptFacts DEF RunCommand, TypeOK
  <2>2. /\ clone[p] = "deletePool" => ~box[p[2]].there
        /\ clone[p] = "copy" => p[2] \in pool
        /\ clone[p] \in {"start", "run"} => box[p[2]].there
    BY <1>6 DEF RunCommand, Accepts
  <2> QED
    BY <2>1, <2>2, EffectFacts
<1>7. ASSUME NEW p \in Scripts, Refuse(p) \/ CommandFails(p)
      PROVE  BoxesOnPools'
  BY <1>7 DEF Refuse, CommandFails
<1> QED
  BY <1>1, <1>2, <1>3, <1>4, <1>5, <1>6, <1>7 DEF Next, StartScript, Command

LEMMA AloneStep ==
  ASSUME TypeOK, OneAtATime, [Next]_vars
  PROVE  OneAtATime'
<1> USE DEF incusVars, histVars, OneAtATime, Idle
<1>1. CASE UNCHANGED vars \/ BaseFails \/ FinishBuild \/ StartAll
  BY <1>1 DEF vars, BaseFails, FinishBuild, StartAll
<1>2. CASE Launch
  BY <1>2, ScriptFacts DEF Launch, TypeOK
<1>3. CASE BuildBase
  BY <1>3, ScriptFacts DEF BuildBase, TypeOK
<1>4. CASE Exit \/ Stop
  BY <1>4, ScriptFacts, KilledFacts DEF Exit, Stop
<1>5. ASSUME NEW p \in Resets, Reset(p)
      PROVE  OneAtATime'
  <2>1. /\ \A q \in Resets : q # p => clone'[q] = clone[q]
        /\ node' = node
        /\ \A t \in Teams \ overlapped' : t # p[2] => t \notin overlapped
        /\ p[2] \notin overlapped' => Idle(p[2]) /\ node = "up"
    BY <1>5, ScriptFacts DEF Reset, TypeOK
  <2> QED
    BY <2>1
<1>6. ASSUME NEW p \in Scripts, Command(p) \/ CommandFails(p)
      PROVE  OneAtATime'
  <2>1. \A q \in Resets : clone'[q] # "idle" => clone[q] # "idle"
    BY <1>6, CommandFrame, ScriptFacts
  <2> QED
    BY <1>6, <2>1, CommandFrame
<1> QED
  BY <1>1, <1>2, <1>3, <1>4, <1>5, <1>6 DEF Next, StartScript

(* A script that goes on has achieved what its next step presumes, and one *)
(* that comes to its end has achieved everything.                          *)
LEMMA Achieves ==
  ASSUME TypeOK, NEW p \in Scripts, RunCommand(p), Achieved(p[2], clone[p])
  PROVE  Achieved(p[2], IF clone[p] = "idle" THEN "run" ELSE clone[p])'
<1> DEFINE t == p[2]
<1>1. /\ clone[p] # "idle" /\ clone[p] \in Steps /\ t \in Teams
      /\ clone'[p] = Following(p)
  BY ContinueFacts, ScriptFacts DEF RunCommand, TypeOK
<1>2. /\ box'[t].there = (clone[p] # "delete" /\ (clone[p] = "copy" \/ box[t].there))
      /\ box'[t].configured = (IF clone[p] \in {"delete", "copy"} THEN {}
                               ELSE IF clone[p] \in Settings THEN box[t].configured \cup {clone[p]}
                               ELSE box[t].configured)
  BY EffectFacts DEF RunCommand
<1>3. CASE clone[p] \in {"delete", "deletePool", "createPool"}
  BY <1>1, <1>3, FollowingFacts DEF Achieved
<1>4. CASE clone[p] \in {"copy", "limits", "start", "boot"}
  BY <1>1, <1>2, <1>4, FollowingFacts DEF Achieved, Settings
<1>5. CASE clone[p] \in {"tunnel", "password"}
  BY <1>1, <1>2, <1>5, FollowingFacts DEF Achieved, Settings
<1>6. CASE clone[p] \in {"stop", "run"}
  BY <1>1, <1>2, <1>6, FollowingFacts DEF Achieved, Settings
<1> QED
  BY <1>1, <1>3, <1>4, <1>5, <1>6 DEF Steps

(* So has one that goes on after a command was refused or failed.          *)
LEMMA AchievesAnyway ==
  ASSUME TypeOK, NEW p \in Scripts, Refuse(p) \/ CommandFails(p), Achieved(p[2], clone[p]),
         clone'[p] # "idle"
  PROVE  Achieved(p[2], clone[p])'
<1>1. /\ box' = box /\ clone[p] # "idle"
      /\ clone'[p] = Following(p) /\ ~MustSucceed(clone[p])
  BY ContinueFacts, AbandonFacts DEF Refuse, CommandFails, incusVars
<1>2. CASE clone[p] = "start"
  BY <1>1, <1>2, FollowingFacts DEF Achieved
<1>3. CASE clone[p] \in {"delete", "deletePool"}
  BY <1>1, <1>3, FollowingFacts DEF Achieved
<1> QED
  BY <1>1, <1>2, <1>3 DEF MustSucceed

LEMMA BuildStep ==
  ASSUME TypeOK, OneAtATime, BuildsAdvance, [Next]_vars
  PROVE  BuildsAdvance'
<1> USE DEF incusVars, histVars, BuildsAdvance
<1>1. CASE UNCHANGED vars
  BY <1>1 DEF vars, Achieved
<1>2. CASE Launch \/ BaseFails \/ FinishBuild \/ Exit \/ StartAll \/ Stop
  BY <1>2 DEF Launch, BaseFails, FinishBuild, Exit, StartAll, Stop, GoDown
<1>3. CASE BuildBase
  <2>1. \A t \in Teams : clone'[<<Builder, t>>] = "createPool"
    BY <1>3, ScriptFacts DEF BuildBase
  <2> QED
    BY <2>1 DEF Achieved
<1>4. ASSUME NEW p \in Resets, Reset(p)
      PROVE  BuildsAdvance'
  <2>1. /\ \A t \in Teams : clone'[<<Builder, t>>] = clone[<<Builder, t>>]
        /\ UNCHANGED <<node, box, failed>>
    BY <1>4, ScriptFacts DEF Reset, TypeOK
  <2>2. node = "teams" => overlapped \subseteq overlapped'
    BY <1>4 DEF Reset
  <2> QED
    BY <2>1, <2>2 DEF Achieved
<1>5. ASSUME NEW p \in Scripts, Command(p) \/ CommandFails(p), node' = "teams", ~failed'
      PROVE  \A t \in Teams \ overlapped :
               Achieved(t, IF clone[<<Builder, t>>] = "idle" THEN "run"
                           ELSE clone[<<Builder, t>>])'
  <2>1. /\ node = "teams" /\ clone[p] # "idle" /\ p[2] \in Teams
        /\ p \notin Resets => p[1] = Builder /\ p = <<Builder, p[2]>>
    BY <1>5, CommandFrame, ScriptFacts DEF TypeOK
  <2>2. ~failed
    BY <1>5, AbandonFacts DEF Command, RunCommand, Refuse, CommandFails, TypeOK
  <2>3. ASSUME p \in Resets
        PROVE  p[2] \in overlapped
    BY <2>1, <2>3 DEF OneAtATime, Idle
  <2>4. ASSUME NEW t \in Teams \ overlapped, t # p[2]
        PROVE  Achieved(t, IF clone[<<Builder, t>>] = "idle" THEN "run"
                           ELSE clone[<<Builder, t>>])'
    <3>1. box'[t] = box[t] /\ clone'[<<Builder, t>>] = clone[<<Builder, t>>]
      BY <1>5, <2>1, <2>4, CommandFrame, ScriptFacts
    <3> QED
      BY <2>1, <2>2, <3>1 DEF Achieved
  <2>5. ASSUME p[2] \notin overlapped
        PROVE  Achieved(p[2], IF clone[p] = "idle" THEN "run" ELSE clone[p])'
    <3>1. p[1] = Builder /\ p = <<Builder, p[2]>> /\ Achieved(p[2], clone[p])
      BY <2>1, <2>2, <2>3, <2>5
    <3>2. CASE RunCommand(p)
      BY <3>1, <3>2, Achieves
    <3>3. CASE Refuse(p) \/ CommandFails(p)
      <4>1. clone'[p] # "idle"
        <5>1. ~Abandon(p)
          BY <1>5, <3>1, AbandonFacts
        <5>2. Continue(p) /\ ~MustSucceed(clone[p])
          BY <3>3, <5>1 DEF Refuse, CommandFails
        <5> QED
          BY <2>1, <5>2, ContinueFacts, FollowingFacts DEF MustSucceed
      <4> QED
        BY <3>1, <3>3, <4>1, AchievesAnyway
    <3> QED
      BY <1>5, <3>2, <3>3 DEF Command
  <2>6. p \notin Resets => p = <<Builder, p[2]>>
    BY <2>1
  <2> QED
    BY <2>1, <2>3, <2>4, <2>5, <2>6
<1>6. ASSUME NEW p \in Scripts, Command(p) \/ CommandFails(p)
      PROVE  BuildsAdvance'
  <2>1. overlapped' = overlapped
    BY <1>6, CommandFrame
  <2> QED
    BY <1>5, <1>6, <2>1
<1> QED
  BY <1>1, <1>2, <1>3, <1>4, <1>6 DEF Next, StartScript

(* Resets of a team that do not count as overlapping are at work on a node *)
(* that is up.                                                             *)
LEMMA ResetsAtWork ==
  ASSUME TypeOK, OneAtATime, NEW p \in Resets, clone[p] # "idle", p[2] \notin overlapped
  PROVE  node = "up"
  BY ScriptFacts DEF OneAtATime, Idle

(* A command of another script concerns another team, or one whose resets  *)
(* overlap.                                                                *)
LEMMA OthersAside ==
  ASSUME TypeOK, OneAtATime, NEW p \in Resets, NEW q \in Scripts, p # q,
         clone[p] # "idle", clone[q] # "idle", p[2] \notin overlapped
  PROVE  p[2] # q[2]
<1>1. q \in Resets
  BY ResetsAtWork, ScriptFacts DEF TypeOK
<1> QED
  BY <1>1, ScriptFacts DEF OneAtATime

LEMMA AdvanceStep ==
  ASSUME TypeOK, OneAtATime, ResetsAdvance, [Next]_vars
  PROVE  ResetsAdvance'
<1> SUFFICES ASSUME NEW p \in Resets, p[2] \notin overlapped', clone'[p] # "idle"
             PROVE  Achieved(p[2], clone[p])'
  BY DEF ResetsAdvance
<1> USE DEF incusVars, histVars
<1>0. p \in Scripts /\ p[2] \in Teams /\ p[1] # Builder
  BY ScriptFacts
<1>1. CASE UNCHANGED vars \/ BaseFails \/ FinishBuild
  BY <1>1 DEF vars, BaseFails, FinishBuild, ResetsAdvance, Achieved
<1>2. CASE Launch
  BY <1>0, <1>2 DEF Launch, TypeOK
<1>3. CASE BuildBase
  BY <1>0, <1>3, ResetsAtWork DEF BuildBase, TypeOK
<1>4. CASE StartAll
  BY <1>0, <1>4 DEF StartAll, OneAtATime, Idle
<1>5. CASE Exit \/ Stop
  BY <1>0, <1>5, KilledFacts DEF Exit, Stop
<1>6. ASSUME NEW q \in Resets, Reset(q)
      PROVE  Achieved(p[2], clone[p])'
  <2>1. CASE p = q
    BY <1>0, <1>6, <2>1 DEF Reset, TypeOK, Achieved
  <2>2. CASE p # q
    <3>1. clone'[p] = clone[p] /\ box' = box
      BY <1>0, <1>6, <2>2, ScriptFacts DEF Reset, TypeOK
    <3>2. p[2] \notin overlapped
      BY <1>6, <3>1 DEF Reset, Idle
    <3> QED
      BY <3>1, <3>2 DEF ResetsAdvance, Achieved
  <2> QED
    BY <2>1, <2>2
<1>7. ASSUME NEW q \in Scripts, Command(q) \/ CommandFails(q)
      PROVE  Achieved(p[2], clone[p])'
  <2>1. clone[q] # "idle" /\ p[2] \notin overlapped
    BY <1>7, CommandFrame
  <2>2. CASE p = q
    <3>1. Achieved(p[2], clone[p])
      BY <2>1, <2>2 DEF ResetsAdvance
    <3> QED
      BY <1>0, <1>7, <2>2, <3>1, Achieves, AchievesAnyway DEF Command
  <2>3. CASE p # q
    <3>1. clone'[p] = clone[p]
      BY <1>0, <1>7, <2>3, CommandFrame
    <3>2. box'[p[2]] = box[p[2]]
      BY <1>0, <1>7, <2>1, <2>3, <3>1, CommandFrame, OthersAside
    <3> QED
      BY <2>1, <3>1, <3>2 DEF ResetsAdvance, Achieved
  <2> QED
    BY <2>2, <2>3
<1> QED
  BY <1>1, <1>2, <1>3, <1>4, <1>5, <1>6, <1>7 DEF Next, StartScript

LEMMA AcceptStep ==
  ASSUME TypeOK, OneAtATime, ResetsAdvance, ResetsAccepted, [Next]_vars
  PROVE  ResetsAccepted'
<1> SUFFICES ASSUME NEW p \in Resets, p[2] \notin overlapped' \cup damaged', clone'[p] # "idle"
             PROVE  Accepted(p[2], clone[p])'
  BY DEF ResetsAccepted
<1> USE DEF incusVars, histVars
<1>0. p \in Scripts /\ p[2] \in Teams /\ p[1] # Builder
  BY ScriptFacts
<1>1. CASE UNCHANGED vars \/ BaseFails \/ FinishBuild
  BY <1>1 DEF vars, BaseFails, FinishBuild, ResetsAccepted, Accepted
<1>2. CASE Launch
  BY <1>0, <1>2 DEF Launch, TypeOK
<1>3. CASE BuildBase
  BY <1>0, <1>3, ResetsAtWork DEF BuildBase, TypeOK
<1>4. CASE StartAll
  BY <1>0, <1>4 DEF StartAll, OneAtATime, Idle
<1>5. CASE Exit \/ Stop
  BY <1>0, <1>5, KilledFacts DEF Exit, Stop
<1>6. ASSUME NEW q \in Resets, Reset(q)
      PROVE  Accepted(p[2], clone[p])'
  <2>1. CASE p = q
    BY <1>0, <1>6, <2>1 DEF Reset, TypeOK, Accepted
  <2>2. CASE p # q
    <3>1. clone'[p] = clone[p] /\ box' = box /\ pool' = pool /\ damaged' = damaged
      BY <1>0, <1>6, <2>2, ScriptFacts DEF Reset, TypeOK
    <3>2. p[2] \notin overlapped
      BY <1>6, <3>1 DEF Reset, Idle
    <3> QED
      BY <3>1, <3>2 DEF ResetsAccepted, Accepted
  <2> QED
    BY <2>1, <2>2
<1>7. ASSUME NEW q \in Scripts, Command(q) \/ CommandFails(q), p # q
      PROVE  Accepted(p[2], clone[p])'
  <2>1. clone[q] # "idle" /\ p[2] \notin overlapped /\ clone'[p] = clone[p]
    BY <1>0, <1>7, CommandFrame
  <2>2. /\ box'[p[2]] = box[p[2]] /\ (p[2] \in pool' <=> p[2] \in pool)
        /\ p[2] \notin damaged
    BY <1>0, <1>7, <2>1, CommandFrame, OthersAside
  <2> QED
    BY <2>1, <2>2 DEF ResetsAccepted, Accepted
<1>8. CASE RunCommand(p)
  <2>1. clone[p] \in Steps /\ clone[p] # "idle" /\ clone'[p] = Following(p) /\ clone[p] # "run"
    BY <1>0, <1>8, ContinueFacts, FollowingFacts DEF RunCommand, TypeOK
  <2>2. Accepted(p[2], clone[p])
    BY <1>8, <2>1 DEF RunCommand, At, ResetsAccepted
  <2>3. CASE clone[p] \in {"delete", "deletePool", "createPool"}
    BY <1>0, <1>8, <2>1, <2>2, <2>3, EffectFacts, FollowingFacts
    DEF RunCommand, Accepts, Accepted
  <2>4. CASE clone[p] \notin {"delete", "deletePool", "createPool"}
    BY <1>0, <1>8, <2>1, <2>2, <2>4, EffectFacts, FollowingFacts
    DEF RunCommand, Accepted, Steps
  <2> QED
    BY <2>3, <2>4
<1>9. CASE Refuse(p)
  <2>1. /\ clone[p] \in {"delete", "deletePool", "start"} /\ clone'[p] = Following(p)
        /\ box' = box /\ pool' = pool /\ p[2] \notin overlapped \cup damaged
    BY <1>0, <1>9, ContinueFacts, AbandonFacts DEF Refuse, MustSucceed
  <2>2. Accepted(p[2], clone[p]) /\ Achieved(p[2], clone[p]) /\ ~Accepts(p)
    BY <1>9, <2>1 DEF Refuse, ResetsAccepted, ResetsAdvance
  <2> QED
    BY <1>0, <2>1, <2>2, FollowingFacts DEF Accepts, Accepted, Achieved
<1>10. CASE CommandFails(p)
  BY <1>0, <1>10 DEF CommandFails
<1> QED
  BY <1>0, <1>1, <1>2, <1>3, <1>4, <1>5, <1>6, <1>7, <1>8, <1>9, <1>10
  DEF Next, StartScript, Command

LEMMA AllAchieved ==
  ASSUME TypeOK, NEW t \in Teams, Achieved(t, "run")
  PROVE  Complete(t)
  BY DEF TypeOK, Box, Achieved, Complete, Settings

LEMMA CompleteStep ==
  ASSUME IInv, [Next]_vars
  PROVE  BoxesComplete'
<1> SUFFICES ASSUME ready', NEW t \in Teams, t \notin overlapped' \cup damaged', Idle(t)'
             PROVE  Complete(t)'
  BY DEF BoxesComplete
<1> USE DEF incusVars, histVars
<1>0. /\ TypeOK /\ TypeOK' /\ MarkerHolds /\ OneAtATime /\ BuildsAdvance
      /\ ResetsAdvance /\ ResetsAccepted /\ BoxesComplete
  BY TypeStep DEF IInv
<1>1. CASE UNCHANGED vars \/ BaseFails
  <2>1. /\ box' = box /\ clone' = clone /\ ready /\ t \notin overlapped \cup damaged
    BY <1>1 DEF vars, BaseFails
  <2>2. Idle(t)
    BY <2>1 DEF Idle
  <2> QED
    BY <1>0, <2>1, <2>2 DEF BoxesComplete, Complete
<1>2. CASE Launch
  BY <1>0, <1>2 DEF Launch, BoxesComplete, Idle, Complete
<1>3. CASE BuildBase
  BY <1>0, <1>3 DEF BuildBase, MarkerHolds, Building
<1>4. CASE FinishBuild
  <2>1. Achieved(t, "run")
    BY <1>0, <1>4 DEF FinishBuild, Marked, BuildsAdvance
  <2> QED
    BY <1>0, <1>4, <2>1, AllAchieved DEF FinishBuild, Complete
<1>5. CASE Exit \/ Stop
  <2>1. /\ box' = Halted /\ ready /\ Idle(t) /\ t \notin overlapped \cup damaged
    BY <1>5, KilledFacts DEF Exit, Stop, GoDown
  <2> QED
    BY <1>0, <2>1, HaltedFacts DEF BoxesComplete, Complete
<1>6. CASE StartAll
  <2>1. /\ box'[t].there = box[t].there /\ box'[t].configured = box[t].configured
        /\ ready /\ Idle(t) /\ t \notin overlapped \cup damaged
    BY <1>0, <1>6, StartAllFacts DEF StartAll, Idle
  <2> QED
    BY <1>0, <2>1 DEF BoxesComplete, Complete
<1>7. ASSUME NEW p \in Resets, Reset(p)
      PROVE  Complete(t)'
  <2>1. /\ clone'[p] # "idle" /\ \A q \in Resets : q # p => clone'[q] = clone[q]
        /\ box' = box /\ ready /\ t \notin damaged
    BY <1>0, <1>7, ScriptFacts DEF Reset, TypeOK
  <2>2. t # p[2]
    BY <2>1, ScriptFacts DEF Idle
  <2>3. Idle(t) /\ t \notin overlapped
    BY <1>7, <2>1, <2>2 DEF Reset, Idle
  <2> QED
    BY <1>0, <2>1, <2>3 DEF BoxesComplete, Complete
<1>8. ASSUME NEW p \in Scripts, Command(p) \/ CommandFails(p)
      PROVE  Complete(t)'
  <2>1. /\ ready /\ clone[p] # "idle" /\ t \notin overlapped
        /\ \A q \in Scripts : q # p => clone'[q] = clone[q]
    BY <1>0, <1>8, CommandFrame
  <2>2. p \in Resets
    BY <1>0, <2>1, ScriptFacts DEF TypeOK, MarkerHolds, Building
  <2>3. CASE t # p[2]
    <3>1. box'[t] = box[t] /\ t \notin damaged
      BY <1>0, <1>8, <2>3, CommandFrame
    <3>2. Idle(t)
      BY <2>1, <2>3, ScriptFacts DEF Idle
    <3> QED
      BY <1>0, <2>1, <3>1, <3>2 DEF BoxesComplete, Complete
  <2>4. CASE t = p[2]
    <3>1. clone'[p] = "idle" /\ Achieved(p[2], clone[p])
      BY <1>0, <2>1, <2>2, <2>4 DEF Idle, ResetsAdvance
    <3>2. CASE RunCommand(p)
      <4>1. Achieved(t, "run")'
        BY <1>0, <2>4, <3>1, <3>2, Achieves
      <4> QED
        BY <1>0, <4>1, AllAchieved DEF TypeOK, Box, Achieved, Complete, Settings
    <3>3. ~Refuse(p)
      <4> SUFFICES ASSUME Refuse(p) PROVE FALSE
        OBVIOUS
      <4>1. t \notin damaged /\ clone[p] \in Steps /\ ~Accepts(p)
        BY <1>0 DEF Refuse, TypeOK
      <4>2. MustSucceed(clone[p])
        <5>1. ~MustSucceed(clone[p]) => clone'[p] = Following(p)
          BY <1>0, <2>1, ContinueFacts DEF Refuse
        <5> QED
          BY <1>0, <2>1, <3>1, <5>1, FollowingFacts DEF MustSucceed
      <4>3. Accepted(p[2], clone[p])
        BY <1>0, <2>1, <2>2, <2>4, <4>1 DEF ResetsAccepted
      <4>4. base
        BY <1>0, <2>1 DEF MarkerHolds
      <4> QED
        BY <2>1, <3>1, <4>1, <4>2, <4>3, <4>4
        DEF Accepts, Accepted, Achieved, MustSucceed, Steps
    <3>4. ~CommandFails(p)
      BY <2>2, <2>4, ScriptFacts DEF CommandFails
    <3> QED
      BY <1>8, <3>2, <3>3, <3>4 DEF Command
  <2> QED
    BY <2>3, <2>4
<1> QED
  BY <1>1, <1>2, <1>3, <1>4, <1>5, <1>6, <1>7, <1>8 DEF Next, StartScript

LEMMA RecoverStep ==
  ASSUME IInv, [Next]_vars
  PROVE  BoxesRecover'
<1> SUFFICES ASSUME NEW t \in Teams, t \notin damaged', Built(t)'
             PROVE  (IF box[t].there THEN node = "up" => box[t].running \/ Starting(t)
                     ELSE Rebuilding(t))'
  BY DEF BoxesRecover
<1> DEFINE Recovers ==
      IF box[t].there THEN node = "up" => box[t].running \/ Starting(t) ELSE Rebuilding(t)
<1> USE DEF incusVars, histVars
<1>0. /\ TypeOK /\ TypeOK' /\ MarkerHolds /\ BoxesOnPools
      /\ Built(t) /\ t \notin damaged => Recovers
      /\ <<Builder, t>> \in Scripts \ Resets
  BY TypeStep, ScriptFacts DEF IInv, BoxesRecover
<1>1. CASE UNCHANGED vars \/ BaseFails
  <2>1. /\ box' = box /\ clone' = clone /\ pool' = pool /\ Built(t) /\ t \notin damaged
        /\ node' = "up" => node = "up"
    BY <1>1 DEF vars, BaseFails, Built
  <2> QED
    BY <1>0, <2>1 DEF Rebuilding, Starting
<1>2. CASE Launch
  <2>1. ready /\ node' # "up"
    BY <1>2 DEF Launch, Built
  <2>2. /\ box' = box /\ clone' = clone /\ pool' = pool /\ Built(t) /\ t \notin damaged
    BY <1>2, <2>1 DEF Launch, Built
  <2> QED
    BY <1>0, <2>1, <2>2 DEF Rebuilding
<1>3. CASE BuildBase
  <2>1. ~ready' /\ clone'[<<Builder, t>>] = "createPool"
    BY <1>0, <1>3 DEF BuildBase, MarkerHolds, Building
  <2> QED
    BY <2>1 DEF Built
<1>4. CASE FinishBuild
  <2>1. /\ box' = box /\ clone' = clone /\ pool' = pool /\ t \notin damaged
        /\ node' # "up" /\ node' # "teams"
    BY <1>4 DEF FinishBuild
  <2>2. ready'
    BY <2>1 DEF Built
  <2>3. Built(t)
    BY <1>4, <2>2 DEF FinishBuild, Marked, Built
  <2> QED
    BY <1>0, <2>1, <2>3 DEF Rebuilding
<1>5. CASE Exit \/ Stop
  <2>1. box'[t].there = box[t].there /\ Idle(t) /\ t \notin damaged /\ node' # "up"
    BY <1>0, <1>5, HaltedFacts, KilledFacts DEF Exit, Stop, GoDown
  <2>2. Built(t)
    BY <1>5 DEF Exit, Stop, GoDown, Built
  <2>3. ~Rebuilding(t)
    BY <2>1 DEF Idle, Rebuilding
  <2> QED
    BY <1>0, <2>1, <2>2, <2>3
<1>7. CASE StartAll
  <2>1. /\ box'[t].there = box[t].there
        /\ box'[t].running <=> box[t].running \/ box[t].there
        /\ t \notin damaged
    BY <1>0, <1>7, StartAllFacts
  <2>2. clone' = clone /\ pool' = pool /\ Built(t)
    BY <1>7 DEF StartAll, Built
  <2> QED
    BY <1>0, <2>1, <2>2 DEF Rebuilding
<1>8. ASSUME NEW p \in Resets, Reset(p)
      PROVE  Recovers'
  <2>1. /\ clone[p] = "idle" /\ \A q \in Scripts : q # p => clone'[q] = clone[q]
        /\ box' = box /\ pool' = pool /\ node' = node /\ t \notin damaged
    BY <1>0, <1>8, ScriptFacts DEF Reset, TypeOK
  <2>2. Built(t)
    BY <1>0, <1>8, <2>1 DEF Reset, Built
  <2> QED
    BY <1>0, <2>1, <2>2, ScriptFacts DEF Rebuilding, Starting
<1>9. ASSUME NEW p \in Scripts, Command(p) \/ CommandFails(p), p # <<Builder, t>>
      PROVE  Recovers'
  <2>0. /\ node' = node /\ ready' = ready /\ base' = base /\ clone[p] # "idle"
        /\ \A q \in Scripts : q # p => clone'[q] = clone[q]
        /\ ~failed' => ~failed
    <3>1. ~failed' => ~failed
      BY <1>0, <1>9 DEF Command, RunCommand, Refuse, CommandFails, Abandon, TypeOK
    <3> QED
      BY <1>0, <1>9, <3>1, CommandFrame
  <2>1. /\ Built(t) /\ base /\ node' = node /\ clone[p] # "idle"
        /\ \A q \in Scripts : q # p => clone'[q] = clone[q]
    BY <1>0, <1>9, <2>0 DEF Built, MarkerHolds
  <2>2. t = p[2] => p \in Resets
    BY <1>9, ScriptFacts
  <2>3. CASE t # p[2]
    <3>1. box'[t] = box[t] /\ (t \in pool' <=> t \in pool) /\ t \notin damaged
      BY <1>0, <1>9, <2>3, CommandFrame
    <3>2. \A q \in Resets : q[2] = t => clone'[q] = clone[q]
      BY <2>1, <2>3, ScriptFacts
    <3>3. /\ Rebuilding(t) => Rebuilding(t)'
          /\ Starting(t) => Starting(t)'
      BY <3>1, <3>2 DEF Rebuilding, Starting
    <3> QED
      BY <1>0, <2>1, <3>1, <3>3
  <2>4. CASE t = p[2] /\ RunCommand(p)
    <3>1. /\ clone[p] \in Steps /\ clone'[p] = Following(p) /\ p[1] # Builder
      BY <1>0, <2>2, <2>4, ContinueFacts, ScriptFacts DEF RunCommand, TypeOK
    <3>2. /\ box'[t].there = (clone[p] # "delete" /\ (clone[p] = "copy" \/ box[t].there))
          /\ box'[t].running =
               (clone[p] \in {"start", "run"} \/
                 (clone[p] \notin {"delete", "copy", "stop"} /\ box[t].running))
          /\ t \in pool' <=> (clone[p] = "createPool" \/ (clone[p] # "deletePool" /\ t \in pool))
      BY <1>0, <2>1, <2>4, EffectFacts DEF RunCommand
    <3>3. Accepts(p) /\ (clone[p] # "run" => t \notin damaged)
      BY <2>4 DEF RunCommand, At
    <3>4. CASE clone[p] = "delete"
      BY <1>0, <2>1, <2>2, <2>4, <3>1, <3>2, <3>4, FollowingFacts DEF Rebuilding
    <3>5. CASE clone[p] = "deletePool"
      BY <1>0, <2>1, <2>2, <2>4, <3>1, <3>2, <3>3, <3>5, FollowingFacts DEF Rebuilding, Accepts
    <3>6. CASE clone[p] = "createPool"
      <4>1. clone'[p] = "copy" /\ t \in pool'
        BY <1>0, <2>1, <3>1, <3>2, <3>6, FollowingFacts
      <4>2. box'[t].there = box[t].there /\ box'[t].running = box[t].running
        BY <1>0, <3>2, <3>6 DEF TypeOK, Box
      <4>3. Rebuilding(t)'
        BY <2>2, <2>4, <4>1 DEF Rebuilding
      <4>4. Starting(t) => Starting(t)'
        BY <2>1, <3>6, ScriptFacts DEF Starting
      <4> QED
        BY <1>0, <2>1, <3>3, <3>6, <4>2, <4>3, <4>4
    <3>7. CASE clone[p] = "copy"
      BY <1>0, <2>1, <2>2, <2>4, <3>1, <3>2, <3>7, FollowingFacts DEF Starting
    <3>8. CASE clone[p] \in {"start", "run"}
      BY <2>4, <3>2, <3>3, <3>8 DEF Accepts
    <3>9. CASE clone[p] \in {"limits", "boot", "tunnel", "password", "stop"}
      <4>1. /\ t \notin damaged /\ (t \in pool' <=> t \in pool)
            /\ box'[t].there = box[t].there
        BY <1>0, <3>2, <3>3, <3>9 DEF TypeOK, Box
      <4>2. Rebuilding(t) => Rebuilding(t)'
        BY <2>1, <3>9, <4>1, ScriptFacts DEF Rebuilding
      <4>3. CASE clone[p] \in {"limits", "stop"}
        <5>1. Starting(t)'
          BY <1>0, <2>1, <2>2, <2>4, <3>1, <4>3, FollowingFacts DEF Starting
        <5> QED
          BY <1>0, <2>1, <4>1, <4>2, <5>1
      <4>4. CASE clone[p] \in {"boot", "tunnel", "password"}
        <5>1. box'[t].running
          BY <2>4, <3>2, <3>3, <4>4 DEF Accepts
        <5> QED
          BY <1>0, <2>1, <4>1, <4>2, <5>1
      <4> QED
        BY <3>9, <4>3, <4>4
    <3> QED
      BY <2>1, <3>1, <3>4, <3>5, <3>6, <3>7, <3>8, <3>9 DEF Steps
  <2>5. CASE t = p[2] /\ Refuse(p)
    <3>1. box' = box /\ pool' = pool /\ t \notin damaged /\ ~Accepts(p)
      BY <2>5 DEF Refuse
    <3>2. ~MustSucceed(clone[p]) => clone'[p] = Following(p)
      BY <1>0, <2>1, <2>5, ContinueFacts DEF Refuse
    <3>3. ASSUME ~box[t].there
          PROVE  Rebuilding(t)'
      <4>1. PICK q \in Resets :
              /\ q[2] = t
              /\ \/ clone[q] \in {"delete", "deletePool"}
                 \/ clone[q] = "createPool" /\ t \notin pool
                 \/ clone[q] = "copy" /\ t \in pool
        BY <1>0, <2>1, <3>1, <3>3 DEF Rebuilding
      <4>2. CASE q # p
        BY <2>1, <3>1, <4>1, <4>2, ScriptFacts DEF Rebuilding
      <4>3. CASE q = p
        <5>1. clone[p] \notin {"createPool", "copy"}
          BY <2>1, <2>5, <3>1, <3>3, <4>1, <4>3 DEF Accepts
        <5>2. clone[p] = "deletePool" => t \notin pool
          BY <2>5, <3>1, <3>3 DEF Accepts
        <5>3. \/ clone'[p] = "deletePool"
              \/ clone'[p] = "createPool" /\ t \notin pool
          BY <1>0, <2>1, <3>2, <4>1, <4>3, <5>1, <5>2, FollowingFacts DEF MustSucceed
        <5> QED
          BY <2>2, <2>5, <3>1, <5>3 DEF Rebuilding
      <4> QED
        BY <4>2, <4>3
    <3>4. ASSUME box[t].there, node = "up"
          PROVE  box[t].running \/ Starting(t)'
      <4> SUFFICES ASSUME ~box[t].running
                   PROVE  Starting(t)'
        OBVIOUS
      <4>1. PICK q \in Resets : q[2] = t /\ clone[q] \in {"delete", "limits", "start", "run"}
        BY <1>0, <2>1, <3>1, <3>4 DEF Starting
      <4>2. q # p
        BY <2>5, <3>1, <3>4, <4>1 DEF Accepts
      <4> QED
        BY <2>1, <4>1, <4>2, ScriptFacts DEF Starting
    <3> QED
      BY <2>1, <3>1, <3>3, <3>4
  <2>6. CASE t = p[2] /\ CommandFails(p)
    BY <2>2, <2>6, ScriptFacts DEF CommandFails
  <2> QED
    BY <1>9, <2>3, <2>4, <2>5, <2>6 DEF Command
<1>10. ASSUME NEW p \in Scripts, Command(p) \/ CommandFails(p), p = <<Builder, t>>
       PROVE  Recovers'
  <2>1. /\ node' = node /\ ready' = ready /\ clone[p] # "idle" /\ node = "teams"
        /\ p[1] = Builder /\ p[2] = t
    BY <1>0, <1>10, CommandFrame DEF TypeOK
  <2>2. ~ready
    BY <1>0, <2>1 DEF MarkerHolds, Building
  <2>3. ~failed' /\ clone'[p] = "idle"
    BY <1>10, <2>1, <2>2 DEF Built
  <2>4. ~Abandon(p)
    BY <2>1, <2>3 DEF Abandon
  <2>5. Following(p) = "idle" => clone[p] \in {"stop", "run"}
    BY <1>0, <2>1, FollowingFacts DEF TypeOK, Steps
  <2>6. CASE RunCommand(p)
    <3>1. clone[p] \in {"stop", "run"} /\ Accepts(p)
      BY <1>0, <2>1, <2>3, <2>5, <2>6, ContinueFacts DEF RunCommand
    <3>2. box[t].there
      BY <1>0, <2>1, <3>1 DEF Accepts, BoxesOnPools
    <3>3. box'[t].there
      BY <1>0, <2>1, <2>6, <3>1, <3>2, EffectFacts DEF RunCommand
    <3> QED
      BY <2>1, <3>3
  <2>7. CASE Refuse(p) \/ CommandFails(p)
    <3>1. Continue(p) /\ clone[p] \notin {"stop", "run"}
      BY <2>4, <2>7 DEF Refuse, CommandFails, MustSucceed
    <3> QED
      BY <1>0, <2>1, <2>3, <2>5, <3>1, ContinueFacts
  <2> QED
    BY <1>10, <2>6, <2>7 DEF Command
<1> QED
  BY <1>1, <1>2, <1>3, <1>4, <1>5, <1>7, <1>8, <1>9, <1>10 DEF Next, StartScript

-----------------------------------------------------------------------------
LEMMA InitIInv == Init => IInv
<1> SUFFICES ASSUME Init PROVE IInv
  OBVIOUS
<1> USE DEF Init
<1>1. TypeOK
  <2>1. box \in [Teams -> Box] /\ clone \in [Scripts -> Steps]
    BY NoBoxType DEF Steps
  <2>2. failures \in 0..MaxFailures /\ stops \in 0..MaxStops
    BY TeamBoxesAssumption DEF TeamBoxesAssumption
  <2> QED
    BY <2>1, <2>2 DEF TypeOK
<1>2. OldUntilCopied /\ MarkerHolds /\ BoxesOnPools
  BY DEF OldUntilCopied, MarkerHolds, Building, BoxesOnPools, NoBox
<1>3. OneAtATime /\ BuildsAdvance /\ ResetsAdvance /\ ResetsAccepted
  BY ScriptFacts DEF OneAtATime, Idle, BuildsAdvance, ResetsAdvance, ResetsAccepted
<1>4. BoxesComplete /\ BoxesRecover
  BY DEF BoxesComplete, BoxesRecover, Built
<1> QED
  BY <1>1, <1>2, <1>3, <1>4 DEF IInv

(* The invariant holds in every reachable state of start.sh, customize-vm  *)
(* and its resets.                                                         *)
THEOREM Invariance == Spec => []IInv
<1>1. IInv /\ [Next]_vars => IInv'
  BY TypeStep, OldStep, MarkerStep, PoolStep, AloneStep, BuildStep, AdvanceStep, AcceptStep,
     CompleteStep, RecoverStep
  DEF IInv
<1> QED
  BY InitIInv, <1>1, PTL DEF Spec

(* Every reachable state is well formed; in particular no script outlives  *)
(* the container (start.sh, cleanup).                                      *)
THEOREM TypeCorrect == Spec => []TypeOK
<1>1. IInv => TypeOK
  BY DEF IInv
<1> QED
  BY Invariance, <1>1, PTL

(* A reset that reports success (reset_box) leaves a clone younger than    *)
(* itself, whatever fails and however many resets overlap.                 *)
THEOREM Freshness == Spec => ResetIsFresh
<1>1. IInv => ResetStep
  BY DEF IInv, OldUntilCopied, ResetStep, Succeeds
<1>2. IInv /\ [Next]_vars => [ResetStep]_vars
  BY <1>1
<1> QED
  BY Invariance, <1>2, PTL DEF Spec, ResetIsFresh

(* A box that nothing damaged and whose resets did not overlap has its     *)
(* keys, its tunnel and its password (generate_customize_script).          *)
THEOREM Completeness == Spec => []BoxComplete
<1>1. IInv => BoxComplete
  BY DEF IInv, MarkerHolds, BoxesComplete, Complete, BoxComplete
<1> QED
  BY Invariance, <1>1, PTL

(* A team whose box nothing damaged has it running, for any number of      *)
(* teams, terminals and overlapping resets: destroy_box and the rebuild    *)
(* never strand a pool.                                                    *)
THEOREM Survival == Spec => []BoxSurvives
<1>1. IInv => BoxSurvives
  BY DEF IInv, MarkerHolds, BoxesRecover, Built, Rebuilding, Starting, Idle, BoxSurvives
<1> QED
  BY Invariance, <1>1, PTL

-----------------------------------------------------------------------------
(* Proofs about NetworkControl.                                            *)

USE NetworkControlAssumption DEF NetworkControlAssumption

(* The calls of each script. *)
LEMMA ScriptsSpelledOut ==
  ASSUME NEW c \in Commands
  PROVE  /\ c.name = "unlocked" => Script(c) = Clear
         /\ c.name = "locked" => Script(c) =
              <<<<"delete", FreezeRule>>, <<"delete", LockRule>>, <<"append", LockRule>>>>
         /\ c.name = "frozen" => Script(c) =
              <<<<"delete", FreezeRule>>, <<"delete", LockRule>>, <<"append", FreezeRule>>>>
         /\ c.name = "ban" => Script(c) =
              <<<<"ensure", From(c.team)>>, <<"ensure", To(c.team)>>>>
         /\ c.name = "unban" => Script(c) =
              <<<<"delete", From(c.team)>>, <<"delete", To(c.team)>>>>
<1>1. ASSUME NEW x \in IptablesCalls, NEW y \in IptablesCalls, NEW z \in IptablesCalls
      PROVE  <<x, y>> \o <<z>> = <<x, y, z>>
  <2>. DEFINE s == <<x, y>>
              t == <<z>>
              u == <<x, y, z>>
  <2>1. s \in Seq(IptablesCalls) /\ t \in Seq(IptablesCalls)
    OBVIOUS
  <2>2. /\ Len(s) = 2 /\ s[1] = x /\ s[2] = y /\ Len(t) = 1 /\ t[1] = z
        /\ u \in Seq(IptablesCalls) /\ Len(u) = 3 /\ u[1] = x /\ u[2] = y /\ u[3] = z
    OBVIOUS
  <2>. HIDE DEF s, t, u
  <2>3. /\ s \o t \in Seq(IptablesCalls) /\ Len(s \o t) = 3
        /\ (s \o t)[1] = x /\ (s \o t)[2] = y /\ (s \o t)[3] = z
    <3>1. /\ s \o t \in Seq(IptablesCalls) /\ Len(s \o t) = Len(s) + Len(t)
          /\ \A i \in 1..Len(s) + Len(t) :
               (s \o t)[i] = IF i <= Len(s) THEN s[i] ELSE t[i - Len(s)]
      BY <2>1, ConcatProperties
    <3>. QED
      BY <2>2, <3>1
  <2>4. \A i \in 1..Len(s \o t) : (s \o t)[i] = u[i]
    BY <2>2, <2>3
  <2>5. s \o t = u
    BY <2>2, <2>3, <2>4, SeqEqual
  <2>. QED
    BY <2>5 DEF s, t, u
<1>. QED
  <2>1. {<<"delete", FreezeRule>>, <<"delete", LockRule>>, <<"append", FreezeRule>>,
         <<"append", LockRule>>} \subseteq IptablesCalls
    BY DEF IptablesCalls, Rules
  <2>. QED
    BY <1>1, <2>1 DEF Script, Clear

LEMMA RulesApart ==
  /\ FreezeRule # LockRule /\ FreezeRule \in Rules /\ LockRule \in Rules
  /\ \A t \in Bannable : /\ From(t) \in Rules /\ To(t) \in Rules
                      /\ From(t) \notin {FreezeRule, LockRule}
                      /\ To(t) \notin {FreezeRule, LockRule}
BY DEF Rules, FreezeRule, LockRule, From, To

LEMMA ScriptShape ==
  ASSUME NEW c \in Commands
  PROVE  LET s == Script(c)
         IN  /\ s \in Seq(IptablesCalls) /\ s # <<>>
             /\ Has(s, <<"append", LockRule>>) => c.name = "locked"
             /\ \A i \in DOMAIN s : s[i] \in Opening =>
                  c.name = "unlocked" \/ s[Len(s)] \in Closing
             /\ \A i \in DOMAIN s : s[i][1] = "ensure" =>
                  s[i][2] \notin {FreezeRule, LockRule}
<1>1. CASE c.name = "unlocked"
  <2>1. Script(c) = <<<<"delete", FreezeRule>>, <<"delete", LockRule>>>>
    BY <1>1, ScriptsSpelledOut DEF Clear
  <2>. QED
    BY <1>1, <2>1, RulesApart DEF IptablesCalls, Has
<1>2. CASE c.name = "locked"
  <2>1. Script(c) =
          <<<<"delete", FreezeRule>>, <<"delete", LockRule>>, <<"append", LockRule>>>>
    BY <1>2, ScriptsSpelledOut
  <2>. QED
    BY <1>2, <2>1, RulesApart DEF IptablesCalls, Has, Closing
<1>3. CASE c.name = "frozen"
  <2>1. Script(c) =
          <<<<"delete", FreezeRule>>, <<"delete", LockRule>>, <<"append", FreezeRule>>>>
    BY <1>3, ScriptsSpelledOut
  <2>. QED
    BY <1>3, <2>1, RulesApart DEF IptablesCalls, Has, Closing
<1>4. CASE c.name = "ban"
  <2>1. c.team \in Bannable
    BY <1>4 DEF Commands, NetworkStates
  <2>2. Script(c) = <<<<"ensure", From(c.team)>>, <<"ensure", To(c.team)>>>>
    BY <1>4, ScriptsSpelledOut
  <2>. QED
    BY <1>4, <2>1, <2>2, RulesApart DEF IptablesCalls, Has, Opening
<1>5. CASE c.name = "unban"
  <2>1. c.team \in Bannable
    BY <1>5 DEF Commands, NetworkStates
  <2>2. Script(c) = <<<<"delete", From(c.team)>>, <<"delete", To(c.team)>>>>
    BY <1>5, ScriptsSpelledOut
  <2>. QED
    BY <1>5, <2>1, <2>2, RulesApart DEF IptablesCalls, Has, Opening
<1>. QED
  BY <1>1, <1>2, <1>3, <1>4, <1>5 DEF Commands, NetworkStates

-----------------------------------------------------------------------------
(* The scripts that run on the routers.                                    *)

RouterScripts == [Routers -> [Processes -> Seq(IptablesCalls)]]

ScriptInv ==
  /\ rules \in [Routers -> [Rules -> Nat]]
  /\ script \in RouterScripts
  /\ LockAsked /\ ClosesAgain /\ BansAreEnsured /\ StaysClosed

(* Whatever else is asked, the scripts that run stay what they are. *)
LEMMA MoreAsked ==
  ASSUME ScriptInv, UNCHANGED <<rules, script>>, asked \subseteq asked'
  PROVE  ScriptInv'
<1>1. LockAsked'
  BY DEF ScriptInv, LockAsked
<1>2. ClosesAgain'
  BY DEF ScriptInv, ClosesAgain
<1>3. BansAreEnsured'
  BY DEF ScriptInv, BansAreEnsured
<1>4. StaysClosed'
  BY DEF ScriptInv, StaysClosed
<1>. QED
  BY <1>1, <1>2, <1>3, <1>4 DEF ScriptInv

(* A script starts where none is running. *)
LEMMA ScriptStarts ==
  ASSUME ScriptInv, NEW r \in Routers, NEW p \in Processes, NEW c \in Commands,
         script[r][p] = <<>>,
         script' = [script EXCEPT ![r][p] = Script(c)],
         c.team = NoTeam => c.name \in asked,
         UNCHANGED <<rules, asked>>
  PROVE  ScriptInv'
<1>. DEFINE s == Script(c)
<1>1. /\ s \in Seq(IptablesCalls)
      /\ Has(s, <<"append", LockRule>>) => c.name = "locked"
      /\ \A i \in DOMAIN s : s[i] \in Opening =>
           c.name = "unlocked" \/ s[Len(s)] \in Closing
      /\ \A i \in DOMAIN s : s[i][1] = "ensure" =>
           s[i][2] \notin {FreezeRule, LockRule}
  BY ScriptShape
<1>2. c.name \in {"locked", "unlocked"} => c.name \in asked
  BY DEF Commands
<1>. HIDE DEF s
<1>3. /\ script \in RouterScripts /\ script' \in RouterScripts
      /\ script'[r][p] = s
      /\ \A q \in Routers, o \in Processes :
           q # r \/ o # p => script'[q][o] = script[q][o]
  BY <1>1 DEF ScriptInv, RouterScripts, s
<1>4. LockAsked'
  <2>. SUFFICES ASSUME NEW q \in Routers, "locked" \notin asked
                PROVE  /\ rules[q][LockRule] = 0
                       /\ \A o \in Processes : ~Has(script'[q][o], <<"append", LockRule>>)
    BY DEF LockAsked, Has
  <2>1. /\ rules[q][LockRule] = 0
        /\ \A o \in Processes : ~Has(script[q][o], <<"append", LockRule>>)
    BY DEF ScriptInv, LockAsked
  <2>. QED
    BY <1>1, <1>2, <1>3, <2>1
<1>5. ClosesAgain'
  <2>. SUFFICES ASSUME NEW q \in Routers, NEW o \in Processes,
                       NEW i \in DOMAIN script'[q][o], script'[q][o][i] \in Opening,
                       "unlocked" \notin asked
                PROVE  script'[q][o][Len(script'[q][o])] \in Closing
    BY DEF ClosesAgain, Opening, Closing
  <2>1. CASE q = r /\ o = p
    BY <1>1, <1>2, <1>3, <2>1
  <2>2. CASE q # r \/ o # p
    BY <1>3, <2>2 DEF ScriptInv, ClosesAgain
  <2>. QED
    BY <2>1, <2>2
<1>6. BansAreEnsured'
  <2>. SUFFICES ASSUME NEW q \in Routers, NEW o \in Processes,
                       NEW i \in DOMAIN script'[q][o], script'[q][o][i][1] = "ensure"
                PROVE  script'[q][o][i][2] \notin {FreezeRule, LockRule}
    BY DEF BansAreEnsured
  <2>1. CASE q = r /\ o = p
    BY <1>1, <1>3, <2>1
  <2>2. CASE q # r \/ o # p
    BY <1>3, <2>2 DEF ScriptInv, BansAreEnsured
  <2>. QED
    BY <2>1, <2>2
<1>7. StaysClosed'
  <2>. SUFFICES ASSUME NEW q \in Routers, "unlocked" \notin asked,
                       rules[q][FreezeRule] <= 0, rules[q][LockRule] <= 0
                PROVE  \E o \in Processes :
                         /\ script'[q][o] # <<>>
                         /\ script'[q][o][Len(script'[q][o])] \in Closing
    BY RulesApart DEF StaysClosed, Closing, ScriptInv
  <2>1. PICK o \in Processes :
          script[q][o] # <<>> /\ script[q][o][Len(script[q][o])] \in Closing
    BY RulesApart DEF ScriptInv, StaysClosed
  <2>2. script'[q][o] = script[q][o]
    BY <1>3, <2>1
  <2>. QED
    BY <2>1, <2>2
<1>. QED
  BY <1>3, <1>4, <1>5, <1>6, <1>7 DEF ScriptInv

LEMMA RouterReboots ==
  ASSUME ScriptInv, NEW r \in Routers, Reboot(r)
  PROVE  ScriptInv'
<1>1. /\ rules' \in [Routers -> [Rules -> Nat]] /\ rules'[r] = BootRules
      /\ \A q \in Routers : q # r => rules'[q] = rules[q]
  BY DEF ScriptInv, Reboot, BootRules
<1>2. /\ script' \in RouterScripts /\ script \in RouterScripts
      /\ \A p \in Processes : script'[r][p] = <<>>
      /\ \A q \in Routers : q # r => script'[q] = script[q]
  BY DEF ScriptInv, Reboot, RouterScripts
<1>3. asked' = asked
  BY DEF Reboot
<1>4. BootRules[FreezeRule] = 1 /\ BootRules[LockRule] = 0
  BY RulesApart DEF BootRules
<1>5. LockAsked'
  <2>. SUFFICES ASSUME NEW q \in Routers, "locked" \notin asked
                PROVE  /\ rules'[q][LockRule] = 0
                       /\ \A o \in Processes : ~Has(script'[q][o], <<"append", LockRule>>)
    BY <1>3 DEF LockAsked, Has
  <2>1. CASE q = r
    BY <1>1, <1>2, <1>4, <2>1 DEF Has
  <2>2. CASE q # r
    BY <1>1, <1>2, <2>2 DEF ScriptInv, LockAsked
  <2>. QED
    BY <2>1, <2>2
<1>6. ClosesAgain'
  <2>. SUFFICES ASSUME NEW q \in Routers, NEW o \in Processes,
                       NEW i \in DOMAIN script'[q][o], script'[q][o][i] \in Opening,
                       "unlocked" \notin asked
                PROVE  script'[q][o][Len(script'[q][o])] \in Closing
    BY <1>3 DEF ClosesAgain, Opening, Closing
  <2>1. q # r
    BY <1>2
  <2>. QED
    BY <1>2, <2>1 DEF ScriptInv, ClosesAgain
<1>7. BansAreEnsured'
  <2>. SUFFICES ASSUME NEW q \in Routers, NEW o \in Processes,
                       NEW i \in DOMAIN script'[q][o], script'[q][o][i][1] = "ensure"
                PROVE  script'[q][o][i][2] \notin {FreezeRule, LockRule}
    BY DEF BansAreEnsured
  <2>1. q # r
    BY <1>2
  <2>. QED
    BY <1>2, <2>1 DEF ScriptInv, BansAreEnsured
<1>8. StaysClosed'
  <2>. SUFFICES ASSUME NEW q \in Routers, "unlocked" \notin asked
                PROVE  \/ rules'[q][FreezeRule] > 0 \/ rules'[q][LockRule] > 0
                       \/ \E o \in Processes :
                            /\ script'[q][o] # <<>>
                            /\ script'[q][o][Len(script'[q][o])] \in Closing
    BY <1>3 DEF StaysClosed, Closing
  <2>1. CASE q = r
    BY <1>1, <1>4, <2>1
  <2>2. CASE q # r
    BY <1>1, <1>2, <2>2 DEF ScriptInv, StaysClosed
  <2>. QED
    BY <2>1, <2>2
<1>. QED
  BY <1>1, <1>2, <1>5, <1>6, <1>7, <1>8 DEF ScriptInv

(* What one call leaves of its script: the rest, perhaps after the append  *)
(* of a ban that ensure found missing.                                     *)
LEMMA CallRun ==
  ASSUME ScriptInv, NEW r \in Routers, NEW p \in Processes, RunCall(r, p)
  PROVE  LET s == script[r][p]
             n == script'[r][p]
         IN  /\ s \in Seq(IptablesCalls) /\ s # <<>> /\ s[1] \in IptablesCalls
             /\ script' \in RouterScripts /\ asked' = asked
             /\ \A q \in Routers, o \in Processes :
                  q # r \/ o # p => script'[q][o] = script[q][o]
             /\ \A i \in DOMAIN n :
                  \/ Len(s) > 1 /\ \E j \in DOMAIN s : n[i] = s[j]
                  \/ n[i][1] = "append" /\ n[i][2] \notin {FreezeRule, LockRule}
             /\ Len(s) > 1 => n # <<>> /\ n[Len(n)] = s[Len(s)]
             /\ rules' \in [Routers -> [Rules -> Nat]]
             /\ \A q \in Routers, rule \in Rules :
                  q # r \/ rule # s[1][2] => rules'[q][rule] = rules[q][rule]
             /\ s[1][1] = "append" => rules'[r][s[1][2]] > 0
             /\ s[1][1] = "delete" => rules'[r][s[1][2]] <= rules[r][s[1][2]]
             /\ s[1][1] = "ensure" => rules' = rules
<1>. DEFINE s == script[r][p]
            rest == Tail(s)
            action == Head(s)[1]
            rule == Head(s)[2]
            more == <<<<"append", rule>>>> \o rest
<1>1. /\ script \in RouterScripts /\ s \in Seq(IptablesCalls) /\ s # <<>>
      /\ rules \in [Routers -> [Rules -> Nat]] /\ asked' = asked
  BY DEF ScriptInv, RouterScripts, RunCall
<1>2. Head(s) = s[1] /\ s[1] \in IptablesCalls /\ Len(s) \in Nat \ {0}
  BY <1>1
<1>3. /\ rest \in Seq(IptablesCalls) /\ Len(rest) = Len(s) - 1
      /\ \A i \in 1..Len(rest) : rest[i] = s[i + 1]
  BY <1>1
<1>4. action \in {"delete", "append", "ensure"} /\ rule \in Rules
  BY <1>2 DEF IptablesCalls
<1>5. /\ more \in Seq(IptablesCalls) /\ Len(more) = Len(s)
      /\ more[1] = <<"append", rule>>
      /\ \A i \in 2..Len(s) : more[i] = s[i]
  <2>. DEFINE first == <<<<"append", rule>>>>
  <2>1. first \in Seq(IptablesCalls) /\ Len(first) = 1 /\ first[1] = <<"append", rule>>
    BY <1>4 DEF IptablesCalls
  <2>. HIDE DEF first, rest
  <2>2. /\ first \o rest \in Seq(IptablesCalls)
        /\ Len(first \o rest) = Len(first) + Len(rest)
        /\ \A i \in 1..Len(first) + Len(rest) :
             (first \o rest)[i] = IF i <= Len(first) THEN first[i] ELSE rest[i - Len(first)]
    BY <1>3, <2>1, ConcatProperties
  <2>. HIDE DEF s
  <2>3. first \o rest = more
    BY DEF first
  <2>4. /\ first \o rest \in Seq(IptablesCalls) /\ Len(first \o rest) = Len(s)
        /\ (first \o rest)[1] = <<"append", rule>>
        /\ \A i \in 2..Len(s) : (first \o rest)[i] = s[i]
    BY <1>2, <1>3, <2>1, <2>2
  <2>. HIDE DEF first, more
  <2>. QED
    BY <2>3, <2>4
<1>6. /\ action = "delete" =>
           /\ rules' = [rules EXCEPT ![r][rule] =
                          IF rules[r][rule] > 0 THEN rules[r][rule] - 1 ELSE 0]
           /\ script' = [script EXCEPT ![r][p] = rest]
      /\ action = "append" =>
           /\ rules' = [rules EXCEPT ![r][rule] = rules[r][rule] + 1]
           /\ script' = [script EXCEPT ![r][p] = rest]
      /\ action = "ensure" =>
           /\ rules' = rules
           /\ \/ script' = [script EXCEPT ![r][p] = rest]
              \/ script' = [script EXCEPT ![r][p] = more]
  BY DEF RunCall
<1>7. action = "ensure" => rule \notin {FreezeRule, LockRule}
  BY <1>1, <1>2 DEF ScriptInv, BansAreEnsured
<1>. HIDE DEF rest, more, action, rule
<1>8. /\ rules' \in [Routers -> [Rules -> Nat]]
      /\ \A q \in Routers, l \in Rules :
           q # r \/ l # rule => rules'[q][l] = rules[q][l]
      /\ action = "append" => rules'[r][rule] > 0
      /\ action = "delete" => rules'[r][rule] <= rules[r][rule]
      /\ action = "ensure" => rules' = rules
  <2>1. rules[r][rule] \in Nat
    BY <1>1, <1>4
  <2>2. CASE action = "delete"
    <3>1. PICK n \in Nat : /\ n <= rules[r][rule]
                           /\ rules' = [rules EXCEPT ![r][rule] = n]
      BY <1>6, <2>1, <2>2
    <3>. QED
      BY <1>1, <1>4, <2>2, <3>1
  <2>3. CASE action = "append"
    <3>1. PICK n : n = rules[r][rule] + 1
      OBVIOUS
    <3>2. n \in Nat /\ n > 0 /\ rules' = [rules EXCEPT ![r][rule] = n]
      BY <1>6, <2>1, <2>3, <3>1
    <3>. QED
      BY <1>1, <1>4, <2>3, <3>2
  <2>4. CASE action = "ensure"
    BY <1>1, <1>6, <2>4
  <2>. QED
    BY <1>4, <2>2, <2>3, <2>4
<1>9. \/ script' = [script EXCEPT ![r][p] = rest]
      \/ action = "ensure" /\ script' = [script EXCEPT ![r][p] = more]
  BY <1>4, <1>6
<1>10. /\ script' \in RouterScripts
       /\ \A q \in Routers, o \in Processes :
            q # r \/ o # p => script'[q][o] = script[q][o]
       /\ \/ script'[r][p] = rest
          \/ action = "ensure" /\ script'[r][p] = more
  <2>1. PICK x \in Seq(IptablesCalls) :
          /\ script' = [script EXCEPT ![r][p] = x]
          /\ \/ x = rest
             \/ action = "ensure" /\ x = more
    BY <1>3, <1>5, <1>9
  <2>. QED
    BY <1>1, <2>1 DEF RouterScripts
<1>. DEFINE n == script'[r][p]
<1>11. /\ \A i \in DOMAIN n :
            \/ Len(s) > 1 /\ \E j \in DOMAIN s : n[i] = s[j]
            \/ n[i][1] = "append" /\ n[i][2] \notin {FreezeRule, LockRule}
       /\ Len(s) > 1 => n # <<>> /\ n[Len(n)] = s[Len(s)]
  <2>. HIDE DEF n, s
  <2>0. DOMAIN s = 1..Len(s)
    BY <1>1
  <2>1. CASE n = rest
    <3>1. DOMAIN n = 1..Len(s) - 1 /\ Len(n) = Len(s) - 1
      BY <1>3, <2>1
    <3>2. \A i \in DOMAIN n : Len(s) > 1 /\ i + 1 \in DOMAIN s /\ n[i] = s[i + 1]
      BY <1>2, <1>3, <2>0, <2>1, <3>1
    <3>3. Len(s) > 1 => n # <<>> /\ n[Len(n)] = s[Len(s)]
      BY <1>2, <1>3, <2>1, <3>1
    <3>. QED
      BY <3>2, <3>3
  <2>2. CASE action = "ensure" /\ n = more
    <3>1. DOMAIN n = 1..Len(s) /\ Len(n) = Len(s)
      BY <1>5, <2>2
    <3>2. n[1] = <<"append", rule>> /\ \A i \in 2..Len(s) : n[i] = s[i]
      BY <1>5, <2>2
    <3>3. \A i \in DOMAIN n : i # 1 => Len(s) > 1 /\ i \in DOMAIN s /\ n[i] = s[i]
      BY <1>2, <2>0, <3>1, <3>2
    <3>4. Len(s) > 1 => n # <<>> /\ n[Len(n)] = s[Len(s)]
      BY <1>2, <3>1, <3>2
    <3>. QED
      BY <1>7, <2>2, <3>2, <3>3, <3>4
  <2>. QED
    BY <1>10, <2>1, <2>2 DEF n
<1>. QED
  BY <1>1, <1>2, <1>8, <1>10, <1>11 DEF action, rule

LEMMA CallKeeps ==
  ASSUME ScriptInv, NEW r \in Routers, NEW p \in Processes, RunCall(r, p)
  PROVE  ScriptInv'
<1>. DEFINE s == script[r][p]
            n == script'[r][p]
<1>1. /\ s \in Seq(IptablesCalls) /\ s # <<>> /\ s[1] \in IptablesCalls
      /\ script' \in RouterScripts /\ asked' = asked
      /\ \A q \in Routers, o \in Processes :
           q # r \/ o # p => script'[q][o] = script[q][o]
      /\ \A i \in DOMAIN n :
           \/ Len(s) > 1 /\ \E j \in DOMAIN s : n[i] = s[j]
           \/ n[i][1] = "append" /\ n[i][2] \notin {FreezeRule, LockRule}
      /\ Len(s) > 1 => n # <<>> /\ n[Len(n)] = s[Len(s)]
  BY CallRun
<1>2. /\ rules' \in [Routers -> [Rules -> Nat]]
      /\ \A q \in Routers, rule \in Rules :
           q # r \/ rule # s[1][2] => rules'[q][rule] = rules[q][rule]
      /\ s[1][1] = "append" => rules'[r][s[1][2]] > 0
      /\ s[1][1] = "delete" => rules'[r][s[1][2]] <= rules[r][s[1][2]]
      /\ s[1][1] = "ensure" => rules' = rules
  BY CallRun
<1>. HIDE DEF n
<1>3. LockAsked'
  <2>. SUFFICES ASSUME NEW q \in Routers, "locked" \notin asked
                PROVE  /\ rules'[q][LockRule] = 0
                       /\ \A o \in Processes : ~Has(script'[q][o], <<"append", LockRule>>)
    BY <1>1 DEF LockAsked, Has
  <2>1. /\ rules[q][LockRule] = 0
        /\ \A o \in Processes : ~Has(script[q][o], <<"append", LockRule>>)
    BY DEF ScriptInv, LockAsked
  <2>2. ASSUME NEW o \in Processes
        PROVE  ~Has(script'[q][o], <<"append", LockRule>>)
    <3>1. CASE q = r /\ o = p
      BY <1>1, <2>1, <3>1 DEF Has, n
    <3>2. CASE q # r \/ o # p
      BY <1>1, <2>1, <3>2
    <3>. QED
      BY <3>1, <3>2
  <2>3. rules'[q][LockRule] = 0
    <3>1. CASE q # r \/ LockRule # s[1][2]
      BY <1>2, <2>1, <3>1, RulesApart
    <3>2. CASE q = r /\ LockRule = s[1][2]
      <4>1. s[1] # <<"append", LockRule>>
        BY <1>1, <2>1, <3>2 DEF Has
      <4>2. s[1][1] \in {"delete", "ensure"}
        BY <1>1, <3>2, <4>1 DEF IptablesCalls
      <4>3. rules'[r][LockRule] <= 0 /\ rules'[r][LockRule] \in Nat
        BY <1>2, <2>1, <3>2, <4>2, RulesApart
      <4>. QED
        BY <3>2, <4>3
    <3>. QED
      BY <3>1, <3>2
  <2>. QED
    BY <2>2, <2>3
<1>4. ClosesAgain'
  <2>. SUFFICES ASSUME NEW q \in Routers, NEW o \in Processes,
                       NEW i \in DOMAIN script'[q][o], script'[q][o][i] \in Opening,
                       "unlocked" \notin asked
                PROVE  script'[q][o][Len(script'[q][o])] \in Closing
    BY <1>1 DEF ClosesAgain, Opening, Closing
  <2>1. CASE q = r /\ o = p
    <3>1. n[i][1] # "append"
      BY <2>1 DEF Opening, n
    <3>2. Len(s) > 1 /\ \E j \in DOMAIN s : n[i] = s[j]
      BY <1>1, <2>1, <3>1 DEF n
    <3>3. s[Len(s)] \in Closing
      BY <2>1, <3>2 DEF ScriptInv, ClosesAgain, n
    <3>. QED
      BY <1>1, <2>1, <3>2, <3>3 DEF n
  <2>2. CASE q # r \/ o # p
    BY <1>1, <2>2 DEF ScriptInv, ClosesAgain
  <2>. QED
    BY <2>1, <2>2
<1>5. BansAreEnsured'
  <2>. SUFFICES ASSUME NEW q \in Routers, NEW o \in Processes,
                       NEW i \in DOMAIN script'[q][o], script'[q][o][i][1] = "ensure"
                PROVE  script'[q][o][i][2] \notin {FreezeRule, LockRule}
    BY DEF BansAreEnsured
  <2>1. CASE q = r /\ o = p
    BY <1>1, <2>1 DEF ScriptInv, BansAreEnsured, n
  <2>2. CASE q # r \/ o # p
    BY <1>1, <2>2 DEF ScriptInv, BansAreEnsured
  <2>. QED
    BY <2>1, <2>2
<1>6. StaysClosed'
  <2>. SUFFICES ASSUME NEW q \in Routers, "unlocked" \notin asked
                PROVE  \/ rules'[q][FreezeRule] > 0 \/ rules'[q][LockRule] > 0
                       \/ \E o \in Processes :
                            /\ script'[q][o] # <<>>
                            /\ script'[q][o][Len(script'[q][o])] \in Closing
    BY <1>1 DEF StaysClosed, Closing
  <2>. DEFINE Closed(rs) == rs[FreezeRule] > 0 \/ rs[LockRule] > 0
              Ends(scr) == scr # <<>> /\ scr[Len(scr)] \in Closing
  <2>1. Closed(rules[q]) \/ \E o \in Processes : Ends(script[q][o])
    BY DEF ScriptInv, StaysClosed
  <2>2. CASE q # r
    <3>1. Closed(rules[q]) => Closed(rules'[q])
      BY <1>2, <2>2, RulesApart
    <3>2. \A o \in Processes : script'[q][o] = script[q][o]
      BY <1>1, <2>2
    <3>. QED
      BY <2>1, <3>1, <3>2
  <2>3. CASE q = r
    <3>1. Ends(s) => Closed(rules'[r]) \/ Ends(n)
      <4>. SUFFICES ASSUME Ends(s), Len(s) <= 1
                    PROVE  Closed(rules'[r])
        BY <1>1
      <4>1. s[1] \in Closing
        BY <1>1
      <4>. QED
        BY <1>2, <4>1 DEF Closing
    <3>2. Closed(rules[r]) => Closed(rules'[r]) \/ Ends(s)
      <4>1. CASE s[1] \in Opening
        BY <1>1, <4>1 DEF ScriptInv, ClosesAgain
      <4>2. CASE s[1] \notin Opening
        <5>1. ASSUME NEW rule \in {FreezeRule, LockRule}, rules[r][rule] > 0
              PROVE  rules'[r][rule] > 0
          <6>1. CASE s[1][2] # rule
            BY <1>2, <5>1, <6>1, RulesApart
          <6>2. CASE s[1][2] = rule
            <7>1. s[1][1] \in {"append", "ensure"}
              BY <1>1, <4>2, <6>2 DEF Opening, IptablesCalls
            <7>. QED
              BY <1>2, <5>1, <6>2, <7>1
          <6>. QED
            BY <6>1, <6>2
        <5>. QED
          BY <5>1
      <4>. QED
        BY <4>1, <4>2
    <3>3. ASSUME NEW o \in Processes, Ends(script[r][o])
          PROVE  Closed(rules'[r]) \/ \E x \in Processes : Ends(script'[r][x])
      <4>1. CASE o = p
        BY <3>1, <3>3, <4>1 DEF n
      <4>2. CASE o # p
        BY <1>1, <3>3, <4>2
      <4>. QED
        BY <4>1, <4>2
    <3>. QED
      BY <2>1, <2>3, <3>1, <3>2, <3>3 DEF n
  <2>. QED
    BY <2>2, <2>3
<1>. QED
  BY <1>1, <1>2, <1>3, <1>4, <1>5, <1>6 DEF ScriptInv

-----------------------------------------------------------------------------
(* What is stored, published and sent.                                     *)

AskedInv ==
  /\ stored \in Network /\ published \in Network
  /\ caller \in [Callers -> Calls] /\ agent \in [Routers -> Agents]
  /\ orders \in 0..MaxOrders /\ reboots \in 0..MaxReboots
  /\ restarts \in 0..MaxRestarts
  /\ asked \subseteq NetworkStates
  /\ OnlyAsked

LEMMA NetworkInvParts == NetworkInv <=> ScriptInv /\ AskedInv
<1>1. ScriptInv => \A r \in Routers, p \in Processes :
        \A i \in DOMAIN script[r][p] :
          script[r][p][i] \in {"delete", "append", "ensure"} \X Rules
  BY DEF ScriptInv, RouterScripts, IptablesCalls
<1>. QED
  BY <1>1 DEF NetworkInv, ScriptInv, RouterScripts, AskedInv, NetworkTypeOK

LEMMA CommandTypes ==
  /\ \A s \in NetworkStates :
       StateCommand(s) \in Commands /\ StateCommand(s).name = s /\ StateCommand(s).team = NoTeam
  /\ \A t \in Bannable, n \in {"ban", "unban"} :
       TeamCommand(n, t) \in Commands /\ TeamCommand(n, t).team # NoTeam
  /\ NoCall \in Calls /\ NoCall.step = "idle" /\ Asleep \in Agents
  /\ Asleep.wanted.state = "unknown"
BY DEF StateCommand, TeamCommand, Commands, NoCall, Calls, Asleep, Agents, Network,
       NetworkStates

(* Broadcasts, and the bans that are applied again.                        *)
LEMMA BroadcastTypes ==
  ASSUME NEW command \in Commands,
         NEW after \in {"idle", "reload", "reapply", "boot"}, NEW bans \in SUBSET Bannable
  PROVE  \E call \in Calls :
           /\ call = Broadcast(command, after, bans)
           /\ call.step = "send" /\ call.command = command
<1>1. /\ Broadcast(command, after, bans) \in Calls
      /\ Broadcast(command, after, bans).step = "send"
      /\ Broadcast(command, after, bans).command = command
  BY DEF Broadcast, Calls
<1>. QED
  BY <1>1, Zenon

LEMMA RememberTypes ==
  ASSUME NEW command \in Commands
  PROVE  \E call \in Calls :
           /\ call = [Broadcast(command, "idle", {}) EXCEPT !.step = "remember"]
           /\ call.step = "remember" /\ call.command = command
<1>1. /\ [Broadcast(command, "idle", {}) EXCEPT !.step = "remember"] \in Calls
      /\ [Broadcast(command, "idle", {}) EXCEPT !.step = "remember"].step = "remember"
      /\ [Broadcast(command, "idle", {}) EXCEPT !.step = "remember"].command = command
  BY DEF Broadcast, Calls
<1>. QED
  BY <1>1, Zenon

LEMMA ReapplyTypes ==
  ASSUME NEW step \in {"reapply", "boot"}, NEW bans \in SUBSET Bannable
  PROVE  \E call \in Calls : call = Reapplying(step, bans) /\ call.step = step
<1>1. Reapplying(step, bans) \in Calls /\ Reapplying(step, bans).step = step
  BY CommandTypes DEF Reapplying, Calls, NoCall
<1>. QED
  BY <1>1, Zenon

(* A call that goes over to another step, or sends a command to a team.    *)
LEMMA CallMoves ==
  ASSUME AskedInv, NEW c \in Callers, NEW call \in Calls,
         caller' = [caller EXCEPT ![c] = call],
         call.step # "remember",
         call.step = "send" => call.command.team # NoTeam,
         UNCHANGED <<stored, agent, reboots, restarts, asked>>,
         orders' \in 0..MaxOrders,
         published' \in {published, stored}
  PROVE  AskedInv'
<1>. USE DEF AskedInv
<1>1. caller' \in [Callers -> Calls]
      /\ \A d \in Callers : caller'[d] = IF d = c THEN call ELSE caller[d]
  OBVIOUS
<1>2. OnlyAsked'
  BY <1>1 DEF OnlyAsked
<1>. QED
  BY <1>1, <1>2

LEMMA NetworkStarts == NetworkInit => NetworkInv
<1>. SUFFICES ASSUME NetworkInit
              PROVE  ScriptInv /\ AskedInv
  BY NetworkInvParts
<1>1. AskedInv
  <2>1. stored \in Network /\ published \in Network
    BY DEF NetworkInit, Network
  <2>2. caller \in [Callers -> Calls] /\ agent \in [Routers -> Agents]
    BY CommandTypes DEF NetworkInit
  <2>3. OnlyAsked
    BY CommandTypes DEF NetworkInit, OnlyAsked
  <2>. QED
    BY <2>1, <2>2, <2>3 DEF NetworkInit, AskedInv
<1>2. \A r \in Routers, p \in Processes : script[r][p] = <<>>
  BY DEF NetworkInit
<1>3. \A r \in Routers : rules[r][FreezeRule] = 1 /\ rules[r][LockRule] = 0
  BY RulesApart DEF NetworkInit, BootRules
<1>4. rules \in [Routers -> [Rules -> Nat]] /\ script \in RouterScripts
  BY DEF NetworkInit, BootRules, RouterScripts
<1>5. LockAsked /\ ClosesAgain /\ BansAreEnsured /\ StaysClosed
  BY <1>2, <1>3 DEF LockAsked, ClosesAgain, BansAreEnsured, StaysClosed, Has
<1>. QED
  BY <1>1, <1>4, <1>5 DEF ScriptInv

LEMMA OrdersKeep ==
  ASSUME AskedInv, NEW c \in Callers,
         \/ \E s \in Orders : OrderState(c, s)
         \/ \E t \in Bannable, b \in BOOLEAN : OrderBan(c, t, b)
         \/ OrderReload(c)
  PROVE  AskedInv'
<1>. USE DEF AskedInv
<1>1. ASSUME NEW s \in Orders, OrderState(c, s)
      PROVE  AskedInv'
  <2>1. s \in NetworkStates /\ StateCommand(s) \in Commands
        /\ StateCommand(s).name = s /\ StateCommand(s).team = NoTeam
    BY CommandTypes DEF NetworkStates
  <2>2. PICK command \in Commands :
          command = StateCommand(s) /\ command.name = s /\ command.team = NoTeam
    BY <2>1
  <2>3. PICK call \in Calls :
          /\ call = [Broadcast(command, "idle", {}) EXCEPT !.step = "remember"]
          /\ call.step = "remember" /\ call.command = command
    BY RememberTypes
  <2>4. /\ caller' = [caller EXCEPT ![c] = call]
        /\ stored' = [stored EXCEPT !.state = s]
        /\ asked' = asked \cup {s} /\ orders' = orders + 1 /\ orders < MaxOrders
        /\ UNCHANGED <<published, agent, reboots, restarts>>
    BY <1>1, <2>2, <2>3 DEF OrderState, Order, routerVars
  <2>5. stored' \in Network /\ stored'.state = s
    BY <2>1, <2>4 DEF Network
  <2>6. /\ caller' \in [Callers -> Calls]
        /\ \A d \in Callers : caller'[d] = IF d = c THEN call ELSE caller[d]
    BY <2>4
  <2>7. OnlyAsked'
    BY <2>2, <2>3, <2>4, <2>5, <2>6 DEF OnlyAsked
  <2>. QED
    BY <2>1, <2>4, <2>5, <2>6, <2>7
<1>2. ASSUME NEW t \in Bannable, NEW b \in BOOLEAN, OrderBan(c, t, b)
      PROVE  AskedInv'
  <2>1. PICK n \in {"ban", "unban"} :
          caller' = [caller EXCEPT ![c] = Broadcast(TeamCommand(n, t), "reload", {})]
    BY <1>2 DEF OrderBan
  <2>2. PICK command \in Commands : command = TeamCommand(n, t) /\ command.team # NoTeam
    BY CommandTypes
  <2>3. PICK call \in Calls : /\ call = Broadcast(command, "reload", {})
                              /\ call.step = "send" /\ call.command = command
    BY BroadcastTypes
  <2>4. caller' = [caller EXCEPT ![c] = call]
    BY <2>1, <2>2, <2>3
  <2>5. /\ stored' \in Network /\ stored'.state = stored.state
        /\ asked' = asked /\ orders' = orders + 1 /\ orders < MaxOrders
        /\ UNCHANGED <<published, agent, reboots, restarts>>
    BY <1>2 DEF OrderBan, Order, routerVars, Network
  <2>6. caller' \in [Callers -> Calls]
    BY <2>4
  <2>7. OnlyAsked'
    <3>1. \A d \in Callers : caller'[d] = IF d = c THEN call ELSE caller[d]
      BY <2>4
    <3>. QED
      BY <2>2, <2>3, <2>5, <3>1 DEF OnlyAsked
  <2>. QED
    BY <2>5, <2>6, <2>7
<1>3. CASE OrderReload(c)
  <2>1. stored.banned \in SUBSET Bannable
    BY DEF Network
  <2>2. PICK call \in Calls :
          call = Reapplying("reapply", stored.banned) /\ call.step = "reapply"
    BY <2>1, ReapplyTypes
  <2>3. /\ caller' = [caller EXCEPT ![c] = call] /\ published' = stored
        /\ orders' = orders + 1 /\ orders < MaxOrders
        /\ UNCHANGED <<stored, agent, reboots, restarts, asked>>
    BY <1>3, <2>2 DEF OrderReload, Order, routerVars
  <2>4. orders' \in 0..MaxOrders
    BY <2>3
  <2>. QED
    BY <2>2, <2>3, <2>4, CallMoves
<1>. QED
  BY <1>1, <1>2, <1>3

LEMMA ControlKeeps ==
  ASSUME AskedInv, NEW c \in Callers, Control(c)
  PROVE  AskedInv'
<1>. USE DEF AskedInv
<1>1. /\ UNCHANGED <<stored, agent, boundVars, asked>>
      /\ caller[c] \in Calls
  BY DEF Control, Remember, Reapply, Sent, Reload, Reach, Lose, routerVars
<1>2. CASE Remember(c)
  <2>1. caller[c].command.name \in NetworkStates /\ caller[c].command.name \in asked
    BY <1>2 DEF Remember, OnlyAsked
  <2>2. published' \in Network /\ published'.state = caller[c].command.name
    BY <1>2, <2>1 DEF Remember, Network
  <2>3. /\ caller' \in [Callers -> Calls]
        /\ caller'[c].step = "send" /\ caller'[c].command = caller[c].command
        /\ \A d \in Callers : d # c => caller'[d] = caller[d]
    BY <1>1, <1>2 DEF Remember, Calls
  <2>4. OnlyAsked'
    BY <1>1, <2>1, <2>2, <2>3 DEF OnlyAsked
  <2>. QED
    BY <1>1, <2>2, <2>3, <2>4 DEF boundVars
<1>3. CASE (\E r \in Routers : Reach(c, r) \/ Lose(c, r))
  <2>1. PICK r \in Routers :
          /\ caller' = [caller EXCEPT ![c].send = caller[c].send \ {r}]
          /\ published' = published
    BY <1>3 DEF Reach, Lose
  <2>2. /\ caller' \in [Callers -> Calls]
        /\ caller'[c].step = caller[c].step /\ caller'[c].command = caller[c].command
        /\ \A d \in Callers : d # c => caller'[d] = caller[d]
    BY <1>1, <2>1 DEF Calls
  <2>3. OnlyAsked'
    BY <1>1, <2>1, <2>2 DEF OnlyAsked
  <2>. QED
    BY <1>1, <2>1, <2>2, <2>3 DEF boundVars
<1>4. CASE Sent(c)
  <2>1. PICK call : /\ caller' = [caller EXCEPT ![c] = call]
                    /\ \/ call = NoCall
                       \/ call = [caller[c] EXCEPT !.step = caller[c].after]
                    /\ published' = published
    BY <1>4 DEF Sent
  <2>2. call \in Calls /\ call.step \notin {"remember", "send"}
    BY <1>1, <2>1, CommandTypes DEF Calls
  <2>. QED
    BY <1>1, <2>1, <2>2, CallMoves DEF boundVars
<1>5. CASE Reload(c)
  <2>1. /\ published' = stored /\ caller' = [caller EXCEPT ![c] = NoCall]
        /\ NoCall \in Calls /\ NoCall.step = "idle"
    BY <1>5, CommandTypes DEF Reload
  <2>. QED
    BY <1>1, <2>1, CallMoves DEF boundVars
<1>6. CASE Reapply(c)
  <2>1. CASE caller' = [caller EXCEPT ![c] = NoCall]
    <3>1. NoCall \in Calls /\ NoCall.step = "idle" /\ published' = published
      BY <1>6, CommandTypes DEF Reapply
    <3>. QED
      BY <1>1, <2>1, <3>1, CallMoves DEF boundVars
  <2>2. ASSUME NEW t \in caller[c].bans,
               caller' = [caller EXCEPT ![c] =
                 Broadcast(TeamCommand("ban", t), caller[c].step, caller[c].bans \ {t})]
        PROVE  AskedInv'
    <3>1. /\ t \in Bannable /\ caller[c].bans \ {t} \in SUBSET Bannable
          /\ caller[c].step \in {"reapply", "boot"} /\ published' = published
      BY <1>1, <1>6 DEF Reapply, Calls
    <3>2. PICK command \in Commands :
            command = TeamCommand("ban", t) /\ command.team # NoTeam
      BY <3>1, CommandTypes
    <3>3. PICK call \in Calls :
            /\ call = Broadcast(command, caller[c].step, caller[c].bans \ {t})
            /\ call.step = "send" /\ call.command = command
      BY <3>1, BroadcastTypes
    <3>4. caller' = [caller EXCEPT ![c] = call] /\ call.command.team # NoTeam
      BY <2>2, <3>2, <3>3
    <3>. QED
      BY <1>1, <3>1, <3>3, <3>4, CallMoves DEF boundVars
  <2>. QED
    BY <1>6, <2>1, <2>2 DEF Reapply
<1>. QED
  BY <1>2, <1>3, <1>4, <1>5, <1>6 DEF Control

LEMMA RestartKeeps ==
  ASSUME AskedInv, NEW c \in Callers, Restart(c)
  PROVE  AskedInv'
<1>. USE DEF AskedInv
<1>1. stored.banned \in SUBSET Bannable
  BY DEF Network
<1>2. PICK call \in Calls :
        call = Reapplying("boot", stored.banned) /\ call.step = "boot"
  BY <1>1, ReapplyTypes
<1>3. /\ published' = stored /\ caller' = [[d \in Callers |-> NoCall] EXCEPT ![c] = call]
      /\ restarts < MaxRestarts /\ restarts' = restarts + 1
      /\ UNCHANGED <<stored, agent, orders, reboots, asked>>
  BY <1>2 DEF Restart, routerVars
<1>4. /\ caller' \in [Callers -> Calls]
      /\ \A d \in Callers : caller'[d].step \in {"idle", "boot"}
  BY <1>2, <1>3, CommandTypes
<1>5. OnlyAsked'
  BY <1>3, <1>4 DEF OnlyAsked
<1>. QED
  BY <1>3, <1>4, <1>5

(* What an agent wants is what the control node published when it asked.   *)
LEMMA AgentsKeep ==
  ASSUME ScriptInv, AskedInv, NEW r \in Routers,
         \/ Look(r) \/ Sync(r) \/ SyncFails(r) \/ Fix(r) \/ Reboot(r)
         \/ \E p \in Processes : RunCall(r, p)
  PROVE  AskedInv'
<1>. USE DEF AskedInv
<1>1. /\ UNCHANGED <<stored, published, caller, orders, restarts, asked>>
      /\ agent[r] \in Agents
  BY DEF Look, Sync, SyncFails, Fix, FixState, Sleep, RestoreBan, LiftBan, Reboot,
         RunCall, controlVars, boundVars
<1>2. reboots' \in 0..MaxReboots
  <2>1. reboots' = reboots \/ Reboot(r)
    BY DEF Look, Sync, SyncFails, Fix, FixState, Sleep, RestoreBan, LiftBan, RunCall,
           boundVars
  <2>. QED
    BY <2>1 DEF Reboot
<1>3. StateOf(r) \in NetworkStates /\ BannedAt(r) \subseteq Bannable
  BY DEF StateOf, NetworkStates, BannedAt
<1>4. \/ agent' = agent
      \/ agent' = [agent EXCEPT ![r] = Asleep]
      \/ \E x \in Network : agent' = [agent EXCEPT ![r] =
                               [Asleep EXCEPT !.step = "asking", !.seen = x]]
      \/ agent' = [agent EXCEPT ![r].step = "fixing", ![r].wanted = published]
      \/ agent' = [agent EXCEPT ![r].seen.state = agent[r].wanted.state]
      \/ \E t \in Bannable :
           \/ agent' = [agent EXCEPT ![r].seen.banned = agent[r].seen.banned \cup {t}]
           \/ agent' = [agent EXCEPT ![r].seen.banned = agent[r].seen.banned \ {t}]
  <2>1. [state |-> StateOf(r), banned |-> BannedAt(r)] \in Network
    BY <1>3 DEF Network
  <2>2. Look(r) => agent' = [agent EXCEPT ![r] =
          [Asleep EXCEPT !.step = "asking",
             !.seen = [state |-> StateOf(r), banned |-> BannedAt(r)]]]
    BY DEF Look
  <2>. QED
    BY <2>1, <2>2 DEF Sync, SyncFails, Fix, FixState, Sleep, RestoreBan, LiftBan,
                      Reboot, RunCall
<1>5. /\ agent' \in [Routers -> Agents]
      /\ agent'[r].wanted.state \in {agent[r].wanted.state, published.state, "unknown"}
      /\ \A q \in Routers : q # r => agent'[q] = agent[q]
  <2>1. CASE agent' = agent
    BY <2>1
  <2>2. CASE agent' = [agent EXCEPT ![r] = Asleep]
    BY <2>2, CommandTypes
  <2>3. ASSUME NEW x \in Network,
               agent' = [agent EXCEPT ![r] =
                           [Asleep EXCEPT !.step = "asking", !.seen = x]]
        PROVE  /\ agent' \in [Routers -> Agents]
               /\ agent'[r].wanted.state = "unknown"
               /\ \A q \in Routers : q # r => agent'[q] = agent[q]
    <3>1. [Asleep EXCEPT !.step = "asking", !.seen = x] \in Agents
      BY CommandTypes DEF Agents
    <3>2. [Asleep EXCEPT !.step = "asking", !.seen = x].wanted.state = "unknown"
      BY DEF Asleep
    <3>. QED
      BY <2>3, <3>1, <3>2
  <2>4. CASE agent' = [agent EXCEPT ![r].step = "fixing", ![r].wanted = published]
    BY <1>1, <2>4 DEF Agents
  <2>5. CASE agent' = [agent EXCEPT ![r].seen.state = agent[r].wanted.state]
    BY <1>1, <2>5 DEF Agents, Network
  <2>6. ASSUME NEW t \in Bannable,
               \/ agent' = [agent EXCEPT ![r].seen.banned = agent[r].seen.banned \cup {t}]
               \/ agent' = [agent EXCEPT ![r].seen.banned = agent[r].seen.banned \ {t}]
        PROVE  /\ agent' \in [Routers -> Agents]
               /\ agent'[r].wanted.state = agent[r].wanted.state
               /\ \A q \in Routers : q # r => agent'[q] = agent[q]
    BY <1>1, <2>6 DEF Agents, Network
  <2>. QED
    BY <1>4, <2>1, <2>2, <2>3, <2>4, <2>5, <2>6
<1>6. OnlyAsked'
  BY <1>1, <1>5 DEF OnlyAsked
<1>. QED
  BY <1>1, <1>2, <1>5, <1>6

LEMMA ScriptsKeep ==
  ASSUME ScriptInv, AskedInv, NetworkNext
  PROVE  ScriptInv'
<1>1. ASSUME NEW c \in Callers, NEW r \in Routers, Reach(c, r)
      PROVE  ScriptInv'
  <2>1. caller[c] \in Calls /\ caller[c].command \in Commands
    BY DEF AskedInv, Calls
  <2>2. caller[c].command.team = NoTeam => caller[c].command.name \in asked
    BY <1>1 DEF Reach, AskedInv, OnlyAsked
  <2>. QED
    BY <1>1, <2>1, <2>2, ScriptStarts DEF Reach, Processes
<1>2. ASSUME NEW r \in Routers, Fix(r)
      PROVE  ScriptInv'
  <2>1. agent[r] \in Agents
    BY DEF AskedInv
  <2>2. CASE FixState(r)
    <3>. DEFINE command == StateCommand(agent[r].wanted.state)
    <3>1. agent[r].wanted.state \in NetworkStates /\ agent[r].wanted.state \in asked
      BY <2>1, <2>2 DEF FixState, StateFixed, Agents, Network, AskedInv, OnlyAsked
    <3>2. command \in Commands /\ command.name \in asked
      BY <3>1, CommandTypes
    <3>3. /\ script[r][Agent] = <<>> /\ UNCHANGED <<rules, asked>>
          /\ script' = [script EXCEPT ![r][Agent] = Script(command)]
      BY <2>2 DEF FixState, Fixing, AgentRuns
    <3>. HIDE DEF command
    <3>. QED
      BY <3>2, <3>3, ScriptStarts DEF Processes
  <2>3. CASE (\E t \in Bannable : RestoreBan(r, t) \/ LiftBan(r, t))
    <3>1. PICK t \in Bannable, n \in {"ban", "unban"} :
            /\ script[r][Agent] = <<>> /\ UNCHANGED <<rules, asked>>
            /\ script' = [script EXCEPT ![r][Agent] = Script(TeamCommand(n, t))]
      BY <2>3 DEF RestoreBan, LiftBan, Fixing, AgentRuns
    <3>2. TeamCommand(n, t) \in Commands /\ TeamCommand(n, t).team # NoTeam
      BY CommandTypes
    <3>. QED
      BY <3>1, <3>2, ScriptStarts DEF Processes
  <2>4. CASE Sleep(r)
    BY <2>4, MoreAsked DEF Sleep
  <2>. QED
    BY <1>2, <2>2, <2>3, <2>4 DEF Fix
<1>3. ASSUME NEW c \in Callers,
             \/ \E s \in Orders : OrderState(c, s)
             \/ \E t \in Bannable, b \in BOOLEAN : OrderBan(c, t, b)
             \/ OrderReload(c) \/ Restart(c)
             \/ Remember(c) \/ Reapply(c) \/ Sent(c) \/ Reload(c)
             \/ \E r \in Routers : Lose(c, r)
      PROVE  ScriptInv'
  <2>1. UNCHANGED <<rules, script>> /\ asked \subseteq asked'
    BY <1>3 DEF OrderState, OrderBan, OrderReload, Restart, Remember, Reapply, Sent,
                Reload, Lose, routerVars
  <2>. QED
    BY <2>1, MoreAsked
<1>4. ASSUME NEW r \in Routers, Look(r) \/ Sync(r) \/ SyncFails(r)
      PROVE  ScriptInv'
  <2>1. UNCHANGED <<rules, script>> /\ asked \subseteq asked'
    BY <1>4 DEF Look, Sync, SyncFails
  <2>. QED
    BY <2>1, MoreAsked
<1>. QED
  BY <1>1, <1>2, <1>3, <1>4, CallKeeps, RouterReboots DEF NetworkNext, Control

LEMMA NetworkStep == NetworkInv /\ [NetworkNext]_networkVars => NetworkInv'
<1>. SUFFICES ASSUME ScriptInv, AskedInv, [NetworkNext]_networkVars
              PROVE  ScriptInv' /\ AskedInv'
  <2>1. NetworkInv' <=> ScriptInv' /\ AskedInv'
    <3>1. ScriptInv' => \A r \in Routers, p \in Processes :
            \A i \in DOMAIN script'[r][p] :
              script'[r][p][i] \in {"delete", "append", "ensure"} \X Rules
      BY DEF ScriptInv, RouterScripts, IptablesCalls
    <3>. QED
      BY <3>1 DEF NetworkInv, ScriptInv, RouterScripts, AskedInv, NetworkTypeOK
  <2>. QED
    BY <2>1, NetworkInvParts
<1>1. CASE NetworkNext
  <2>1. ScriptInv'
    BY <1>1, ScriptsKeep
  <2>2. AskedInv'
    BY <1>1, OrdersKeep, ControlKeeps, RestartKeeps, AgentsKeep DEF NetworkNext
  <2>. QED
    BY <2>1, <2>2
<1>2. CASE UNCHANGED networkVars
  <2>1. ScriptInv'
    BY <1>2, MoreAsked DEF networkVars, routerVars
  <2>2. AskedInv'
    BY <1>2 DEF networkVars, controlVars, routerVars, boundVars, AskedInv, OnlyAsked
  <2>. QED
    BY <2>1, <2>2
<1>. QED
  BY <1>1, <1>2

-----------------------------------------------------------------------------
(* The theorems about NetworkControl.                                      *)

(* What a script opens it closes, and no state is passed on that nobody    *)
(* asked for, however calls, agents, reboots and restarts interleave.      *)
THEOREM NetworkInvariant == NetworkSpec => []NetworkInv
BY NetworkStarts, NetworkStep, PTL DEF NetworkSpec

(* A router on which no script runs is frozen, as it boots, or in a state  *)
(* an organizer or the clock has asked for: for any number of routers,     *)
(* callers, orders, reboots and restarts.                                  *)
THEOREM OnlyAskedStates == NetworkSpec => []NothingUnasked
<1>1. NetworkInv => NothingUnasked
  <2>. SUFFICES ASSUME NetworkInv, NEW r \in Routers, Settled(r)
                PROVE  StateOf(r) \in asked \cup {"frozen"}
    BY DEF NothingUnasked
  <2>1. \/ "unlocked" \in asked
        \/ rules[r][FreezeRule] > 0 \/ rules[r][LockRule] > 0
    BY DEF NetworkInv, StaysClosed, Settled
  <2>2. "locked" \in asked \/ rules[r][LockRule] = 0
    BY DEF NetworkInv, LockAsked
  <2>. QED
    BY <2>1, <2>2 DEF StateOf
<1>. QED
  BY <1>1, NetworkInvariant, PTL

=============================================================================
