------------------------------ MODULE ApiCache ------------------------------
(***************************************************************************)
(* The public API: one rendered answer kept per round.                     *)
(* gameserver/src/scoreboard.go: apiCache and the handlers of              *)
(* /api/scoreboard and /api/team, which share one shape; this is one of    *)
(* those caches.  (/api/chart differs in a game without teams, and         *)
(* /api/status in that it is rendered and cached before the first round,   *)
(* too.)                                                                   *)
(*                                                                         *)
(* Requests render concurrently with the round loop, which publishes       *)
(* rounds, and with the organizers, who change the network state, the      *)
(* freeze, the teams and the settings.  Whoever changes something          *)
(* invalidates the cache afterwards.  An answer has the rows of the round  *)
(* that was exposed when the request came in - rows of an exposed round    *)
(* are final - and parts of memory, read one by one later on; the value of *)
(* a part is the number of its changes.                                    *)
(***************************************************************************)
EXTENDS Integers

CONSTANTS
  Requests,           (* requests under way                                 *)
  Changers,           (* organizers, and the round loop                     *)
  roundLoop,          (* the changer that publishes rounds                  *)
  Parts,              (* what of memory an answer is rendered from          *)
  NoData,             (* the nil body                                       *)
  Empty,              (* the answer without any round                       *)
  MaxChanges,         (* bound: changes of a part                           *)
  MaxRound            (* bound: the last round that is published            *)

ASSUME ApiCacheAssumption ==
  /\ MaxChanges \in Nat
  /\ MaxRound \in Nat
  /\ roundLoop \in Changers
  /\ NoData # Empty
  /\ {NoData, Empty} \cap [round : -1..MaxRound, parts : [Parts -> 0..MaxChanges]] = {}

VARIABLES
  round,              (* the exposed round                                  *)
  content,            (* GameState                                          *)
  changing,           (* who has changed something and not invalidated yet  *)
  cache,              (* apiCache                                           *)
  generation,         (* apiCache.generation                                *)
  req,                (* the requests                                       *)
  announced           (* history: what was in memory at the last            *)
                      (* invalidation                                       *)

vars == <<round, content, changing, cache, generation, req, announced>>

-----------------------------------------------------------------------------
Rounds == -1..MaxRound

Versions == [Parts -> 0..MaxChanges]

(* A rendered answer: the rows of a round, and parts of memory. *)
Bodies == [round : Rounds, parts : Versions]

(* round: the round the data is for. *)
Caches == [data : Bodies \cup {NoData}, round : Rounds]

(* todo: the parts the request has not read yet; answer: what it sent.     *)
(* History: floor is what was announced when the request arrived;          *)
(* overtaken, that the cache it is about to send was filled for another    *)
(* round since it looked.                                                  *)
Handlers ==
  [step : {"idle", "begin", "check", "serve", "render", "answered"},
   round : Rounds, generation : Nat, todo : SUBSET Parts, parts : Versions,
   answer : Bodies \cup {NoData, Empty}, floor : Bodies, overtaken : BOOLEAN]

Unchanged == [p \in Parts |-> 0]
Nothing == [round |-> -1, parts |-> Unchanged]

Idle == [step |-> "idle", round |-> -1, generation |-> 0, todo |-> {},
         parts |-> Unchanged, answer |-> NoData, floor |-> Nothing,
         overtaken |-> FALSE]

TypeOK ==
  /\ round \in Rounds
  /\ content \in Versions
  /\ changing \subseteq Changers
  /\ cache \in Caches
  /\ generation \in Nat
  /\ req \in [Requests -> Handlers]
  /\ announced \in Bodies

Init ==
  /\ round = -1
  /\ content = Unchanged
  /\ changing = {}
  /\ cache = [data |-> NoData, round |-> 0]
  /\ generation = 0
  /\ req = [r \in Requests |-> Idle]
  /\ announced = Nothing

-----------------------------------------------------------------------------
(* Changes.                                                                *)

(* setNetworkState, SetScoreboardFreeze, the admin handlers that reload.   *)
Change(c, p) ==
  /\ c \notin changing
  /\ content[p] < MaxChanges
  /\ content' = [content EXCEPT ![p] = content[p] + 1]
  /\ changing' = changing \cup {c}
  /\ UNCHANGED <<round, cache, generation, req, announced>>

(* The round loop exposes the round that is over, its rows with it. *)
Publish ==
  /\ round < MaxRound
  /\ roundLoop \notin changing
  /\ round' = round + 1
  /\ changing' = changing \cup {roundLoop}
  /\ UNCHANGED <<content, cache, generation, req, announced>>

NextGeneration == generation + 1

(* apiCache.invalidate *)
Invalidate(c) ==
  /\ c \in changing
  /\ changing' = changing \ {c}
  /\ generation' = NextGeneration
  /\ cache' = [data |-> NoData, round |-> -1]
  /\ announced' = [round |-> round, parts |-> content]
  /\ UNCHANGED <<round, content, req>>

-----------------------------------------------------------------------------
(* Requests.                                                               *)

At(r, s) == req[r].step = s

Answered(r, body) ==
  [Idle EXCEPT !.step = "answered", !.answer = body, !.floor = req[r].floor,
               !.overtaken = req[r].overtaken]

(* A request reads the exposed round. *)
Arrive(r) ==
  /\ At(r, "idle")
  /\ round >= 0
  /\ req' = [req EXCEPT ![r] = [Idle EXCEPT !.step = "begin", !.round = round,
                                            !.floor = announced]]
  /\ UNCHANGED <<round, content, changing, cache, generation, announced>>

(* There is none yet: the ranking and the history are empty. *)
ArriveTooEarly(r) ==
  /\ At(r, "idle")
  /\ round < 0
  /\ req' = [req EXCEPT ![r] = [Idle EXCEPT !.step = "answered", !.answer = Empty,
                                            !.floor = announced]]
  /\ UNCHANGED <<round, content, changing, cache, generation, announced>>

(* apiCache.begin *)
Begin(r) ==
  /\ At(r, "begin")
  /\ req' = [req EXCEPT ![r].step = "check", ![r].generation = generation]
  /\ UNCHANGED <<round, content, changing, cache, generation, announced>>

(* apiCache.isValid, but for the age of the data. *)
Valid(r) ==
  /\ cache.round = req[r].round
  /\ cache.data # NoData

(* Valid data may be older than 60 seconds whenever somebody looks. *)
Check(r) ==
  /\ At(r, "check")
  /\ \/ /\ Valid(r)
        /\ req' = [req EXCEPT ![r].step = "serve", ![r].generation = 0]
     \/ req' = [req EXCEPT ![r].step = "render", ![r].todo = Parts]
  /\ UNCHANGED <<round, content, changing, cache, generation, announced>>

(* apiCache.serve writes whatever the cache holds by now. *)
Serve(r) ==
  /\ At(r, "serve")
  /\ req' = [req EXCEPT ![r] = Answered(r, cache.data)]
  /\ UNCHANGED <<round, content, changing, cache, generation, announced>>

ReadPart(r, p) ==
  /\ At(r, "render")
  /\ p \in req[r].todo
  /\ req' = [req EXCEPT ![r].todo = req[r].todo \ {p}, ![r].parts[p] = content[p]]
  /\ UNCHANGED <<round, content, changing, cache, generation, announced>>

(* A query fails: an error page, and nothing is cached. *)
Fail(r) ==
  /\ At(r, "render")
  /\ req' = [req EXCEPT ![r] = Idle]
  /\ UNCHANGED <<round, content, changing, cache, generation, announced>>

(* Mutant: the answer is stored whatever happened while it was rendered. *)
StillCurrentAlways(r) == TRUE

StillCurrent(r) == generation = req[r].generation

Rendered(r) == [round |-> req[r].round, parts |-> req[r].parts]

(* apiCache.update, and the answer. *)
Update(r) ==
  /\ At(r, "render")
  /\ req[r].todo = {}
  /\ cache' = IF StillCurrent(r)
              THEN [data |-> Rendered(r), round |-> req[r].round]
              ELSE cache
  /\ req' = [q \in Requests |->
               IF q = r THEN Answered(r, Rendered(r))
               ELSE [req[q] EXCEPT !.overtaken =
                       @ \/ (/\ StillCurrent(r) /\ At(q, "serve")
                             /\ req[q].round # req[r].round)]]
  /\ UNCHANGED <<round, content, changing, generation, announced>>

Done(r) ==
  /\ At(r, "answered")
  /\ req' = [req EXCEPT ![r] = Idle]
  /\ UNCHANGED <<round, content, changing, cache, generation, announced>>

Next ==
  \/ Publish
  \/ \E c \in Changers, p \in Parts : Change(c, p)
  \/ \E c \in Changers : Invalidate(c)
  \/ \E r \in Requests :
       \/ Arrive(r) \/ ArriveTooEarly(r) \/ Begin(r) \/ Check(r) \/ Serve(r)
       \/ \E p \in Parts : ReadPart(r, p)
       \/ Fail(r) \/ Update(r) \/ Done(r)

Spec == Init /\ [][Next]_vars

-----------------------------------------------------------------------------
(* Properties.                                                             *)

NotBefore(versions, floor) == \A p \in Parts : versions[p] >= floor[p]

(* "a request that started rendering before something changed would        *)
(* otherwise store its stale answer after the invalidation, and serve it   *)
(* for a whole round" (scoreboard.go:26): an answer is never older than    *)
(* what was in memory at the last invalidation before its request came in, *)
(* and it has the round exposed then or a later one; but for a request     *)
(* that is overtaken between isValid and serve.                            *)
AnswersCurrent ==
  \A r \in Requests :
    At(r, "answered") /\ req[r].answer # NoData =>
      IF req[r].answer = Empty THEN req[r].floor.round = -1
      ELSE /\ NotBefore(req[r].answer.parts, req[r].floor.parts)
           /\ req[r].overtaken \/ req[r].answer.round >= req[r].floor.round

(* "one rendered JSON response per round" (scoreboard.go:23): nobody is    *)
(* answered with the rows of an older round.  It does not hold: a request  *)
(* may read the round and begin to render only after the next one is       *)
(* published and the cache invalidated; its answer is stored then, and may *)
(* be sent to a request that found the cache valid just before.            *)
AnswersOfTheRound ==
  \A r \in Requests :
    At(r, "answered") /\ req[r].answer \in Bodies =>
      req[r].answer.round >= req[r].floor.round

(* "one rendered JSON response per round" (scoreboard.go:23): whoever is   *)
(* answered gets a rendered response.                                      *)
AnswersRendered ==
  \A r \in Requests : At(r, "answered") => req[r].answer # NoData

(* ------- The inductive invariant behind AnswersCurrent. ---------------- *)

(* What is announced is in memory. *)
AnnouncedIsTrue ==
  NotBefore(content, announced.parts) /\ round >= announced.round

(* The cache is of the round it is kept for, and as new as what is         *)
(* announced...                                                            *)
CacheCurrent ==
  cache.data # NoData => /\ cache.data.round = cache.round
                         /\ NotBefore(cache.data.parts, announced.parts)

(* ...so is what a request has read, as long as it may still store it...   *)
RenderCurrent(r) ==
  /\ req[r].generation <= generation
  /\ NotBefore(announced.parts, req[r].floor.parts)
  /\ announced.round >= req[r].floor.round
  /\ req[r].step \in {"begin", "check", "serve", "render"} =>
       req[r].round >= req[r].floor.round
  /\ At(r, "render") =>
       \A p \in Parts \ req[r].todo :
         /\ req[r].parts[p] >= req[r].floor.parts[p]
         /\ StillCurrent(r) => req[r].parts[p] >= announced.parts[p]

(* ...and what a request is about to send is of its round.                 *)
ServesItsRound(r) ==
  At(r, "serve") /\ cache.data # NoData =>
    req[r].overtaken \/ cache.round = req[r].round

IInv ==
  /\ TypeOK
  /\ AnnouncedIsTrue
  /\ CacheCurrent
  /\ \A r \in Requests : RenderCurrent(r) /\ ServesItsRound(r)
  /\ AnswersCurrent
=============================================================================
