--------------------------- MODULE SpectatorProofs ---------------------------
(* What the generation counter of the API caches achieves, for any number  *)
(* of requests, changers, parts and changes; and what a page that polls    *)
(* over these caches may rely on: the ranking keeps up with the round      *)
(* counter for any number of browsers, rounds and changes.                 *)
EXTENDS Spectator, TLAPS

USE ApiCacheAssumption, SpectatorAssumption
    DEF ApiCacheAssumption, SpectatorAssumption

(***************************************************************************)
(* Type correctness.                                                       *)
(***************************************************************************)
LEMMA IdleType ==
  /\ Unchanged \in Versions /\ Nothing \in Bodies /\ Idle \in Handlers
  /\ -1 \in Rounds /\ 0 \in Rounds /\ Rounds \subseteq Int
<1>1. Unchanged \in Versions
  BY DEF Unchanged, Versions
<1>2. Nothing \in Bodies
  BY <1>1 DEF Nothing, Bodies, Rounds
<1> QED
  BY <1>1, <1>2 DEF Idle, Handlers, Rounds

LEMMA InitType == Init => TypeOK
BY IdleType DEF Init, TypeOK, Caches

LEMMA AnsweredType ==
  ASSUME TypeOK, NEW r \in Requests, NEW body \in Bodies \cup {NoData, Empty}
  PROVE  /\ Answered(r, body) \in Handlers
         /\ Answered(r, body).step = "answered"
         /\ Answered(r, body).answer = body
         /\ Answered(r, body).generation = 0
         /\ Answered(r, body).floor = req[r].floor
         /\ Answered(r, body).overtaken = req[r].overtaken
<1>1. req[r] \in Handlers
  BY DEF TypeOK
<1>2. req[r].floor \in Bodies /\ req[r].overtaken \in BOOLEAN
  BY <1>1 DEF Handlers
<1> QED
  BY <1>2, IdleType DEF Answered, Idle, Handlers

LEMMA RenderedType ==
  ASSUME TypeOK, NEW r \in Requests
  PROVE  /\ Rendered(r) \in Bodies
         /\ Rendered(r).round = req[r].round /\ Rendered(r).parts = req[r].parts
<1>1. req[r] \in Handlers
  BY DEF TypeOK
<1> QED
  BY <1>1 DEF Rendered, Bodies, Handlers

LEMMA TypeStep ==
  ASSUME TypeOK, [Next]_vars
  PROVE  TypeOK'
<1>0. /\ \A r \in Requests : req[r] \in Handlers
      /\ req \in [Requests -> Handlers]
      /\ content \in Versions /\ announced \in Bodies /\ cache \in Caches
      /\ round \in Rounds /\ generation \in Nat /\ changing \subseteq Changers
  BY DEF TypeOK
<1>1. CASE UNCHANGED vars
  BY <1>1 DEF vars, TypeOK
<1>2. CASE Publish
  <2>1. round' \in Rounds
    BY <1>0, <1>2 DEF Publish, Rounds
  <2> QED
    BY <1>2, <2>1 DEF Publish, TypeOK
<1>3. ASSUME NEW c \in Changers, NEW p \in Parts, Change(c, p)
      PROVE  TypeOK'
  <2>1. content[p] + 1 \in 0..MaxChanges
    BY <1>0, <1>3 DEF Change, Versions
  <2>2. content' \in Versions
    BY <1>0, <1>3, <2>1 DEF Change, Versions
  <2> QED
    BY <1>3, <2>2 DEF Change, TypeOK
<1>4. ASSUME NEW c \in Changers, Invalidate(c)
      PROVE  TypeOK'
  <2>1. announced' \in Bodies /\ cache' \in Caches
    BY <1>0, <1>4, IdleType DEF Invalidate, Bodies, Caches
  <2>2. generation' \in Nat
    BY <1>0, <1>4 DEF Invalidate, NextGeneration
  <2> QED
    BY <1>4, <2>1, <2>2 DEF Invalidate, TypeOK
<1>5. ASSUME NEW r \in Requests, Arrive(r) \/ ArriveTooEarly(r)
      PROVE  TypeOK'
  <2>1. /\ [Idle EXCEPT !.step = "begin", !.round = round, !.floor = announced] \in Handlers
        /\ [Idle EXCEPT !.step = "answered", !.answer = Empty,
                        !.floor = announced] \in Handlers
    BY <1>0, IdleType DEF Handlers
  <2> QED
    BY <1>5, <2>1 DEF Arrive, ArriveTooEarly, TypeOK
<1>6. ASSUME NEW r \in Requests, Begin(r)
      PROVE  TypeOK'
  <2>1. [req[r] EXCEPT !.step = "check", !.generation = generation] \in Handlers
    BY <1>0 DEF Handlers
  <2> QED
    BY <1>6, <2>1 DEF Begin, TypeOK
<1>7. ASSUME NEW r \in Requests, Check(r)
      PROVE  TypeOK'
  <2>1. /\ [req[r] EXCEPT !.step = "serve", !.generation = 0] \in Handlers
        /\ [req[r] EXCEPT !.step = "render", !.todo = Parts] \in Handlers
    BY <1>0 DEF Handlers
  <2> QED
    BY <1>7, <2>1 DEF Check, TypeOK
<1>8. ASSUME NEW r \in Requests, Serve(r)
      PROVE  TypeOK'
  <2>1. cache.data \in Bodies \cup {NoData, Empty}
    BY <1>0 DEF Caches
  <2> QED
    BY <1>8, <2>1, AnsweredType DEF Serve, TypeOK
<1>9. ASSUME NEW r \in Requests, NEW p \in Parts, ReadPart(r, p)
      PROVE  TypeOK'
  <2> DEFINE read == [req[r] EXCEPT !.todo = req[r].todo \ {p},
                                    !.parts = [req[r].parts EXCEPT ![p] = content[p]]]
  <2>1. [req[r].parts EXCEPT ![p] = content[p]] \in Versions
    BY <1>0 DEF Handlers, Versions
  <2>2. read \in Handlers
    BY <1>0, <2>1 DEF Handlers
  <2>3. req' = [req EXCEPT ![r] = read]
    BY <1>0, <1>9 DEF ReadPart, Handlers
  <2> HIDE DEF read
  <2> QED
    BY <1>9, <2>2, <2>3 DEF ReadPart, TypeOK
<1>10. ASSUME NEW r \in Requests, Fail(r) \/ Done(r)
       PROVE  TypeOK'
  BY <1>10, IdleType DEF Fail, Done, TypeOK
<1>11. ASSUME NEW r \in Requests, Update(r)
       PROVE  TypeOK'
  <2>1. cache' \in Caches
    <3>1. Rendered(r) \in Bodies /\ req[r].round \in Rounds
      BY <1>0, RenderedType DEF Handlers
    <3> QED
      BY <1>0, <1>11, <3>1 DEF Update, Caches
  <2>2. ASSUME NEW q \in Requests
        PROVE  req'[q] \in Handlers
    <3>1. CASE q = r
      BY <1>11, <3>1, RenderedType, AnsweredType DEF Update
    <3>2. CASE q # r
      <4> DEFINE over == req[q].overtaken \/ (/\ StillCurrent(r) /\ At(q, "serve")
                                             /\ req[q].round # req[r].round)
      <4>1. req'[q] = [req[q] EXCEPT !.overtaken = over]
        BY <1>11, <3>2 DEF Update
      <4>2. over \in BOOLEAN
        OBVIOUS
      <4> HIDE DEF over
      <4> QED
        BY <1>0, <4>1, <4>2 DEF Handlers
    <3> QED
      BY <3>1, <3>2
  <2>3. req' \in [Requests -> Handlers]
    <3>1. req' = [q \in Requests |-> req'[q]]
      BY <1>11 DEF Update
    <3> QED
      BY <2>2, <3>1
  <2> QED
    BY <1>11, <2>1, <2>3 DEF Update, TypeOK
<1> QED
  BY <1>1, <1>2, <1>3, <1>4, <1>5, <1>6, <1>7, <1>8, <1>9, <1>10, <1>11 DEF Next

(***************************************************************************)
(* What is cached, and what may still be cached, is as new as what has     *)
(* been announced.                                                         *)
(***************************************************************************)
AnswerCurrent(r) ==
  At(r, "answered") /\ req[r].answer # NoData =>
    IF req[r].answer = Empty THEN req[r].floor.round = -1
    ELSE /\ NotBefore(req[r].answer.parts, req[r].floor.parts)
         /\ req[r].overtaken \/ req[r].answer.round >= req[r].floor.round

RequestCurrent(r) == RenderCurrent(r) /\ ServesItsRound(r) /\ AnswerCurrent(r)

Current == AnnouncedIsTrue /\ CacheCurrent /\ \A r \in Requests : RequestCurrent(r)

LEMMA CurrentIsInvariant ==
  TypeOK /\ Current <=> IInv
BY DEF Current, RequestCurrent, AnswerCurrent, IInv, AnswersCurrent

LEMMA InitCurrent == Init => Current
<1> SUFFICES ASSUME Init PROVE Current
  OBVIOUS
<1>1. /\ \A r \in Requests : req[r] = Idle
      /\ announced = Nothing /\ round = -1 /\ content = Unchanged /\ generation = 0
      /\ cache.data = NoData
  BY DEF Init
<1>2. /\ \A p \in Parts : Unchanged[p] = 0
      /\ Nothing.parts = Unchanged /\ Nothing.round = -1
  BY DEF Unchanged, Nothing
<1>3. AnnouncedIsTrue /\ CacheCurrent
  BY <1>1, <1>2 DEF AnnouncedIsTrue, NotBefore, CacheCurrent
<1>4. ASSUME NEW r \in Requests
      PROVE  RequestCurrent(r)
  <2>1. /\ req[r].step = "idle" /\ req[r].generation = 0
        /\ req[r].floor = Nothing
    BY <1>1 DEF Idle
  <2> QED
    BY <1>1, <1>2, <2>1 DEF RequestCurrent, RenderCurrent, ServesItsRound,
       AnswerCurrent, NotBefore, At
<1> QED
  BY <1>3, <1>4 DEF Current

(* What is announced only grows. *)
LEMMA AnnouncedStep ==
  ASSUME TypeOK, AnnouncedIsTrue, [Next]_vars
  PROVE  /\ AnnouncedIsTrue'
         /\ NotBefore(announced'.parts, announced.parts)
         /\ announced'.round >= announced.round
<1>0. /\ content \in Versions /\ announced \in Bodies /\ round \in Int
      /\ announced.parts \in Versions /\ announced.round \in Int
      /\ \A v \in Versions, p \in Parts : v[p] \in Int
  BY DEF TypeOK, Bodies, Versions, Rounds
<1>1. CASE UNCHANGED <<content, round, announced>>
  BY <1>0, <1>1 DEF AnnouncedIsTrue, NotBefore
<1>2. CASE Publish
  BY <1>0, <1>2 DEF Publish, AnnouncedIsTrue, NotBefore
<1>3. ASSUME NEW c \in Changers, NEW p \in Parts, Change(c, p)
      PROVE  /\ AnnouncedIsTrue'
             /\ NotBefore(announced'.parts, announced.parts)
             /\ announced'.round >= announced.round
  <2>1. \A q \in Parts : content'[q] \in Int /\ content'[q] >= content[q]
    BY <1>0, <1>3 DEF Change, Versions
  <2>2. UNCHANGED <<round, announced>>
    BY <1>3 DEF Change
  <2> QED
    BY <1>0, <2>1, <2>2 DEF AnnouncedIsTrue, NotBefore
<1>4. ASSUME NEW c \in Changers, Invalidate(c)
      PROVE  /\ AnnouncedIsTrue'
             /\ NotBefore(announced'.parts, announced.parts)
             /\ announced'.round >= announced.round
  <2>1. /\ announced'.round = round /\ announced'.parts = content
        /\ UNCHANGED <<round, content>>
    BY <1>4 DEF Invalidate
  <2> QED
    BY <1>0, <2>1 DEF AnnouncedIsTrue, NotBefore
<1>5. ASSUME NEW r \in Requests,
             \/ Arrive(r) \/ ArriveTooEarly(r) \/ Begin(r) \/ Check(r) \/ Serve(r)
             \/ \E p \in Parts : ReadPart(r, p)
             \/ Fail(r) \/ Update(r) \/ Done(r)
      PROVE  UNCHANGED <<content, round, announced>>
  BY <1>5 DEF Arrive, ArriveTooEarly, Begin, Check, Serve, ReadPart, Fail, Update, Done
<1>6. CASE UNCHANGED vars
  BY <1>1, <1>6 DEF vars
<1> QED
  BY <1>1, <1>2, <1>3, <1>4, <1>5, <1>6 DEF Next

(* Numbers, for the steps below. *)
LEMMA Numbers ==
  ASSUME TypeOK
  PROVE  /\ \A r \in Requests :
              /\ req[r] \in Handlers /\ req[r].generation \in Nat
              /\ req[r].round \in Rounds /\ req[r].parts \in Versions
              /\ req[r].floor \in Bodies /\ req[r].floor.parts \in Versions
              /\ req[r].floor.round \in Rounds
              /\ req[r].answer \in Bodies \cup {NoData, Empty}
         /\ generation \in Nat /\ round \in Rounds /\ content \in Versions
         /\ cache.data \in Bodies \cup {NoData} /\ cache.round \in Rounds
         /\ announced.parts \in Versions /\ announced.round \in Rounds
         /\ \A v \in Versions, p \in Parts : v[p] \in Int
         /\ Rounds \subseteq Int
BY DEF TypeOK, Handlers, Caches, Bodies, Versions, Rounds

LEMMA CurrentStep ==
  ASSUME TypeOK, Current, [Next]_vars
  PROVE  Current'
<1>0. /\ TypeOK' /\ AnnouncedIsTrue /\ CacheCurrent
      /\ \A r \in Requests : RenderCurrent(r) /\ ServesItsRound(r) /\ AnswerCurrent(r)
  BY TypeStep DEF Current, RequestCurrent
<1>a. AnnouncedIsTrue'
  BY <1>0, AnnouncedStep
<1>1. CASE UNCHANGED <<cache, generation, req, announced>>
  <2>1. CacheCurrent'
    BY <1>0, <1>1 DEF CacheCurrent, NotBefore
  <2>2. ASSUME NEW r \in Requests
        PROVE  RequestCurrent(r)'
    BY <1>0, <1>1 DEF RequestCurrent, RenderCurrent, ServesItsRound, AnswerCurrent,
       NotBefore, At, StillCurrent
  <2> QED
    BY <1>a, <2>1, <2>2 DEF Current
<1>2. ASSUME NEW c \in Changers, Invalidate(c)
      PROVE  Current'
  <2>1. /\ UNCHANGED req /\ generation' = generation + 1
        /\ cache'.data = NoData
    BY <1>2 DEF Invalidate, NextGeneration
  <2>2. /\ \A p \in Parts : announced'.parts[p] >= announced.parts[p]
        /\ announced'.round >= announced.round
        /\ announced'.parts \in Versions /\ announced'.round \in Rounds
    BY <1>0, AnnouncedStep DEF NotBefore, TypeOK, Bodies
  <2>3. CacheCurrent'
    BY <2>1 DEF CacheCurrent
  <2>4. ASSUME NEW r \in Requests
        PROVE  RequestCurrent(r)'
    <3>1. req'[r].generation <= generation' /\ ~StillCurrent(r)'
      BY <1>0, <2>1, Numbers DEF StillCurrent, RenderCurrent
    <3>2. /\ NotBefore(announced.parts, req[r].floor.parts)'
          /\ announced'.round >= req'[r].floor.round
      BY <1>0, <2>1, <2>2, Numbers DEF RenderCurrent, NotBefore
    <3>3. RenderCurrent(r)'
      BY <1>0, <2>1, <3>1, <3>2 DEF RenderCurrent, At
    <3>4. ServesItsRound(r)' /\ AnswerCurrent(r)'
      BY <1>0, <2>1 DEF ServesItsRound, AnswerCurrent, At, NotBefore
    <3> QED
      BY <3>3, <3>4 DEF RequestCurrent
  <2> QED
    BY <1>a, <2>3, <2>4 DEF Current
<1>3. ASSUME NEW r \in Requests,
             UNCHANGED <<cache, generation, announced>>,
             \A q \in Requests \ {r} : req'[q] = req[q],
             RequestCurrent(r)'
      PROVE  Current'
  <2>1. CacheCurrent'
    BY <1>0, <1>3 DEF CacheCurrent, NotBefore
  <2>2. ASSUME NEW q \in Requests \ {r}
        PROVE  RequestCurrent(q)'
    BY <1>0, <1>3 DEF RequestCurrent, RenderCurrent, ServesItsRound, AnswerCurrent,
       NotBefore, At, StillCurrent
  <2> QED
    BY <1>a, <1>3, <2>1, <2>2 DEF Current
<1>4. ASSUME NEW r \in Requests, Arrive(r) \/ ArriveTooEarly(r)
      PROVE  Current'
  <2>1. /\ req'[r].floor = announced /\ req'[r].generation = 0
        /\ UNCHANGED <<cache, generation, announced, round>>
        /\ \/ req'[r].step = "begin" /\ req'[r].round = round
           \/ req'[r].step = "answered" /\ req'[r].answer = Empty /\ round < 0
    BY <1>4 DEF Arrive, ArriveTooEarly, Idle, TypeOK
  <2>2. RenderCurrent(r)'
    BY <1>0, <2>1, Numbers DEF RenderCurrent, NotBefore, At, AnnouncedIsTrue
  <2>3. ServesItsRound(r)' /\ AnswerCurrent(r)'
    BY <1>0, <2>1, Numbers DEF ServesItsRound, AnswerCurrent, At, AnnouncedIsTrue, Rounds
  <2>4. \A q \in Requests \ {r} : req'[q] = req[q]
    BY <1>4 DEF Arrive, ArriveTooEarly, TypeOK
  <2> QED
    BY <1>3, <2>1, <2>2, <2>3, <2>4 DEF RequestCurrent
<1>5. ASSUME NEW r \in Requests, Begin(r)
      PROVE  Current'
  <2>1. /\ req'[r].step = "check" /\ req'[r].generation = generation
        /\ req'[r].floor = req[r].floor /\ req'[r].round = req[r].round
        /\ req[r].step = "begin"
        /\ UNCHANGED <<cache, generation, announced>>
        /\ \A q \in Requests \ {r} : req'[q] = req[q]
    BY <1>5, Numbers DEF Begin, TypeOK, Handlers, At
  <2>2. RequestCurrent(r)'
    BY <1>0, <2>1, Numbers DEF RequestCurrent, RenderCurrent, ServesItsRound,
       AnswerCurrent, NotBefore, At
  <2> QED
    BY <1>3, <2>1, <2>2
<1>6. ASSUME NEW r \in Requests, Check(r)
      PROVE  Current'
  <2>1. /\ req'[r].floor = req[r].floor /\ req'[r].round = req[r].round
        /\ req[r].step = "check"
        /\ \/ /\ req'[r].step = "serve" /\ req'[r].generation = 0
              /\ cache.round = req[r].round
           \/ /\ req'[r].step = "render" /\ req'[r].todo = Parts
              /\ req'[r].generation = req[r].generation
        /\ UNCHANGED <<cache, generation, announced>>
        /\ \A q \in Requests \ {r} : req'[q] = req[q]
    BY <1>6, Numbers DEF Check, Valid, TypeOK, Handlers, At
  <2>2. RequestCurrent(r)'
    BY <1>0, <2>1, Numbers DEF RequestCurrent, RenderCurrent, ServesItsRound,
       AnswerCurrent, NotBefore, At
  <2> QED
    BY <1>3, <2>1, <2>2
<1>7. ASSUME NEW r \in Requests, Serve(r)
      PROVE  Current'
  <2>1. /\ req'[r] = Answered(r, cache.data) /\ req[r].step = "serve"
        /\ UNCHANGED <<cache, generation, announced>>
        /\ \A q \in Requests \ {r} : req'[q] = req[q]
    BY <1>7 DEF Serve, TypeOK, At
  <2>2. /\ req'[r].step = "answered" /\ req'[r].answer = cache.data
        /\ req'[r].generation = 0 /\ req'[r].floor = req[r].floor
        /\ req'[r].overtaken = req[r].overtaken
    BY <2>1, Numbers, AnsweredType
  <2>3. RenderCurrent(r)' /\ ServesItsRound(r)'
    BY <1>0, <2>1, <2>2, Numbers DEF RenderCurrent, ServesItsRound, NotBefore, At
  <2>4. ASSUME cache.data # NoData
        PROVE  /\ NotBefore(cache.data.parts, req[r].floor.parts)
               /\ req[r].overtaken \/ cache.data.round >= req[r].floor.round
               /\ cache.data # Empty
    <3>1. cache.data \in Bodies /\ cache.data.parts \in Versions
      BY <2>4, Numbers DEF Bodies
    <3>2. \A p \in Parts : /\ cache.data.parts[p] >= announced.parts[p]
                           /\ announced.parts[p] >= req[r].floor.parts[p]
      BY <1>0, <2>4 DEF CacheCurrent, RenderCurrent, NotBefore
    <3>3. NotBefore(cache.data.parts, req[r].floor.parts)
      BY <3>1, <3>2, Numbers DEF NotBefore
    <3>4. req[r].overtaken \/ cache.data.round >= req[r].floor.round
      BY <1>0, <2>1, <2>4 DEF CacheCurrent, RenderCurrent, ServesItsRound, At
    <3>5. Empty \notin Bodies
      BY DEF Bodies, Versions, Rounds
    <3> QED
      BY <3>1, <3>3, <3>4, <3>5
  <2>5. AnswerCurrent(r)'
    BY <2>2, <2>4 DEF AnswerCurrent, At
  <2> QED
    BY <1>3, <2>1, <2>3, <2>5 DEF RequestCurrent
<1>8. ASSUME NEW r \in Requests, NEW p \in Parts, ReadPart(r, p)
      PROVE  Current'
  <2>1. /\ req[r].step = "render"
        /\ req'[r].step = req[r].step /\ req'[r].floor = req[r].floor
        /\ req'[r].round = req[r].round
        /\ req'[r].generation = req[r].generation
        /\ req'[r].todo = req[r].todo \ {p}
        /\ UNCHANGED <<cache, announced, generation>>
        /\ \A q \in Requests \ {r} : req'[q] = req[q]
    BY <1>8, Numbers DEF ReadPart, TypeOK, Handlers, At
  <2>2. /\ req'[r].parts[p] = content[p]
        /\ \A q \in Parts \ {p} : req'[r].parts[q] = req[r].parts[q]
    BY <1>8, Numbers DEF ReadPart, TypeOK, Handlers, Versions
  <2>3. content[p] >= announced.parts[p] /\ announced.parts[p] >= req[r].floor.parts[p]
    BY <1>0 DEF AnnouncedIsTrue, RenderCurrent, NotBefore
  <2>4. content[p] \in Int /\ announced.parts[p] \in Int /\ req[r].floor.parts[p] \in Int
    BY Numbers
  <2>5. ASSUME NEW q \in Parts \ req'[r].todo
        PROVE  /\ req'[r].parts[q] >= req'[r].floor.parts[q]
               /\ StillCurrent(r)' => req'[r].parts[q] >= announced'.parts[q]
    <3>1. CASE q = p
      BY <2>1, <2>2, <2>3, <2>4, <3>1
    <3>2. CASE q # p
      BY <1>0, <2>1, <2>2, <2>5, <3>2 DEF RenderCurrent, StillCurrent, At
    <3> QED
      BY <3>1, <3>2
  <2>6. RenderCurrent(r)'
    BY <1>0, <2>1, <2>5 DEF RenderCurrent, NotBefore, At
  <2>7. ServesItsRound(r)' /\ AnswerCurrent(r)'
    BY <2>1 DEF ServesItsRound, AnswerCurrent, At
  <2> QED
    BY <1>3, <2>1, <2>6, <2>7 DEF RequestCurrent
<1>9. ASSUME NEW r \in Requests, Fail(r) \/ Done(r)
      PROVE  Current'
  <2>1. /\ req'[r] = Idle
        /\ UNCHANGED <<cache, announced, generation>>
        /\ \A q \in Requests \ {r} : req'[q] = req[q]
    BY <1>9 DEF Fail, Done, TypeOK
  <2>2. /\ req'[r].step = "idle" /\ req'[r].generation = 0
        /\ req'[r].floor.round = -1 /\ \A p \in Parts : req'[r].floor.parts[p] = 0
    BY <2>1 DEF Idle, Nothing, Unchanged
  <2>3. /\ \A p \in Parts : announced.parts[p] >= 0
        /\ announced.round >= -1
    BY Numbers DEF Versions, Rounds
  <2>4. RenderCurrent(r)'
    BY <2>1, <2>2, <2>3, Numbers DEF RenderCurrent, NotBefore, At
  <2>5. ServesItsRound(r)' /\ AnswerCurrent(r)'
    BY <2>2 DEF ServesItsRound, AnswerCurrent, At
  <2> QED
    BY <1>3, <2>1, <2>4, <2>5 DEF RequestCurrent
<1>10. ASSUME NEW r \in Requests, Update(r)
       PROVE  Current'
  <2>1. /\ req[r].step = "render" /\ req[r].todo = {}
        /\ req'[r] = Answered(r, Rendered(r))
        /\ UNCHANGED <<announced, generation>>
    BY <1>10 DEF Update, At
  <2>2. /\ req'[r].step = "answered" /\ req'[r].answer = Rendered(r)
        /\ req'[r].generation = 0 /\ req'[r].floor = req[r].floor
    BY <2>1, RenderedType, AnsweredType
  <2>3. /\ NotBefore(req[r].parts, req[r].floor.parts)
        /\ StillCurrent(r) => NotBefore(req[r].parts, announced.parts)
        /\ req[r].round >= req[r].floor.round
    BY <1>0, <2>1 DEF RenderCurrent, NotBefore, At
  <2>4. RequestCurrent(r)'
    <3>1. Empty \notin Bodies
      BY DEF Bodies, Versions, Rounds
    <3>2. RenderCurrent(r)'
      BY <1>0, <2>1, <2>2, Numbers DEF RenderCurrent, NotBefore, At
    <3>3. ServesItsRound(r)'
      BY <2>2 DEF ServesItsRound, At
    <3>4. AnswerCurrent(r)'
      BY <2>2, <2>3, <3>1, RenderedType DEF AnswerCurrent, At
    <3> QED
      BY <3>2, <3>3, <3>4 DEF RequestCurrent
  <2>5. CASE StillCurrent(r)
    <3>1. cache'.data = Rendered(r) /\ cache'.round = req[r].round
      BY <1>10, <2>5 DEF Update
    <3>2. CacheCurrent'
      BY <2>1, <2>3, <2>5, <3>1, RenderedType DEF CacheCurrent, NotBefore
    <3>3. ASSUME NEW q \in Requests \ {r}
          PROVE  RequestCurrent(q)'
      <4>1. req'[q] = [req[q] EXCEPT !.overtaken =
                         @ \/ (/\ StillCurrent(r) /\ At(q, "serve")
                               /\ req[q].round # req[r].round)]
        BY <1>10 DEF Update
      <4>2. req[q] \in Handlers
        BY Numbers
      <4>3. req'[q].overtaken = (\/ req[q].overtaken
                                 \/ /\ StillCurrent(r) /\ At(q, "serve")
                                    /\ req[q].round # req[r].round)
        BY <4>1, <4>2 DEF Handlers
      <4>4. /\ req[q].overtaken => req'[q].overtaken
            /\ At(q, "serve") /\ req[q].round # req[r].round => req'[q].overtaken
        BY <2>5, <4>3
      <4>5. /\ req'[q].step = req[q].step /\ req'[q].round = req[q].round
            /\ req'[q].generation = req[q].generation /\ req'[q].todo = req[q].todo
            /\ req'[q].parts = req[q].parts /\ req'[q].answer = req[q].answer
            /\ req'[q].floor = req[q].floor
        BY <4>1, <4>2 DEF Handlers
      <4>6. RenderCurrent(q)' /\ AnswerCurrent(q)'
        BY <1>0, <2>1, <4>4, <4>5 DEF RenderCurrent, AnswerCurrent, NotBefore, At,
           StillCurrent
      <4>7. ServesItsRound(q)'
        BY <3>1, <4>4, <4>5 DEF ServesItsRound, At
      <4> QED
        BY <4>6, <4>7 DEF RequestCurrent
    <3> QED
      BY <1>a, <2>4, <3>2, <3>3 DEF Current
  <2>6. CASE ~StillCurrent(r)
    <3>1. cache' = cache
      BY <1>10, <2>6 DEF Update
    <3>2. ASSUME NEW q \in Requests \ {r}
          PROVE  req'[q] = req[q]
      <4>1. req'[q] = [req[q] EXCEPT !.overtaken =
                         @ \/ (/\ StillCurrent(r) /\ At(q, "serve")
                               /\ req[q].round # req[r].round)]
        BY <1>10 DEF Update
      <4>2. req[q].overtaken \in BOOLEAN
        BY Numbers DEF Handlers
      <4> QED
        BY <2>6, <4>1, <4>2, Numbers DEF Handlers
    <3> QED
      BY <1>3, <2>1, <2>4, <3>1, <3>2
  <2> QED
    BY <2>5, <2>6
<1>11. CASE Publish \/ \E c \in Changers, p \in Parts : Change(c, p)
  BY <1>1, <1>11 DEF Publish, Change
<1>12. CASE UNCHANGED vars
  BY <1>1, <1>12 DEF vars
<1> QED
  BY <1>2, <1>4, <1>5, <1>6, <1>7, <1>8, <1>9, <1>10, <1>11, <1>12 DEF Next

(* A cache, and every render that may still fill it, is as new as the      *)
(* last invalidation, and kept for the round it is of.                     *)
THEOREM CacheInvariant == Spec => []IInv
<1>1. Init => IInv
  BY InitType, InitCurrent, CurrentIsInvariant
<1>2. IInv /\ [Next]_vars => IInv'
  <2> SUFFICES ASSUME IInv, [Next]_vars PROVE IInv'
    OBVIOUS
  <2>1. TypeOK /\ Current
    BY CurrentIsInvariant
  <2>2. TypeOK' /\ Current'
    BY <2>1, TypeStep, CurrentStep
  <2> QED
    BY <2>2 DEF Current, RequestCurrent, AnswerCurrent, IInv, AnswersCurrent
<1> QED
  BY <1>1, <1>2, PTL DEF Spec

(* No answer, cached or not, is older than the last invalidation that was  *)
(* over when the request came in, for any number of requests and changes;  *)
(* only a request that is overtaken between isValid and serve may get the  *)
(* rows of another round.                                                  *)
THEOREM NoStaleAnswer == Spec => []AnswersCurrent
<1>1. IInv => AnswersCurrent
  BY DEF IInv
<1> QED
  BY <1>1, CacheInvariant, PTL

-----------------------------------------------------------------------------
(***************************************************************************)
(* The page and everybody else do to the server what ApiCache allows, so   *)
(* that what holds of the caches holds here.                               *)
(***************************************************************************)
LEMMA ServerStep ==
  ASSUME [PageNext]_pageVars
  PROVE  [Next]_vars
<1>1. CASE UNCHANGED pageVars
  BY <1>1 DEF pageVars, vars
<1>2. CASE Others
  BY <1>2 DEF Others, Next
<1>3. CASE Poll \/ PollFails \/ Refetch \/ BoardLost \/ Reload
  BY <1>3 DEF Poll, PollFails, Refetch, BoardLost, Reload, vars
<1>4. ASSUME NEW r \in Requests, BoardArrive(r) \/ BoardAnswer(r) \/ BoardFail(r)
      PROVE  [Next]_vars
  BY <1>4 DEF BoardArrive, BoardAnswer, BoardFail, Next
<1> QED
  BY <1>1, <1>2, <1>3, <1>4 DEF PageNext

THEOREM ServerFollows == PageSpec => Spec
<1>1. PageInit => Init
  BY DEF PageInit
<1> QED
  BY <1>1, ServerStep, PTL DEF PageSpec, Spec

(***************************************************************************)
(* The page: a request that was sent since the round shown has changed     *)
(* reads that round or a later one, and is answered with what it read      *)
(* unless it is overtaken.                                                 *)
(***************************************************************************)
Reads(r) ==
  /\ req[r].step \in {"begin", "check", "serve", "render"} => req[r].round >= shown
  /\ At(r, "answered") /\ req[r].answer # NoData /\ ~req[r].overtaken =>
       req[r].answer \in Bodies /\ req[r].answer.round >= shown

BoardCurrent ==
  /\ shown \in Rounds \cup {None}
  /\ shown # None => shown <= round
  /\ board \in Boards
  /\ board.current /\ shown \notin {None, -1} =>
       /\ board.wire = None => board.data \in Rounds /\ board.data >= shown
       /\ board.wire \in Requests => Reads(board.wire)

(* A board whose request is only sent, or known to be late, owes nothing. *)
LEMMA NothingDue ==
  ASSUME shown' \in Rounds \cup {None}, shown' # None => shown' <= round',
         board' \in Boards, board'.wire = "sent" \/ ~board'.current
  PROVE  BoardCurrent'
BY DEF BoardCurrent

LEMMA FetchSends ==
  ASSUME NEW b \in Boards
  PROVE  /\ Fetch(b) \in Boards /\ Fetch(b).wire = "sent"
         /\ InvalidateQueries(b) \in Boards
         /\ InvalidateQueries(b).wire = "sent" \/ ~InvalidateQueries(b).current
         /\ FetchUnlessBusy(b) \in Boards
         /\ FetchUnlessBusy(b) = b \/ FetchUnlessBusy(b).wire = "sent"
BY DEF Fetch, InvalidateQueries, FetchUnlessBusy, Boards

LEMMA NoBoardType == NoBoard \in Boards
BY DEF NoBoard, Boards

(* What the server does to a request that is under way. *)
LEMMA ReadsStep ==
  ASSUME IInv, NEW b \in Requests, Reads(b), shown' = shown, shown \in Int,
         NEW r \in Requests,
         \/ Begin(r) \/ Check(r) \/ Serve(r) \/ Update(r)
         \/ \E p \in Parts : ReadPart(r, p)
         \/ r # b /\ (Arrive(r) \/ ArriveTooEarly(r) \/ Fail(r) \/ Done(r))
  PROVE  Reads(b)'
<1>0. TypeOK /\ CacheCurrent /\ ServesItsRound(b)
  BY DEF IInv
<1>1. CASE req'[b] = req[b]
  BY <1>1 DEF Reads, At
<1>2. CASE r # b /\ ~Update(r)
  BY <1>0, <1>1, <1>2 DEF Begin, Check, Serve, ReadPart, Arrive, ArriveTooEarly, Fail,
     Done, TypeOK
<1>3. CASE r # b /\ Update(r)
  <2>1. req'[b] = [req[b] EXCEPT !.overtaken =
                     @ \/ (/\ StillCurrent(r) /\ At(b, "serve")
                           /\ req[b].round # req[r].round)]
    BY <1>3 DEF Update
  <2>2. /\ req'[b].step = req[b].step /\ req'[b].round = req[b].round
        /\ req'[b].answer = req[b].answer
        /\ req[b].overtaken => req'[b].overtaken
    BY <1>0, <2>1, Numbers DEF Handlers
  <2> QED
    BY <2>2 DEF Reads, At
<1>4. CASE r = b /\ (Begin(r) \/ Check(r) \/ \E p \in Parts : ReadPart(r, p))
  <2>1. /\ req[b].step \in {"begin", "check", "render"}
        /\ req'[b].step \in {"check", "serve", "render"}
        /\ req'[b].round = req[b].round
    <3>1. req[b] \in Handlers /\ req \in [Requests -> Handlers]
      BY <1>0 DEF TypeOK
    <3>2. CASE Begin(b)
      BY <3>1, <3>2 DEF Begin, Handlers, At
    <3>3. CASE Check(b)
      BY <3>1, <3>3 DEF Check, Handlers, At
    <3>4. CASE \E p \in Parts : ReadPart(b, p)
      <4>1. PICK p \in Parts : ReadPart(b, p)
        BY <3>4
      <4>2. req' = [req EXCEPT ![b] = [req[b] EXCEPT
                      !.todo = req[b].todo \ {p},
                      !.parts = [req[b].parts EXCEPT ![p] = content[p]]]]
        BY <3>1, <4>1 DEF ReadPart, Handlers
      <4>3. req'[b].step = req[b].step /\ req'[b].round = req[b].round
        BY <3>1, <4>2 DEF Handlers
      <4> QED
        BY <4>1, <4>3 DEF ReadPart, At
    <3> QED
      BY <1>4, <3>2, <3>3, <3>4
  <2> QED
    BY <2>1 DEF Reads, At
<1>5. CASE r = b /\ Serve(r)
  <2>1. req'[b] = Answered(b, cache.data) /\ req[b].step = "serve"
    BY <1>0, <1>5 DEF Serve, TypeOK, At
  <2>2. /\ req'[b].step = "answered" /\ req'[b].answer = cache.data
        /\ req'[b].overtaken = req[b].overtaken
    BY <1>0, <2>1, Numbers, AnsweredType
  <2>3. req[b].round >= shown
    BY <2>1 DEF Reads
  <2>4. cache.data # NoData /\ ~req[b].overtaken =>
          cache.data \in Bodies /\ cache.data.round = req[b].round
    BY <1>0, <2>1, Numbers DEF CacheCurrent, ServesItsRound, At
  <2> QED
    BY <2>2, <2>3, <2>4 DEF Reads, At
<1>6. CASE r = b /\ Update(r)
  <2>1. req'[b] = Answered(b, Rendered(b)) /\ req[b].step = "render"
    BY <1>6 DEF Update, At
  <2>2. /\ req'[b].step = "answered" /\ req'[b].answer = Rendered(b)
        /\ Rendered(b) \in Bodies /\ Rendered(b).round = req[b].round
    BY <1>0, <2>1, RenderedType, AnsweredType
  <2>3. req[b].round >= shown
    BY <2>1 DEF Reads
  <2> QED
    BY <2>2, <2>3 DEF Reads, At
<1> QED
  BY <1>2, <1>3, <1>4, <1>5, <1>6

LEMMA BoardStep ==
  ASSUME IInv, BoardCurrent, [PageNext]_pageVars
  PROVE  BoardCurrent'
<1>0. /\ round \in Rounds /\ board \in Boards /\ req \in [Requests -> Handlers]
      /\ TypeOK /\ Rounds \subseteq Int
      /\ shown \in Rounds \cup {None} /\ (shown # None => shown <= round)
      /\ None \notin Int /\ None \notin Requests /\ "sent" \notin Requests
      /\ None # "sent"
  BY DEF IInv, TypeOK, BoardCurrent, Rounds
<1>1. CASE UNCHANGED pageVars
  BY <1>1 DEF pageVars, vars, BoardCurrent, Reads, At
<1>2. CASE Poll
  <2>1. /\ shown' \in Rounds /\ shown' <= round' /\ UNCHANGED vars
    BY <1>0, <1>2 DEF Poll, vars
  <2>2. CASE oldRound = shown'
    <3>1. UNCHANGED <<board, req>>
      BY <1>2, <2>2 DEF Poll, vars
    <3>2. shown' = shown \/ shown' = -1
      BY <2>2 DEF oldRound
    <3> QED
      BY <1>0, <2>1, <3>1, <3>2 DEF BoardCurrent, Reads, At
  <2>3. CASE oldRound # shown'
    BY <1>0, <1>2, <2>1, <2>3, FetchSends, NothingDue DEF Poll
  <2> QED
    BY <2>2, <2>3
<1>3. CASE PollFails \/ Refetch \/ Reload
  <2>1. CASE PollFails
    BY <1>0, <2>1, FetchSends, NothingDue DEF PollFails, vars
  <2>2. CASE Refetch
    <3>1. PICK b \in {board, NoBoard} : Becomes(FetchUnlessBusy(b))
      BY <2>2 DEF Refetch
    <3>2. board' \in Boards /\ (board' = board \/ board'.wire = "sent")
      <4>1. b = NoBoard => FetchUnlessBusy(b) = Fetch(b)
        BY DEF FetchUnlessBusy, NoBoard
      <4> QED
        BY <1>0, <3>1, <4>1, FetchSends, NoBoardType DEF Becomes
    <3>3. UNCHANGED <<vars, shown>>
      BY <2>2, <3>1 DEF Refetch, Becomes
    <3> QED
      BY <1>0, <3>2, <3>3, NothingDue DEF BoardCurrent, Reads, At, vars
  <2>3. CASE Reload
    BY <1>0, <2>3, FetchSends, NoBoardType, NothingDue DEF Reload, vars
  <2> QED
    BY <1>3, <2>1, <2>2, <2>3
<1>4. ASSUME NEW r \in Requests, BoardArrive(r)
      PROVE  BoardCurrent'
  <2>1. /\ board' \in Boards /\ board'.wire = r
        /\ UNCHANGED <<shown, round>>
        /\ \/ req'[r].step = "begin" /\ req'[r].round = round
           \/ req'[r].step = "answered" /\ round < 0
    <3>1. board' \in Boards /\ board'.wire = r /\ UNCHANGED shown
      BY <1>0, <1>4 DEF BoardArrive, Becomes, Boards
    <3>2. CASE Arrive(r)
      BY <1>0, <3>1, <3>2 DEF Arrive, Idle
    <3>3. CASE ArriveTooEarly(r)
      BY <1>0, <3>1, <3>3 DEF ArriveTooEarly, Idle
    <3> QED
      BY <1>4, <3>2, <3>3 DEF BoardArrive
  <2>2. shown \notin {None, -1} => shown >= 0
    BY <1>0 DEF Rounds
  <2>3. shown \notin {None, -1} => Reads(r)'
    BY <1>0, <2>1, <2>2 DEF Reads, At
  <2> QED
    BY <1>0, <2>1, <2>3 DEF BoardCurrent
<1>5. ASSUME NEW r \in Requests, BoardAnswer(r)
      PROVE  BoardCurrent'
  <2>1. /\ board.wire = r /\ req[r].answer # NoData /\ At(r, "answered")
        /\ UNCHANGED <<shown, round>>
        /\ board' = [board EXCEPT !.wire = None, !.data = Ranking(req[r].answer),
                                  !.current = @ /\ ~req[r].overtaken]
    BY <1>5 DEF BoardAnswer, Becomes, Done
  <2>2. Ranking(req[r].answer) \in Rounds \cup {Empty}
    BY <1>0, <2>1, Numbers DEF Ranking, Bodies
  <2>3. /\ board' \in Boards /\ board'.wire = None
        /\ board'.data = Ranking(req[r].answer)
        /\ board'.current => board.current /\ ~req[r].overtaken
    BY <1>0, <2>1, <2>2 DEF Boards
  <2>4. ASSUME board'.current, shown \notin {None, -1}
        PROVE  board'.data \in Rounds /\ board'.data >= shown
    <3>1. req[r].answer \in Bodies /\ req[r].answer.round >= shown
      BY <2>1, <2>3, <2>4 DEF BoardCurrent, Reads
    <3>2. Empty \notin Bodies
      BY DEF Bodies, Versions, Rounds
    <3> QED
      BY <2>3, <3>1, <3>2 DEF Ranking, Bodies
  <2> QED
    BY <1>0, <2>1, <2>3, <2>4 DEF BoardCurrent
<1>6. CASE Missed /\ UNCHANGED round
  <2>1. /\ board' \in Boards
        /\ board'.wire = "sent" \/ ~board'.current
        /\ UNCHANGED shown
    BY <1>0, <1>6 DEF Missed, Becomes, Boards
  <2> QED
    BY <1>0, <1>6, <2>1, NothingDue
<1>7. CASE BoardLost \/ \E r \in Requests : BoardFail(r)
  BY <1>6, <1>7 DEF BoardLost, BoardFail, Fail, Done, vars
<1>8. CASE Others
  <2>0. UNCHANGED <<shown, board>>
    BY <1>8 DEF Others
  <2>1. ASSUME round' \in Int, round' >= round,
               board.current /\ shown \notin {None, -1} /\ board.wire \in Requests =>
                 Reads(board.wire)'
        PROVE  BoardCurrent'
    BY <1>0, <2>0, <2>1 DEF BoardCurrent
  <2>2. ASSUME UNCHANGED req, round' \in Int, round' >= round
        PROVE  BoardCurrent'
    BY <2>0, <2>1, <2>2 DEF BoardCurrent, Reads, At
  <2>3. CASE Publish \/ \E c \in Changers : Invalidate(c) \/ \E p \in Parts : Change(c, p)
    BY <1>0, <2>2, <2>3 DEF Publish, Invalidate, Change
  <2>4. ASSUME NEW r \in Requests,
               \/ Begin(r) \/ Check(r) \/ Serve(r) \/ Update(r)
               \/ \E p \in Parts : ReadPart(r, p)
               \/ r # board.wire /\ (Arrive(r) \/ ArriveTooEarly(r) \/ Fail(r) \/ Done(r))
        PROVE  BoardCurrent'
    <3>1. round' = round
      BY <2>4 DEF Begin, Check, Serve, Update, ReadPart, Arrive, ArriveTooEarly, Fail, Done
    <3>2. ASSUME board.current, shown \notin {None, -1}, board.wire \in Requests
          PROVE  Reads(board.wire)'
      <4>1. PICK b \in Requests : b = board.wire
        BY <3>2
      <4>2. Reads(b) /\ shown \in Int
        BY <1>0, <3>2, <4>1 DEF BoardCurrent
      <4>3. Reads(b)'
        BY <2>0, <2>4, <4>1, <4>2, ReadsStep
      <4> QED
        BY <2>0, <4>1, <4>3 DEF Reads, At
    <3> QED
      BY <1>0, <2>1, <3>1, <3>2
  <2> QED
    BY <1>8, <2>3, <2>4 DEF Others
<1> QED
  BY <1>1, <1>2, <1>3, <1>4, <1>5, <1>7, <1>8 DEF PageNext

LEMMA PageInitially ==
  ASSUME PageInit
  PROVE  BoardCurrent
BY FetchSends, NoBoardType DEF PageInit, BoardCurrent

LEMMA PageInvariant == PageSpec => [](IInv /\ BoardCurrent)
<1>1. PageSpec => []IInv
  BY ServerFollows, CacheInvariant, PTL
<1>2. PageInit => BoardCurrent
  BY PageInitially
<1>3. IInv /\ BoardCurrent /\ [PageNext]_pageVars => BoardCurrent'
  BY BoardStep
<1> QED
  BY <1>1, <1>2, <1>3, PTL DEF PageSpec

(* What the page keeps (query.tsx, MainLayout.tsx) has its type.           *)
THEOREM PageTypeCorrect == PageSpec => []PageTypeOK
<1>1. BoardCurrent => PageTypeOK
  BY DEF BoardCurrent, PageTypeOK
<1> QED
  BY <1>1, PageInvariant, PTL

(* The ranking a page shows keeps up with its round counter, whatever the  *)
(* other browsers, the organizers and the round loop do at the same time,  *)
(* unless its request is overtaken at the server.                          *)
THEOREM RankingKeepsUp == PageSpec => []BoardKeepsUp
<1>1. BoardCurrent => BoardKeepsUp
  BY DEF BoardCurrent, BoardKeepsUp
<1> QED
  BY <1>1, PageInvariant, PTL

(* Nobody is answered with less than what was announced when he asked. *)
THEOREM PageAnswersCurrent == PageSpec => []AnswersCurrent
BY ServerFollows, NoStaleAnswer, PTL
=============================================================================
