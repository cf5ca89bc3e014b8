---------------------------- MODULE FlagIdsProofs ----------------------------
(* What the write lock of the flag-id cache achieves, and that no flag id  *)
(* is given early, for any number of requests, posts, flags and filters.   *)
EXTENDS FlagIds, TLAPS

USE FlagIdsAssumption DEF FlagIdsAssumption

(***************************************************************************)
(* Type correctness.                                                       *)
(***************************************************************************)
LEMMA InitType == Init => TypeOK
<1>1. None \in Ids /\ Idle \in Handlers /\ NotWriting \in Writing
  BY DEF None, Ids, Idle, Handlers, NotWriting, Writing, NoFilter
<1>. QED
  BY <1>1 DEF Init, TypeOK

LEMMA LaterType ==
  ASSUME NEW m \in Ids, NEW n \in Ids
  PROVE  Later(m, n) \in Ids
BY DEF Later, Ids

LEMMA ConstantTypes ==
  /\ None \in Ids
  /\ Idle \in Handlers
  /\ NotWriting \in Writing
BY DEF None, Ids, Idle, Handlers, NotWriting, Writing, NoFilter

LEMMA WriterStepType ==
  ASSUME TypeOK, NEW w \in Writers,
         \/ \E f \in Flags : Post(w, f)
         \/ Expose(w) \/ ClearComplete(w) \/ ClearFiltered(w)
  PROVE  TypeOK'
<1>1. ASSUME NEW f \in Flags, Post(w, f)
      PROVE  TypeOK'
  <2>1. posted[f] + 1 \in 0..MaxPosts
    BY <1>1 DEF Post, TypeOK, Ids
  <2>2. posted' \in Ids /\ [None EXCEPT ![f] = posted[f] + 1] \in Ids
    BY <1>1, <2>1 DEF Post, TypeOK, Ids, None
  <2>3. writer' \in [Writers -> Writing]
    BY <1>1, <2>2 DEF Post, TypeOK, Writing
  <2>. QED
    BY <1>1, <2>2, <2>3 DEF Post, TypeOK
<1>2. CASE Expose(w)
  <2>1. exposed + 1 \in -1..MaxRound
    BY <1>2 DEF Expose, TypeOK
  <2>2. writer' \in [Writers -> Writing]
    BY <1>2, <2>1, ConstantTypes DEF Expose, TypeOK, Writing
  <2>. QED
    BY <1>2, <2>1, <2>2 DEF Expose, TypeOK
<1>3. CASE ClearComplete(w)
  <2>1. writer[w] \in Writing
    BY DEF TypeOK
  <2>2. Later(cleared, writer[w].ids) \in Ids
    BY <2>1, LaterType DEF TypeOK, Writing
  <2>3. writer' \in [Writers -> Writing]
    BY <1>3 DEF ClearComplete, TypeOK, Writing
  <2>. QED
    BY <1>3, <2>2, <2>3 DEF ClearComplete, TypeOK
<1>4. CASE ClearFiltered(w)
  <2>1. writer[w] \in Writing
    BY DEF TypeOK
  <2>2. Later(announced, writer[w].ids) \in Ids
    BY <2>1, LaterType DEF TypeOK, Writing
  <2>3. writer' \in [Writers -> Writing]
    BY <1>4, ConstantTypes DEF ClearFiltered, TypeOK
  <2>4. announcedRound' \in -1..MaxRound
    BY <1>4, <2>1 DEF ClearFiltered, TypeOK, Writing
  <2>. QED
    BY <1>4, <2>2, <2>3, <2>4 DEF ClearFiltered, TypeOK
<1>. QED
  BY <1>1, <1>2, <1>3, <1>4

(* What a request takes from a cache, or goes on with.                     *)
LEMMA TakeType ==
  ASSUME TypeOK, NEW r \in Requests, NEW c \in Cached,
         NEW s \in {"got", "fill", "answered"}, Take(r, c, s)
  PROVE  req' \in [Requests -> Handlers]
<1>1. req[r] \in Handlers /\ c.ids \in Ids /\ c.round \in -1..MaxRound
  BY DEF TypeOK, Cached
<1>. QED
  BY <1>1 DEF Take, TypeOK, Handlers

LEMMA GoType ==
  ASSUME TypeOK, NEW r \in Requests,
         NEW s \in {"complete", "lock", "query", "got"}, Go(r, s)
  PROVE  req' \in [Requests -> Handlers]
BY DEF Go, TypeOK, Handlers

Queried(round) ==
  [ids |-> [f \in Flags |-> IF Visible(f, round) THEN posted[f] ELSE 0],
   round |-> round]

LEMMA QueriedType ==
  ASSUME TypeOK, NEW round \in -1..MaxRound
  PROVE  Queried(round) \in Cached
BY DEF Queried, Cached, TypeOK, Ids

LEMMA FilteredType ==
  ASSUME NEW ids \in Ids, NEW k
  PROVE  Filtered(ids, k) \in Ids
BY DEF Filtered, Ids

LEMMA RequestStepType ==
  ASSUME TypeOK, NEW r \in Requests,
         \/ \E k \in Filters : Arrive(r, k)
         \/ LookFiltered(r) \/ LookComplete(r) \/ TakeLock(r)
         \/ Query(r) \/ Fill(r) \/ Answer(r) \/ Done(r)
  PROVE  TypeOK'
<1>0. req[r] \in Handlers
  BY DEF TypeOK
<1>1. ASSUME NEW k \in Filters, Arrive(r, k)
      PROVE  TypeOK'
  <2>1. [Idle EXCEPT !.step = "look", !.filter = k, !.round = exposed,
                     !.floor = announced, !.floorRound = announcedRound] \in Handlers
    BY ConstantTypes DEF TypeOK, Handlers
  <2>. QED
    BY <1>1, <2>1 DEF Arrive, TypeOK
<1>2. CASE LookFiltered(r)
  <2>1. filtered[req[r].filter] \in Cached \cup {Nil}
    BY <1>0 DEF TypeOK, Handlers
  <2>2. req' \in [Requests -> Handlers]
    BY <1>2, <2>1, TakeType, GoType DEF LookFiltered
  <2>. QED
    BY <1>2, <2>2 DEF LookFiltered, TypeOK
<1>3. CASE LookComplete(r)
  <2>1. complete \in Cached \cup {Nil}
    BY DEF TypeOK
  <2>2. req' \in [Requests -> Handlers]
    BY <1>3, <2>1, TakeType, GoType DEF LookComplete
  <2>. QED
    BY <1>3, <2>2 DEF LookComplete, TypeOK
<1>4. CASE TakeLock(r)
  <2>1. complete \in Cached \cup {Nil}
    BY DEF TypeOK
  <2>2. req' \in [Requests -> Handlers]
    BY <1>4, <2>1, TakeType, GoType DEF TakeLock
  <2>. QED
    BY <1>4, <2>2 DEF TakeLock, TypeOK
<1>5. CASE Query(r)
  <2>1. Queried(req[r].round) \in Cached
    BY <1>0, QueriedType DEF Handlers
  <2>2. \/ Take(r, Queried(req[r].round), "fill") /\ UNCHANGED lock
        \/ req' = [req EXCEPT ![r] = Idle] /\ lock' = Nobody
    BY <1>5 DEF Query, Queried
  <2>3. req' \in [Requests -> Handlers]
    BY <2>1, <2>2, TakeType, ConstantTypes DEF TypeOK
  <2>. QED
    BY <1>5, <2>2, <2>3 DEF Query, TypeOK
<1>6. CASE Fill(r)
  <2>1. [ids |-> req[r].ids, round |-> req[r].shown] \in Cached
    BY <1>0 DEF Handlers, Cached
  <2>2. req' \in [Requests -> Handlers]
    BY <1>6, GoType DEF Fill
  <2>. QED
    BY <1>6, <2>1, <2>2 DEF Fill, TypeOK
<1>7. CASE Answer(r)
  <2>. DEFINE a == [ids |-> Filtered(req[r].ids, req[r].filter), round |-> req[r].shown]
  <2>1. a \in Cached
    BY <1>0, FilteredType DEF Handlers, Cached
  <2>2. Take(r, a, "answered")
    BY <1>7 DEF Answer
  <2>3. req' \in [Requests -> Handlers]
    BY <2>1, <2>2, TakeType
  <2>4. filtered' = filtered \/ filtered' = [filtered EXCEPT ![req[r].filter] = a]
    BY <1>7 DEF Answer
  <2>5. filtered' \in [Filters -> Cached \cup {Nil}]
    BY <2>1, <2>4 DEF TypeOK
  <2>. QED
    BY <1>7, <2>3, <2>5 DEF Answer, TypeOK
<1>8. CASE Done(r)
  BY <1>8, ConstantTypes DEF Done, TypeOK
<1>. QED
  BY <1>1, <1>2, <1>3, <1>4, <1>5, <1>6, <1>7, <1>8

LEMMA StepType == TypeOK /\ [Next]_vars => TypeOK'
<1>1. TypeOK /\ UNCHANGED vars => TypeOK'
  BY DEF vars, TypeOK
<1>. QED
  BY <1>1, WriterStepType, RequestStepType DEF Next

(* Whatever requests, posts and rounds do to each other, the caches and    *)
(* the lock hold what they should.                                         *)
THEOREM TypeCorrect == Spec => []TypeOK
<1>. QED
  BY InitType, StepType, PTL DEF Spec

-----------------------------------------------------------------------------
(***************************************************************************)
(* Nothing early.                                                          *)
(***************************************************************************)
LEMMA ExposedGrows ==
  ASSUME TypeOK, [Next]_vars
  PROVE  exposed' >= exposed /\ exposed \in Int /\ exposed' \in Int
<1>1. CASE UNCHANGED exposed
  BY <1>1 DEF TypeOK
<1>2. ASSUME NEW w \in Writers, Expose(w)
      PROVE  exposed' >= exposed /\ exposed \in Int /\ exposed' \in Int
  BY <1>2 DEF Expose, TypeOK
<1>3. ASSUME NEW w \in Writers,
             (\E f \in Flags : Post(w, f)) \/ ClearComplete(w) \/ ClearFiltered(w)
      PROVE  UNCHANGED exposed
  BY <1>3 DEF Post, ClearComplete, ClearFiltered
<1>4. ASSUME NEW r \in Requests,
             \/ \E k \in Filters : Arrive(r, k)
             \/ LookFiltered(r) \/ LookComplete(r) \/ TakeLock(r)
             \/ Query(r) \/ Fill(r) \/ Answer(r) \/ Done(r)
      PROVE  UNCHANGED exposed
  BY <1>4 DEF Arrive, LookFiltered, LookComplete, TakeLock, Query, Fill, Answer, Done
<1>5. UNCHANGED vars => UNCHANGED exposed
  BY DEF vars
<1>. QED
  BY <1>1, <1>2, <1>3, <1>4, <1>5 DEF Next

(* What a request takes over was public; what it selects is.               *)
LEMMA PublicRequests ==
  ASSUME TypeOK, OnlyPublic, NEW r \in Requests,
         \/ \E k \in Filters : Arrive(r, k)
         \/ LookFiltered(r) \/ LookComplete(r) \/ TakeLock(r)
         \/ Query(r) \/ Fill(r) \/ Answer(r) \/ Done(r)
  PROVE  OnlyPublic'
<1>0. /\ req[r] \in Handlers /\ Public(req[r].ids, exposed) /\ req[r].round <= exposed
      /\ exposed \in -1..MaxRound
  BY DEF TypeOK, OnlyPublic
<1>. DEFINE Known(h) == Public(h.ids, exposed) /\ h.round <= exposed
<1>1. ASSUME NEW h \in Handlers, Known(h), req' = [req EXCEPT ![r] = h],
             UNCHANGED <<exposed, complete, filtered>>
      PROVE  OnlyPublic'
  BY <1>1 DEF OnlyPublic, Public, TypeOK
<1>2. ASSUME NEW c \in Cached, Public(c.ids, exposed), NEW s, Take(r, c, s)
      PROVE  /\ \A q \in Requests : Public(req'[q].ids, exposed) /\ req'[q].round <= exposed
  BY <1>2 DEF Take, OnlyPublic, TypeOK, Handlers
<1>3. ASSUME NEW s, Go(r, s)
      PROVE  \A q \in Requests : Public(req'[q].ids, exposed) /\ req'[q].round <= exposed
  BY <1>3 DEF Go, OnlyPublic, TypeOK, Handlers
<1>4. ASSUME UNCHANGED <<exposed, complete, filtered>>,
             \A q \in Requests : Public(req'[q].ids, exposed) /\ req'[q].round <= exposed
      PROVE  OnlyPublic'
  BY <1>4 DEF OnlyPublic, Public
<1>5. CASE \E k \in Filters : Arrive(r, k)
  <2>1. PICK k \in Filters : Arrive(r, k)
    BY <1>5
  <2>2. req'[r].ids = None /\ req'[r].round = exposed
        /\ \A q \in Requests : q # r => req'[q] = req[q]
    BY <2>1 DEF Arrive, Idle, TypeOK
  <2>3. Public(None, exposed)
    BY DEF Public, None
  <2>. QED
    <3>1. \A q \in Requests : Public(req'[q].ids, exposed) /\ req'[q].round <= exposed
      BY <1>0, <2>2, <2>3 DEF OnlyPublic
    <3>. QED
      BY <1>4, <2>1, <3>1 DEF Arrive
<1>6. CASE LookFiltered(r)
  <2>1. filtered[req[r].filter] # Nil
        => filtered[req[r].filter] \in Cached /\ Public(filtered[req[r].filter].ids, exposed)
    BY <1>0 DEF TypeOK, Handlers, OnlyPublic
  <2>. QED
    BY <1>2, <1>3, <1>4, <1>6, <2>1 DEF LookFiltered
<1>7. CASE LookComplete(r) \/ TakeLock(r)
  <2>1. complete # Nil => complete \in Cached /\ Public(complete.ids, exposed)
    BY DEF TypeOK, OnlyPublic
  <2>. QED
    BY <1>2, <1>3, <1>4, <1>7, <2>1 DEF LookComplete, TakeLock
<1>8. CASE Query(r)
  <2>1. Queried(req[r].round) \in Cached
    BY <1>0, QueriedType DEF Handlers
  <2>2. Public(Queried(req[r].round).ids, exposed)
    BY <1>0 DEF Public, Queried, Visible, Handlers
  <2>3. CASE Take(r, Queried(req[r].round), "fill")
    BY <1>2, <1>4, <1>8, <2>1, <2>2, <2>3 DEF Query
  <2>4. CASE req' = [req EXCEPT ![r] = Idle]
    <3>1. Idle \in Handlers /\ Known(Idle)
      BY <1>0, ConstantTypes DEF Idle, None, Public
    <3>. QED
      BY <1>1, <1>8, <2>4, <3>1 DEF Query
  <2>. QED
    BY <1>8, <2>3, <2>4 DEF Query, Queried
<1>9. CASE Fill(r)
  <2>1. Public(complete'.ids, exposed)
    BY <1>0, <1>9 DEF Fill
  <2>2. \A q \in Requests : Public(req'[q].ids, exposed) /\ req'[q].round <= exposed
    BY <1>3, <1>9 DEF Fill
  <2>. QED
    BY <1>9, <2>1, <2>2 DEF Fill, OnlyPublic, Public
<1>10. CASE Answer(r)
  <2>. DEFINE a == [ids |-> Filtered(req[r].ids, req[r].filter), round |-> req[r].shown]
  <2>1. a \in Cached /\ Public(a.ids, exposed)
    <3>1. req[r].ids \in Ids /\ req[r].shown \in -1..MaxRound
      BY <1>0 DEF Handlers
    <3>2. a \in Cached
      BY <3>1, FilteredType DEF Cached
    <3>3. \A f \in Flags : Filtered(req[r].ids, req[r].filter)[f] \in {req[r].ids[f], 0}
      BY DEF Filtered
    <3>. QED
      BY <1>0, <3>2, <3>3 DEF Public
  <2>2. \A q \in Requests : Public(req'[q].ids, exposed) /\ req'[q].round <= exposed
    BY <1>2, <1>10, <2>1 DEF Answer
  <2>3. filtered' = filtered \/ filtered' = [filtered EXCEPT ![req[r].filter] = a]
    BY <1>10 DEF Answer
  <2>4. \A k \in Filters : filtered'[k] # Nil => Public(filtered'[k].ids, exposed)
    BY <2>1, <2>3 DEF OnlyPublic, TypeOK
  <2>. QED
    BY <1>10, <2>2, <2>4 DEF Answer, OnlyPublic, Public
<1>11. CASE Done(r)
  <2>1. Idle \in Handlers /\ Known(Idle)
    BY <1>0, ConstantTypes DEF Idle, None, Public
  <2>. QED
    BY <1>1, <1>11, <2>1 DEF Done
<1>. QED
  BY <1>5, <1>6, <1>7, <1>8, <1>9, <1>10, <1>11

LEMMA PublicStep == TypeOK /\ OnlyPublic /\ [Next]_vars => OnlyPublic'
<1>. SUFFICES ASSUME TypeOK, OnlyPublic, [Next]_vars
              PROVE  OnlyPublic'
  OBVIOUS
<1>0. exposed' >= exposed /\ exposed \in Int /\ exposed' \in Int
  BY ExposedGrows
<1>1. ASSUME NEW ids, Public(ids, exposed)
      PROVE  Public(ids, exposed')
  BY <1>0, <1>1 DEF Public
<1>2. CASE UNCHANGED vars
  BY <1>2 DEF vars, OnlyPublic, Public
<1>3. ASSUME NEW w \in Writers,
             \/ \E f \in Flags : Post(w, f)
             \/ Expose(w) \/ ClearComplete(w) \/ ClearFiltered(w)
      PROVE  OnlyPublic'
  <2>1. /\ req' = req
        /\ complete' \in {complete, Nil}
        /\ \A k \in Filters : filtered'[k] \in {filtered[k], Nil}
    BY <1>3 DEF Post, Expose, ClearComplete, ClearFiltered
  <2>2. \A r \in Requests : req[r].round \in Int
    BY DEF TypeOK, Handlers
  <2>3. complete' # Nil => Public(complete'.ids, exposed')
    BY <1>1, <2>1 DEF OnlyPublic, Public
  <2>4. \A k \in Filters : filtered'[k] # Nil => Public(filtered'[k].ids, exposed')
    BY <1>1, <2>1 DEF OnlyPublic, Public
  <2>5. \A r \in Requests : Public(req'[r].ids, exposed') /\ req'[r].round <= exposed'
    BY <1>0, <1>1, <2>1, <2>2 DEF OnlyPublic, Public
  <2>. QED
    BY <2>3, <2>4, <2>5 DEF OnlyPublic, Public
<1>. QED
  BY <1>2, <1>3, PublicRequests DEF Next

(* No team learns the flag id of a round that is still being played,       *)
(* whatever caches its request reads while rounds and posts go by.         *)
THEOREM NoIdIsEarly == Spec => []NothingEarly
<1>1. Init => OnlyPublic
  BY ConstantTypes DEF Init, OnlyPublic, Public, Idle, None, Handlers
<1>2. OnlyPublic => NothingEarly
  BY DEF OnlyPublic, NothingEarly, Public
<1>. QED
  BY <1>1, <1>2, PublicStep, TypeCorrect, PTL DEF Spec

-----------------------------------------------------------------------------
(***************************************************************************)
(* Posts come in order.                                                    *)
(***************************************************************************)
RequestStep(r) ==
  \/ \E k \in Filters : Arrive(r, k)
  \/ LookFiltered(r) \/ LookComplete(r) \/ TakeLock(r)
  \/ Query(r) \/ Fill(r) \/ Answer(r) \/ Done(r)

LEMMA BelowTransitive ==
  ASSUME NEW a \in Ids, NEW b \in Ids, NEW c \in Ids, Below(a, b), Below(b, c)
  PROVE  Below(a, c)
BY DEF Below, Ids

LEMMA BelowLater ==
  ASSUME NEW a \in Ids, NEW b \in Ids
  PROVE  Below(a, Later(a, b)) /\ Below(b, Later(a, b)) /\ Below(a, a)
         /\ \A c \in Ids : Below(a, c) /\ Below(b, c) => Below(Later(a, b), c)
BY DEF Below, Later, Ids

LEMMA NoneBelow ==
  ASSUME NEW a \in Ids
  PROVE  Below(None, a)
BY DEF Below, None, Ids

(* A request keeps its floor until the next one.                           *)
LEMMA FloorOfRequest ==
  ASSUME TypeOK, NEW r \in Requests, RequestStep(r)
  PROVE  /\ UNCHANGED <<posted, writer, cleared, announced, announcedRound, exposed>>
         /\ \A q \in Requests : req'[q].floor \in {req[q].floor, announced, None}
<1>0. req[r] \in Handlers
  BY DEF TypeOK
<1>1. UNCHANGED <<posted, writer, cleared, announced, announcedRound, exposed>>
  BY DEF RequestStep, Arrive, LookFiltered, LookComplete, TakeLock, Query, Fill,
     Answer, Done
<1>2. ASSUME NEW c, NEW s, Take(r, c, s)
      PROVE  \A q \in Requests : req'[q].floor = req[q].floor
  BY <1>0, <1>2 DEF Take, TypeOK, Handlers
<1>3. ASSUME NEW s, Go(r, s)
      PROVE  \A q \in Requests : req'[q].floor = req[q].floor
  BY <1>0, <1>3 DEF Go, TypeOK, Handlers
<1>4. CASE \E k \in Filters : Arrive(r, k)
  BY <1>1, <1>4 DEF Arrive, Idle, TypeOK
<1>5. CASE LookFiltered(r) \/ LookComplete(r) \/ TakeLock(r) \/ Fill(r) \/ Answer(r)
  BY <1>1, <1>2, <1>3, <1>5 DEF LookFiltered, LookComplete, TakeLock, Fill, Answer
<1>6. CASE Query(r) \/ Done(r)
  BY <1>1, <1>2, <1>6 DEF Query, Done, Idle, TypeOK
<1>. QED
  BY <1>1, <1>4, <1>5, <1>6 DEF RequestStep

LEMMA OrderStep ==
  ASSUME TypeOK, PostsInOrder, [Next]_vars
  PROVE  PostsInOrder'
<1>0. /\ posted \in Ids /\ cleared \in Ids /\ announced \in Ids
      /\ \A w \in Writers : writer[w] \in Writing /\ writer[w].ids \in Ids
      /\ \A r \in Requests : req[r].floor \in Ids
  BY DEF TypeOK, Writing, Handlers
<1>1. TypeOK'
  BY StepType
<1>2. CASE UNCHANGED vars
  BY <1>2 DEF vars, PostsInOrder
<1>3. ASSUME NEW r \in Requests, RequestStep(r)
      PROVE  PostsInOrder'
  <2>1. \A q \in Requests : Below(req'[q].floor, announced)
    BY <1>0, <1>3, FloorOfRequest, NoneBelow, BelowLater DEF PostsInOrder
  <2>. QED
    BY <1>3, <2>1, FloorOfRequest DEF PostsInOrder
<1>4. ASSUME NEW w \in Writers, NEW f \in Flags, Post(w, f)
      PROVE  PostsInOrder'
  <2>1. posted' \in Ids /\ Below(posted, posted')
    BY <1>0, <1>1, <1>4 DEF Post, TypeOK, Below, Ids
  <2>2. Below(writer'[w].ids, posted')
    <3>1. writer'[w].ids = [None EXCEPT ![f] = posted[f] + 1]
      BY <1>4 DEF Post, TypeOK
    <3>2. posted' = [posted EXCEPT ![f] = posted[f] + 1]
      BY <1>4 DEF Post
    <3>. QED
      BY <1>0, <3>1, <3>2 DEF Below, None, Ids
  <2>3. writer'[w].step = "clearComplete"
        /\ \A v \in Writers : v # w => writer'[v] = writer[v]
    BY <1>4 DEF Post, TypeOK
  <2>4. \A v \in Writers :
          /\ writer'[v].step = "clearComplete" => Below(writer'[v].ids, posted')
          /\ writer'[v].step = "clearFiltered" => Below(writer'[v].ids, cleared)
    BY <1>0, <2>1, <2>2, <2>3, BelowTransitive DEF PostsInOrder
  <2>5. Below(cleared, posted')
    BY <1>0, <2>1, BelowTransitive DEF PostsInOrder
  <2>. QED
    BY <1>4, <2>4, <2>5 DEF Post, PostsInOrder
<1>5. ASSUME NEW w \in Writers, Expose(w)
      PROVE  PostsInOrder'
  <2>1. writer'[w].ids = None
        /\ \A v \in Writers : v # w => writer'[v] = writer[v]
    BY <1>5 DEF Expose, TypeOK
  <2>2. \A v \in Writers :
          /\ writer'[v].step = "clearComplete" => Below(writer'[v].ids, posted)
          /\ writer'[v].step = "clearFiltered" => Below(writer'[v].ids, cleared)
    BY <1>0, <2>1, NoneBelow DEF PostsInOrder
  <2>. QED
    BY <1>5, <2>2 DEF Expose, PostsInOrder
<1>6. ASSUME NEW w \in Writers, ClearComplete(w)
      PROVE  PostsInOrder'
  <2>1. /\ cleared' \in Ids /\ Below(cleared, cleared')
        /\ Below(writer[w].ids, cleared')
    BY <1>0, <1>6, BelowLater, LaterType DEF ClearComplete
  <2>2. Below(writer[w].ids, posted)
    BY <1>6 DEF ClearComplete, PostsInOrder
  <2>3. Below(cleared', posted)
    BY <1>0, <1>6, <2>2, BelowLater DEF ClearComplete, PostsInOrder
  <2>4. writer'[w].ids = writer[w].ids /\ writer'[w].step = "clearFiltered"
        /\ \A v \in Writers : v # w => writer'[v] = writer[v]
    BY <1>0, <1>6 DEF ClearComplete, TypeOK, Writing
  <2>5. \A v \in Writers :
          /\ writer'[v].step = "clearComplete" => Below(writer'[v].ids, posted)
          /\ writer'[v].step = "clearFiltered" => Below(writer'[v].ids, cleared')
    BY <1>0, <2>1, <2>4, BelowTransitive DEF PostsInOrder
  <2>6. Below(announced, cleared')
    BY <1>0, <2>1, BelowTransitive DEF PostsInOrder
  <2>. QED
    BY <1>6, <2>3, <2>5, <2>6 DEF ClearComplete, PostsInOrder
<1>7. ASSUME NEW w \in Writers, ClearFiltered(w)
      PROVE  PostsInOrder'
  <2>1. announced' \in Ids /\ Below(announced, announced')
    BY <1>0, <1>7, BelowLater, LaterType DEF ClearFiltered
  <2>2. Below(writer[w].ids, cleared)
    BY <1>7 DEF ClearFiltered, PostsInOrder
  <2>3. Below(announced', cleared)
    BY <1>0, <1>7, <2>2, BelowLater DEF ClearFiltered, PostsInOrder
  <2>4. writer'[w].step = "idle"
        /\ \A v \in Writers : v # w => writer'[v] = writer[v]
    BY <1>7 DEF ClearFiltered, TypeOK, NotWriting
  <2>5. \A r \in Requests : Below(req[r].floor, announced')
    BY <1>0, <2>1, BelowTransitive DEF PostsInOrder
  <2>6. \A v \in Writers :
          /\ writer'[v].step = "clearComplete" => Below(writer'[v].ids, posted)
          /\ writer'[v].step = "clearFiltered" => Below(writer'[v].ids, cleared)
    BY <2>4 DEF PostsInOrder
  <2>. QED
    BY <1>7, <2>3, <2>5, <2>6 DEF ClearFiltered, PostsInOrder
<1>. QED
  BY <1>2, <1>3, <1>4, <1>5, <1>6, <1>7 DEF Next, RequestStep

-----------------------------------------------------------------------------
(***************************************************************************)
(* The write lock.                                                         *)
(***************************************************************************)
LEMMA TakeMeans ==
  ASSUME TypeOK, NEW r \in Requests, NEW c, NEW s, Take(r, c, s)
  PROVE  /\ req'[r].step = s /\ req'[r].ids = c.ids /\ req'[r].shown = c.round
         /\ req'[r].filter = req[r].filter /\ req'[r].floor = req[r].floor
         /\ \A q \in Requests : q # r => req'[q] = req[q]
BY DEF Take, TypeOK, Handlers

LEMMA GoMeans ==
  ASSUME TypeOK, NEW r \in Requests, NEW s, Go(r, s)
  PROVE  /\ req'[r].step = s /\ req'[r].ids = req[r].ids /\ req'[r].shown = req[r].shown
         /\ req'[r].filter = req[r].filter /\ req'[r].floor = req[r].floor
         /\ \A q \in Requests : q # r => req'[q] = req[q]
BY DEF Go, TypeOK, Handlers

(* A request on its way to the lock or back has none of it.                *)
LEMMA OutsideTheLock ==
  ASSUME IInv, NEW r \in Requests, req[r].step \notin {"query", "fill"},
         req'[r].step \notin {"query", "fill"},
         \A q \in Requests : q # r => req'[q] = req[q],
         UNCHANGED <<lock, complete, cleared>>
  PROVE  /\ LockHeld'
         /\ lock' # Nobody => complete' = Nil
         /\ complete' # Nil => HasPosts(complete.ids, complete.round)'
         /\ \A q \in Requests : At(q, "fill")' => HasPosts(req[q].ids, req[q].shown)'
BY DEF IInv, LockHeld, At, HasPosts

LEMMA LockStep ==
  ASSUME IInv, PostsInOrder, [Next]_vars
  PROVE  IInv'
<1>0. /\ TypeOK /\ TypeOK' /\ PostsInOrder'
      /\ posted \in Ids /\ cleared \in Ids
  BY StepType, OrderStep DEF IInv, TypeOK
<1>1. CASE UNCHANGED vars
  BY <1>0, <1>1 DEF vars, IInv, LockHeld, At, HasPosts
<1>2. ASSUME NEW w \in Writers,
             (\E f \in Flags : Post(w, f)) \/ Expose(w) \/ ClearFiltered(w)
      PROVE  IInv'
  <2>1. UNCHANGED <<req, lock, complete, cleared>>
    BY <1>2 DEF Post, Expose, ClearFiltered
  <2>. QED
    BY <1>0, <2>1 DEF IInv, LockHeld, At, HasPosts
<1>3. ASSUME NEW w \in Writers, ClearComplete(w)
      PROVE  IInv'
  <2>1. UNCHANGED <<req, lock>> /\ lock = Nobody /\ complete' = Nil
    BY <1>3 DEF ClearComplete, LockFree
  <2>2. \A r \in Requests : ~At(r, "fill")
    BY <2>1 DEF IInv, LockHeld
  <2>. QED
    BY <1>0, <2>1, <2>2 DEF IInv, LockHeld, At, HasPosts
<1>4. ASSUME NEW r \in Requests,
             \/ \E k \in Filters : Arrive(r, k)
             \/ LookFiltered(r) \/ LookComplete(r) \/ Answer(r) \/ Done(r)
             \/ TakeLock(r) /\ complete # Nil
      PROVE  IInv'
  <2>1. /\ req[r].step \notin {"query", "fill"}
        /\ UNCHANGED <<lock, complete, cleared>>
    BY <1>4 DEF Arrive, LookFiltered, LookComplete, Answer, Done, TakeLock, At
  <2>2. /\ req'[r].step \notin {"query", "fill"}
        /\ \A q \in Requests : q # r => req'[q] = req[q]
    <3>1. CASE \E k \in Filters : Arrive(r, k)
      BY <1>0, <3>1 DEF Arrive, TypeOK, Idle
    <3>2. CASE \/ LookFiltered(r) \/ LookComplete(r) \/ Answer(r)
               \/ TakeLock(r) /\ complete # Nil
      BY <1>0, <3>2, TakeMeans, GoMeans DEF LookFiltered, LookComplete, Answer, TakeLock
    <3>3. CASE Done(r)
      BY <1>0, <3>3 DEF Done, TypeOK, Idle
    <3>. QED
      BY <1>4, <3>1, <3>2, <3>3
  <2>. QED
    BY <1>0, <2>1, <2>2, OutsideTheLock DEF IInv
<1>5. ASSUME NEW r \in Requests, TakeLock(r), complete = Nil
      PROVE  IInv'
  <2>1. /\ lock = Nobody /\ lock' = r /\ req[r].step = "lock"
        /\ UNCHANGED <<complete, cleared>>
    BY <1>5 DEF TakeLock, LockFree, At
  <2>2. /\ req'[r].step = "query"
        /\ \A q \in Requests : q # r => req'[q] = req[q]
    BY <1>0, <1>5, GoMeans DEF TakeLock
  <2>3. LockHeld'
    BY <2>1, <2>2 DEF IInv, LockHeld, At
  <2>4. \A q \in Requests : ~At(q, "fill")'
    BY <2>1, <2>2 DEF IInv, LockHeld, At
  <2>. QED
    BY <1>0, <1>5, <2>1, <2>3, <2>4 DEF IInv
<1>6. ASSUME NEW r \in Requests, Query(r)
      PROVE  IInv'
  <2>1. /\ req[r].step = "query" /\ lock = r /\ complete = Nil
        /\ UNCHANGED <<complete, cleared>>
    BY <1>6 DEF Query, IInv, LockHeld, At
  <2>2. \A q \in Requests : q # r => ~At(q, "query") /\ ~At(q, "fill")
    BY <2>1 DEF IInv, LockHeld
  <2>3. CASE Take(r, Queried(req[r].round), "fill") /\ UNCHANGED lock
    <3>1. /\ req'[r].step = "fill"
          /\ req'[r].ids = Queried(req[r].round).ids /\ req'[r].shown = req[r].round
          /\ \A q \in Requests : q # r => req'[q] = req[q]
      BY <1>0, <2>3, TakeMeans DEF Queried
    <3>2. LockHeld'
      BY <2>1, <2>2, <2>3, <3>1 DEF LockHeld, At
    <3>3. \A f \in Flags : Visible(f, req[r].round) => req'[r].ids[f] >= cleared[f]
      BY <1>0, <3>1 DEF Queried, PostsInOrder, Below, Ids
    <3>4. \A q \in Requests : At(q, "fill")' => HasPosts(req[q].ids, req[q].shown)'
      BY <2>1, <2>2, <3>1, <3>3 DEF At, HasPosts
    <3>. QED
      BY <1>0, <2>1, <2>3, <3>2, <3>4 DEF IInv
  <2>4. CASE req' = [req EXCEPT ![r] = Idle] /\ lock' = Nobody
    <3>1. /\ req'[r].step = "idle"
          /\ \A q \in Requests : q # r => req'[q] = req[q]
      BY <1>0, <2>4 DEF TypeOK, Idle
    <3>. QED
      BY <1>0, <2>1, <2>2, <2>4, <3>1 DEF IInv, LockHeld, At
  <2>. QED
    BY <1>6, <2>3, <2>4 DEF Query, Queried
<1>7. ASSUME NEW r \in Requests, Fill(r)
      PROVE  IInv'
  <2>1. /\ req[r].step = "fill" /\ lock = r /\ lock' = Nobody
        /\ complete' = [ids |-> req[r].ids, round |-> req[r].shown]
        /\ HasPosts(req[r].ids, req[r].shown) /\ UNCHANGED cleared
    BY <1>7 DEF Fill, IInv, LockHeld, At
  <2>2. \A q \in Requests : q # r => ~At(q, "query") /\ ~At(q, "fill")
    BY <2>1 DEF IInv, LockHeld
  <2>3. /\ req'[r].step = "got"
        /\ \A q \in Requests : q # r => req'[q] = req[q]
    BY <1>0, <1>7, GoMeans DEF Fill
  <2>4. HasPosts(complete.ids, complete.round)'
    BY <2>1 DEF HasPosts
  <2>. QED
    BY <1>0, <2>1, <2>2, <2>3, <2>4 DEF IInv, LockHeld, At
<1>. QED
  BY <1>1, <1>2, <1>3, <1>4, <1>5, <1>6, <1>7 DEF Next

LEMMA InitLocked == Init => IInv /\ PostsInOrder
<1>. SUFFICES ASSUME Init
              PROVE  IInv /\ PostsInOrder
  OBVIOUS
<1>1. /\ \A r \in Requests : req[r].step = "idle" /\ req[r].floor = None
      /\ \A w \in Writers : writer[w].step = "idle"
  BY DEF Init, Idle, NotWriting
<1>2. PostsInOrder
  BY <1>1, NoneBelow, ConstantTypes DEF Init, PostsInOrder
<1>. QED
  BY <1>1, <1>2, InitType DEF Init, IInv, LockHeld, At

(* While a request rebuilds the complete cache nobody clears, fills or     *)
(* reads it, and what the cache holds lacks no post it was cleared after.  *)
THEOREM LockProtects == Spec => [](IInv /\ PostsInOrder)
<1>1. IInv /\ PostsInOrder /\ [Next]_vars => (IInv /\ PostsInOrder)'
  BY LockStep, OrderStep DEF IInv
<1>. QED
  BY <1>1, InitLocked, PTL DEF Spec

-----------------------------------------------------------------------------
(***************************************************************************)
(* No post is forgotten.                                                   *)
(***************************************************************************)
(* What the complete cache and a rebuild hold is enough for any request.   *)
LEMMA EnoughForAll ==
  ASSUME TypeOK, PostsInOrder, NEW r \in Requests, NEW ids \in Ids,
         NEW round \in -1..MaxRound, HasPosts(ids, round), NEW f \in Flags,
         Visible(f, round)
  PROVE  ids[f] >= req[r].floor[f]
<1>1. req[r].floor \in Ids /\ announced \in Ids /\ cleared \in Ids
  BY DEF TypeOK, Handlers
<1>2. Below(req[r].floor, cleared)
  BY <1>1, BelowTransitive DEF PostsInOrder
<1>. QED
  BY <1>1, <1>2 DEF HasPosts, Below, Ids

LEMMA FloorStep ==
  ASSUME IInv, PostsInOrder, FloorKept, [Next]_vars
  PROVE  FloorKept'
<1>. DEFINE Kept(h) ==
       \A f \in Flags : Visible(f, h.shown) => h.ids[f] >= h.floor[f]
            Fine(h) ==
       /\ h.step = "got" => Kept(h)
       /\ h.step = "answered" /\ h.filter = NoFilter => Kept(h)
<1>0. TypeOK /\ \A r \in Requests : req[r] \in Handlers /\ Fine(req[r])
  BY DEF IInv, TypeOK, FloorKept, HasFloor, UnfilteredHavePosts, At
<1>1. ASSUME filtered'[NoFilter] = Nil, \A r \in Requests : Fine(req'[r])
      PROVE  FloorKept'
  BY <1>1 DEF FloorKept, HasFloor, UnfilteredHavePosts, At
<1>2. ASSUME NEW r \in Requests, Fine(req'[r]), filtered'[NoFilter] = Nil,
             \A q \in Requests : q # r => req'[q] = req[q]
      PROVE  FloorKept'
  BY <1>0, <1>1, <1>2
<1>3. CASE UNCHANGED vars
  BY <1>0, <1>1, <1>3 DEF vars, FloorKept
<1>4. ASSUME NEW w \in Writers,
             \/ \E f \in Flags : Post(w, f)
             \/ Expose(w) \/ ClearComplete(w) \/ ClearFiltered(w)
      PROVE  FloorKept'
  <2>1. req' = req /\ filtered'[NoFilter] = Nil
    BY <1>4 DEF Post, Expose, ClearComplete, ClearFiltered, FloorKept, NoFilter
  <2>. QED
    BY <1>0, <1>1, <2>1
<1>5. ASSUME NEW r \in Requests, (\E k \in Filters : Arrive(r, k)) \/ Done(r)
      PROVE  FloorKept'
  <2>1. /\ req'[r].step \in {"look", "idle"}
        /\ \A q \in Requests : q # r => req'[q] = req[q]
    <3>1. CASE \E k \in Filters : Arrive(r, k)
      BY <1>0, <3>1 DEF Arrive, Idle, TypeOK
    <3>2. CASE Done(r)
      BY <1>0, <3>2 DEF Done, Idle, TypeOK
    <3>. QED
      BY <1>5, <3>1, <3>2
  <2>2. UNCHANGED filtered
    BY <1>5 DEF Arrive, Done
  <2>. QED
    BY <1>2, <2>1, <2>2 DEF FloorKept
<1>6. ASSUME NEW r \in Requests, LookFiltered(r)
      PROVE  FloorKept'
  <2>1. CASE filtered[req[r].filter] = Nil
    <3>1. req'[r].step = "complete" /\ \A q \in Requests : q # r => req'[q] = req[q]
      BY <1>0, <1>6, <2>1, GoMeans DEF LookFiltered
    <3>. QED
      BY <1>2, <1>6, <3>1 DEF LookFiltered, FloorKept
  <2>2. CASE filtered[req[r].filter] # Nil
    <3>1. Take(r, filtered[req[r].filter], "answered")
      BY <1>6, <2>2 DEF LookFiltered
    <3>2. /\ req'[r].step = "answered" /\ req'[r].filter = req[r].filter
          /\ \A q \in Requests : q # r => req'[q] = req[q]
      BY <1>0, <3>1, TakeMeans
    <3>3. req[r].filter # NoFilter
      BY <2>2 DEF FloorKept
    <3>. QED
      BY <1>2, <1>6, <3>2, <3>3 DEF LookFiltered, FloorKept
  <2>. QED
    BY <2>1, <2>2
<1>7. ASSUME NEW r \in Requests, LookComplete(r) \/ TakeLock(r)
      PROVE  FloorKept'
  <2>0. UNCHANGED filtered
    BY <1>7 DEF LookComplete, TakeLock
  <2>1. CASE complete = Nil
    <3>1. /\ req'[r].step \in {"lock", "query"}
          /\ \A q \in Requests : q # r => req'[q] = req[q]
      BY <1>0, <1>7, <2>1, GoMeans DEF LookComplete, TakeLock
    <3>. QED
      BY <1>2, <2>0, <3>1 DEF FloorKept
  <2>2. CASE complete # Nil
    <3>1. Take(r, complete, "got")
      BY <1>7, <2>2 DEF LookComplete, TakeLock
    <3>2. /\ req'[r].step = "got" /\ req'[r].ids = complete.ids
          /\ req'[r].shown = complete.round /\ req'[r].floor = req[r].floor
          /\ \A q \in Requests : q # r => req'[q] = req[q]
      BY <1>0, <3>1, TakeMeans
    <3>3. complete.ids \in Ids /\ complete.round \in -1..MaxRound
          /\ HasPosts(complete.ids, complete.round)
      BY <1>0, <2>2 DEF IInv, TypeOK, Cached
    <3>4. Kept(req'[r])
      BY <1>0, <3>2, <3>3, EnoughForAll
    <3>. QED
      BY <1>2, <2>0, <3>2, <3>4 DEF FloorKept
  <2>. QED
    BY <2>1, <2>2
<1>8. ASSUME NEW r \in Requests, Query(r)
      PROVE  FloorKept'
  <2>1. CASE Take(r, Queried(req[r].round), "fill")
    <3>1. req'[r].step = "fill" /\ \A q \in Requests : q # r => req'[q] = req[q]
      BY <1>0, <2>1, TakeMeans
    <3>. QED
      BY <1>2, <1>8, <3>1 DEF Query, FloorKept
  <2>2. CASE req' = [req EXCEPT ![r] = Idle]
    <3>1. req'[r].step = "idle" /\ \A q \in Requests : q # r => req'[q] = req[q]
      BY <1>0, <2>2 DEF Idle, TypeOK
    <3>. QED
      BY <1>2, <1>8, <3>1 DEF Query, FloorKept
  <2>. QED
    BY <1>8, <2>1, <2>2 DEF Query, Queried
<1>9. ASSUME NEW r \in Requests, Fill(r)
      PROVE  FloorKept'
  <2>1. /\ req'[r].step = "got" /\ req'[r].ids = req[r].ids
        /\ req'[r].shown = req[r].shown /\ req'[r].floor = req[r].floor
        /\ \A q \in Requests : q # r => req'[q] = req[q]
    BY <1>0, <1>9, GoMeans DEF Fill
  <2>2. req[r].ids \in Ids /\ req[r].shown \in -1..MaxRound
        /\ HasPosts(req[r].ids, req[r].shown)
    BY <1>0, <1>9 DEF IInv, Fill, Handlers
  <2>3. Kept(req'[r])
    BY <1>0, <2>1, <2>2, EnoughForAll
  <2>. QED
    BY <1>2, <1>9, <2>1, <2>3 DEF Fill, FloorKept
<1>10. ASSUME NEW r \in Requests, Answer(r)
       PROVE  FloorKept'
  <2>. DEFINE a == [ids |-> Filtered(req[r].ids, req[r].filter), round |-> req[r].shown]
  <2>1. Take(r, a, "answered") /\ req[r].step = "got"
    BY <1>10 DEF Answer, At
  <2>2. /\ req'[r].step = "answered" /\ req'[r].ids = a.ids
        /\ req'[r].shown = req[r].shown /\ req'[r].floor = req[r].floor
        /\ req'[r].filter = req[r].filter
        /\ \A q \in Requests : q # r => req'[q] = req[q]
    BY <1>0, <2>1, TakeMeans
  <2>3. filtered'[NoFilter] = Nil
    BY <1>10 DEF Answer, FloorKept
  <2>4. CASE req[r].filter = NoFilter
    <3>1. \A f \in Flags : req'[r].ids[f] = req[r].ids[f]
      BY <2>2, <2>4 DEF Filtered, NoFilter
    <3>2. Kept(req[r])
      BY <1>0, <2>1
    <3>3. Kept(req'[r])
      BY <2>2, <3>1, <3>2
    <3>. QED
      BY <1>2, <2>2, <2>3, <3>3
  <2>5. CASE req[r].filter # NoFilter
    BY <1>2, <2>2, <2>3, <2>5
  <2>. QED
    BY <2>4, <2>5
<1>. QED
  BY <1>3, <1>4, <1>5, <1>6, <1>7, <1>8, <1>9, <1>10 DEF Next

(* A request without filter gets every flag id whose post was over when it *)
(* came in, among those of the round it shows: no rebuild that overlaps a  *)
(* post puts an older answer back.                                         *)
THEOREM NoPostForgotten == Spec => []UnfilteredHavePosts
<1>1. Init => FloorKept
  BY DEF Init, FloorKept, HasFloor, UnfilteredHavePosts, At, Idle, NoFilter
<1>2. FloorKept => UnfilteredHavePosts
  BY DEF FloorKept
<1>. QED
  BY <1>1, <1>2, FloorStep, LockProtects, PTL DEF Spec

=============================================================================
