------------------------------ MODULE FlagIds ------------------------------
(***************************************************************************)
(* The flag-id service: gameserver/src/flag_ids.go.                        *)
(*                                                                         *)
(* Checkers post the flag id of a flag, teams fetch the flag ids of the    *)
(* flags that are still valid, all of them or those of a service, a team   *)
(* or a round.  The complete answer and the filtered ones are kept until   *)
(* the next post or the next round.  A flag id is the number of its last   *)
(* post, 0 when there is none; a filter is the set of flags it lets pass.  *)
(***************************************************************************)
EXTENDS Integers

CONSTANTS
  Requests,           (* requests of teams under way                        *)
  Writers,            (* posts under way, and the round loop                *)
  Flags,
  RoundOf,            (* the round of a flag                                *)
  Filters,            (* the filters in use; Flags: no filter               *)
  FlagExpireTicks,
  Nil, Nobody,
  MaxPosts,           (* bound: posts of a flag id                          *)
  MaxRound            (* bound: the last round that is exposed              *)

ASSUME FlagIdsAssumption ==
  /\ RoundOf \in [Flags -> Nat]
  /\ Filters \subseteq SUBSET Flags /\ Flags \in Filters
  /\ FlagExpireTicks \in Nat \ {0}
  /\ MaxPosts \in Nat /\ MaxRound \in Nat
  /\ Nil \notin [Flags -> 0..MaxPosts]
  /\ Nobody \notin Requests

VARIABLES
  exposed,            (* the exposed round                                  *)
  posted,             (* flags.external_flag_id                             *)
  complete,           (* flagIDsCompleteCache                               *)
  lock,               (* the request that holds its write lock              *)
  filtered,           (* flagIDsFilteredCache                               *)
  writer,             (* the calls that invalidate                          *)
  req,                (* the requests                                       *)
  cleared,            (* history: posts after which complete was emptied    *)
  announced,          (* history: posts that are over and done with         *)
  announcedRound      (* history: the last round that is over and done with *)

vars == <<exposed, posted, complete, lock, filtered, writer, req,
          cleared, announced, announcedRound>>

-----------------------------------------------------------------------------
Ids == [Flags -> 0..MaxPosts]

None == [f \in Flags |-> 0]

(* round (history): the round the request that filled the cache had read.  *)
Cached == [ids : Ids, round : -1..MaxRound]

NoFilter == Flags

(* floor, floorRound (history): what was over when the request arrived;    *)
(* shown (history): the round of the complete answer it is made from.      *)
Handlers ==
  [step : {"idle", "look", "complete", "lock", "query", "fill", "got", "answered"},
   filter : Filters, round : -1..MaxRound, ids : Ids, shown : -1..MaxRound,
   floor : Ids, floorRound : -1..MaxRound]

Writing ==
  [step : {"idle", "clearComplete", "clearFiltered"}, ids : Ids,
   round : -1..MaxRound]

Idle == [step |-> "idle", filter |-> NoFilter, round |-> -1, ids |-> None,
         shown |-> -1, floor |-> None, floorRound |-> -1]

NotWriting == [step |-> "idle", ids |-> None, round |-> -1]

TypeOK ==
  /\ exposed \in -1..MaxRound
  /\ posted \in Ids
  /\ complete \in Cached \cup {Nil}
  /\ lock \in Requests \cup {Nobody}
  /\ filtered \in [Filters -> Cached \cup {Nil}]
  /\ writer \in [Writers -> Writing]
  /\ req \in [Requests -> Handlers]
  /\ cleared \in Ids /\ announced \in Ids /\ announcedRound \in -1..MaxRound

Init ==
  /\ exposed = -1
  /\ posted = None
  /\ complete = Nil
  /\ lock = Nobody
  /\ filtered = [k \in Filters |-> Nil]
  /\ writer = [w \in Writers |-> NotWriting]
  /\ req = [r \in Requests |-> Idle]
  /\ cleared = None /\ announced = None /\ announcedRound = -1

Later(m, n) == [f \in Flags |-> IF m[f] > n[f] THEN m[f] ELSE n[f]]

-----------------------------------------------------------------------------
(* Posts and rounds.                                                       *)

(* submitFlagID: the flags of the round that is played have a row already. *)
Post(w, f) ==
  /\ writer[w].step = "idle"
  /\ RoundOf[f] <= exposed + 1
  /\ posted[f] < MaxPosts
  /\ posted' = [posted EXCEPT ![f] = posted[f] + 1]
  /\ writer' = [writer EXCEPT ![w] = [step |-> "clearComplete",
                  ids |-> [None EXCEPT ![f] = posted[f] + 1], round |-> -1]]
  /\ UNCHANGED <<exposed, complete, lock, filtered, req, cleared, announced,
                 announcedRound>>

Expose(w) ==
  /\ writer[w].step = "idle"
  /\ \A v \in Writers : writer[v].round = -1
  /\ exposed < MaxRound
  /\ exposed' = exposed + 1
  /\ writer' = [writer EXCEPT ![w] = [step |-> "clearComplete", ids |-> None,
                                      round |-> exposed + 1]]
  /\ UNCHANGED <<posted, complete, lock, filtered, req, cleared, announced,
                 announcedRound>>

(* Mutant: the cache is rebuilt without the write lock. *)
LockFreeAlways == TRUE

LockFree == lock = Nobody

(* invalidateFlagIDsCache empties one cache after the other. *)
ClearComplete(w) ==
  /\ writer[w].step = "clearComplete"
  /\ LockFree
  /\ complete' = Nil
  /\ cleared' = Later(cleared, writer[w].ids)
  /\ writer' = [writer EXCEPT ![w].step = "clearFiltered"]
  /\ UNCHANGED <<exposed, posted, lock, filtered, req, announced, announcedRound>>

ClearFiltered(w) ==
  /\ writer[w].step = "clearFiltered"
  /\ filtered' = [k \in Filters |-> Nil]
  /\ announced' = Later(announced, writer[w].ids)
  /\ announcedRound' = IF writer[w].round > announcedRound
                       THEN writer[w].round ELSE announcedRound
  /\ writer' = [writer EXCEPT ![w] = NotWriting]
  /\ UNCHANGED <<exposed, posted, complete, lock, req, cleared>>

-----------------------------------------------------------------------------
(* Requests: retriveFlagIDs and getOrUpdateCompleteCache.                  *)

At(r, s) == req[r].step = s

Go(r, s) == req' = [req EXCEPT ![r].step = s]

Arrive(r, k) ==
  /\ At(r, "idle")
  /\ req' = [req EXCEPT ![r] = [Idle EXCEPT !.step = "look", !.filter = k,
               !.round = exposed, !.floor = announced, !.floorRound = announcedRound]]
  /\ UNCHANGED <<exposed, posted, complete, lock, filtered, writer, cleared,
                 announced, announcedRound>>

(* The request takes what a cache has to say, and goes on with step s.     *)
Take(r, cached, s) ==
  req' = [req EXCEPT ![r].ids = cached.ids, ![r].shown = cached.round, ![r].step = s]

LookFiltered(r) ==
  /\ At(r, "look")
  /\ LET cached == filtered[req[r].filter]
     IN  IF cached # Nil THEN Take(r, cached, "answered") ELSE Go(r, "complete")
  /\ UNCHANGED <<exposed, posted, complete, lock, filtered, writer, cleared,
                 announced, announcedRound>>

LookComplete(r) ==
  /\ At(r, "complete")
  /\ LockFree
  /\ IF complete # Nil THEN Take(r, complete, "got") ELSE Go(r, "lock")
  /\ UNCHANGED <<exposed, posted, complete, lock, filtered, writer, cleared,
                 announced, announcedRound>>

(* Another request may have rebuilt the cache in the meantime. *)
TakeLock(r) ==
  /\ At(r, "lock")
  /\ LockFree
  /\ IF complete # Nil
     THEN Take(r, complete, "got") /\ UNCHANGED lock
     ELSE Go(r, "query") /\ lock' = r
  /\ UNCHANGED <<exposed, posted, complete, filtered, writer, cleared,
                 announced, announcedRound>>

(* Mutant: the round that is being played is not left out. *)
VisibleEarly(f, round) == round - RoundOf[f] < FlagExpireTicks

(* The query's WHERE clause. *)
Visible(f, round) ==
  /\ round - RoundOf[f] < FlagExpireTicks
  /\ RoundOf[f] <= round

Query(r) ==
  /\ At(r, "query")
  /\ \/ Take(r, [ids |-> [f \in Flags |-> IF Visible(f, req[r].round) THEN posted[f] ELSE 0],
                 round |-> req[r].round], "fill") /\ UNCHANGED lock
     \/ req' = [req EXCEPT ![r] = Idle] /\ lock' = Nobody
  /\ UNCHANGED <<exposed, posted, complete, filtered, writer, cleared,
                 announced, announcedRound>>

Fill(r) ==
  /\ At(r, "fill")
  /\ complete' = [ids |-> req[r].ids, round |-> req[r].shown]
  /\ lock' = Nobody
  /\ Go(r, "got")
  /\ UNCHANGED <<exposed, posted, filtered, writer, cleared, announced,
                 announcedRound>>

(* filterCacheData *)
Filtered(ids, k) == [f \in Flags |-> IF f \in k THEN ids[f] ELSE 0]

Answer(r) ==
  /\ At(r, "got")
  /\ LET k      == req[r].filter
         answer == [ids |-> Filtered(req[r].ids, k), round |-> req[r].shown]
     IN  /\ filtered' = IF k = NoFilter THEN filtered
                        ELSE [filtered EXCEPT ![k] = answer]
         /\ Take(r, answer, "answered")
  /\ UNCHANGED <<exposed, posted, complete, lock, writer, cleared, announced,
                 announcedRound>>

Done(r) ==
  /\ At(r, "answered")
  /\ req' = [req EXCEPT ![r] = Idle]
  /\ UNCHANGED <<exposed, posted, complete, lock, filtered, writer, cleared,
                 announced, announcedRound>>

Next ==
  \/ \E w \in Writers : \/ \E f \in Flags : Post(w, f)
                        \/ Expose(w) \/ ClearComplete(w) \/ ClearFiltered(w)
  \/ \E r \in Requests : \/ \E k \in Filters : Arrive(r, k)
                         \/ LookFiltered(r) \/ LookComplete(r) \/ TakeLock(r)
                         \/ Query(r) \/ Fill(r) \/ Answer(r) \/ Done(r)

Spec == Init /\ [][Next]_vars

-----------------------------------------------------------------------------
(* Properties.                                                             *)

(* No team ever learns a flag id before the round of its flag is exposed.  *)
NothingEarly ==
  \A r \in Requests : At(r, "answered") =>
    \A f \in Flags : req[r].ids[f] > 0 => RoundOf[f] <= exposed

(* A request without filter is answered with every flag id that was over   *)
(* and done with when it came in, among those of the round it shows.       *)
UnfilteredHavePosts ==
  \A r \in Requests : At(r, "answered") /\ req[r].filter = NoFilter =>
    \A f \in Flags : Visible(f, req[r].shown) => req[r].ids[f] >= req[r].floor[f]

(* flag_ids.go:116 "invalidates the cache when a new flag ID is added" (in *)
(* Italian): no request that comes in afterwards is answered without it.   *)
FilteredHavePosts ==
  \A r \in Requests : At(r, "answered") =>
    \A f \in req[r].filter :
      Visible(f, req[r].shown) => req[r].ids[f] >= req[r].floor[f]

(* "They are only given for flags that are still valid"                    *)
(* (RulesContent.tsx:548).                                                 *)
OnlyValidFlags ==
  \A r \in Requests : At(r, "answered") =>
    \A f \in Flags : req[r].ids[f] > 0 =>
      req[r].floorRound - RoundOf[f] < FlagExpireTicks

(* ------- What the write lock is for. ----------------------------------- *)

LockHeld == \A r \in Requests : At(r, "query") \/ At(r, "fill") <=> lock = r

HasPosts(ids, round) ==
  \A f \in Flags : Visible(f, round) => ids[f] >= cleared[f]

IInv ==
  /\ TypeOK
  /\ LockHeld
  /\ lock # Nobody => complete = Nil
  /\ complete # Nil => HasPosts(complete.ids, complete.round)
  /\ \A r \in Requests : At(r, "fill") => HasPosts(req[r].ids, req[r].shown)

(* What has been announced was cleared from the caches before, and posted  *)
(* before that.                                                            *)
Below(m, n) == \A f \in Flags : m[f] <= n[f]

PostsInOrder ==
  /\ Below(announced, cleared) /\ Below(cleared, posted)
  /\ \A w \in Writers :
       /\ writer[w].step = "clearComplete" => Below(writer[w].ids, posted)
       /\ writer[w].step = "clearFiltered" => Below(writer[w].ids, cleared)
  /\ \A r \in Requests : Below(req[r].floor, announced)

HasFloor(r) ==
  \A f \in Flags : Visible(f, req[r].shown) => req[r].ids[f] >= req[r].floor[f]

FloorKept ==
  /\ filtered[NoFilter] = Nil
  /\ \A r \in Requests : At(r, "got") => HasFloor(r)
  /\ UnfilteredHavePosts

(* ------- What is known of the flags. ------------------------------------ *)

Public(ids, round) == \A f \in Flags : ids[f] > 0 => RoundOf[f] <= round

OnlyPublic ==
  /\ complete # Nil => Public(complete.ids, exposed)
  /\ \A k \in Filters : filtered[k] # Nil => Public(filtered[k].ids, exposed)
  /\ \A r \in Requests : Public(req[r].ids, exposed) /\ req[r].round <= exposed
=============================================================================
