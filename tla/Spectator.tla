------------------------------ MODULE Spectator ------------------------------
(***************************************************************************)
(* A browser that shows the ranking, together with the server it asks:     *)
(* gameserver/frontend, MainLayout.tsx, query.tsx, ScoreboardPage.tsx and  *)
(* ScoreboardTeamDetail.tsx over the answers of ApiCache.                  *)
(*                                                                         *)
(* The page polls /api/status, and asks for the ranking again when the     *)
(* round of the status has changed.  The scoreboard, the chart and the     *)
(* history of a team are queries that are handled alike; board is the one  *)
(* the page shows.  The queries are those of react-query: data is kept     *)
(* while it is asked for again, and when that fails.                       *)
(*                                                                         *)
(* A ranking is the round it is of; what the organizers do to it (a        *)
(* freeze, a ban, a weight) is left to ApiCache.                           *)
(***************************************************************************)
EXTENDS ApiCache

CONSTANTS
  None                (* nothing                                            *)

ASSUME SpectatorAssumption ==
  /\ {None, NoData, Empty} \cap (Requests \cup Int \cup {"sent"}) = {}
  /\ "sent" \notin Requests

VARIABLES
  shown,              (* current_round of the query ["status"]              *)
  board               (* query ["scoreboard", ...]                          *)

pageVars == <<vars, shown, board>>

-----------------------------------------------------------------------------
(* wire: the request under way; current (history): it was sent, or the    *)
(* one that brought the data, after shown changed last.                    *)
Boards == [data : Rounds \cup {NoData, Empty},
           wire : Requests \cup {"sent", None}, current : BOOLEAN]

PageTypeOK ==
  /\ shown \in Rounds \cup {None}
  /\ board \in Boards

-----------------------------------------------------------------------------
(* Queries.                                                                *)

(* A request is sent; one that is under way is forgotten. *)
Fetch(b) == [b EXCEPT !.wire = "sent", !.current = TRUE]

FetchUnlessBusy(b) == IF b.wire = None THEN Fetch(b) ELSE b

(* Mutant: a request under way is not sent again. *)
InvalidateJoining(b) == [FetchUnlessBusy(b) EXCEPT !.current = TRUE]

(* invalidateQueries: what is shown is asked for again, but a query that   *)
(* has no data yet waits for the answer that is under way.                 *)
InvalidateQueries(b) ==
  IF b.wire = None \/ b.data # NoData
  THEN Fetch(b)
  ELSE [b EXCEPT !.current = FALSE]

-----------------------------------------------------------------------------
(* The status.                                                             *)

(* MainLayout: oldRound is what was shown before, -1 at first. *)
oldRound == IF shown = None THEN -1 ELSE shown

(* refetchInterval: the answer is of the round that was exposed when the   *)
(* poll came to the server, or of an older one if the cache of the status  *)
(* was overtaken (AnswersOfTheRound); a round may be published before it   *)
(* is here.                                                                *)
Poll ==
  /\ \E s \in Rounds : s <= round /\ shown' = s
  /\ board' = IF oldRound = shown' THEN board ELSE InvalidateQueries(board)
  /\ UNCHANGED vars

(* It fails before there was a status: undefined is no round, either. *)
PollFails ==
  /\ shown = None
  /\ board' = InvalidateQueries(board)
  /\ UNCHANGED <<vars, shown>>

-----------------------------------------------------------------------------
(* The board.                                                              *)

NoBoard == [data |-> NoData, wire |-> None, current |-> FALSE]

Becomes(b) ==
  /\ board' = b
  /\ UNCHANGED shown

(* refetchOnMount, refetchOnWindowFocus: only when none is under way.  The *)
(* data of a page that is opened may never have been asked for.            *)
Refetch ==
  /\ \E b \in {board, NoBoard} : Becomes(FetchUnlessBusy(b))
  /\ UNCHANGED vars

BoardArrive(r) ==
  /\ board.wire = "sent"
  /\ Arrive(r) \/ ArriveTooEarly(r)
  /\ Becomes([board EXCEPT !.wire = r])

Ranking(answer) == IF answer = Empty THEN Empty ELSE answer.round

(* An answer that was overtaken at the server is as good as an old one. *)
BoardAnswer(r) ==
  /\ board.wire = r
  /\ req[r].answer # NoData
  /\ Done(r)
  /\ Becomes([board EXCEPT !.wire = None, !.data = Ranking(req[r].answer),
                           !.current = @ /\ ~req[r].overtaken])

(* An attempt fails: it is repeated, up to three times. *)
Missed ==
  \/ Becomes([board EXCEPT !.wire = "sent"])
  \/ Becomes([board EXCEPT !.wire = None, !.current = FALSE])

BoardFail(r) ==
  /\ board.wire = r
  /\ \/ Fail(r)
     \/ req[r].answer = NoData /\ Done(r)
  /\ Missed

BoardLost == board.wire = "sent" /\ Missed /\ UNCHANGED vars

(* The page is opened, or reloaded. *)
Reload ==
  /\ shown' = None
  /\ board' = Fetch(NoBoard)
  /\ UNCHANGED vars

PageInit ==
  /\ Init
  /\ shown = None
  /\ board = Fetch(NoBoard)

-----------------------------------------------------------------------------
(* The server, the organizers, the other browsers. *)
Others ==
  /\ \/ Publish
     \/ \E c \in Changers : Invalidate(c)
     \/ \E c \in Changers, p \in Parts : Change(c, p)
     \/ \E r \in Requests :
          \/ Begin(r) \/ Check(r) \/ Serve(r) \/ Update(r)
          \/ \E p \in Parts : ReadPart(r, p)
          \/ r # board.wire /\ (Arrive(r) \/ ArriveTooEarly(r) \/ Fail(r) \/ Done(r))
  /\ UNCHANGED <<shown, board>>

PageNext ==
  \/ Others
  \/ Poll \/ PollFails
  \/ Refetch \/ BoardLost
  \/ \E r \in Requests : BoardArrive(r) \/ BoardAnswer(r) \/ BoardFail(r)
  \/ Reload

PageSpec == PageInit /\ [][PageNext]_pageVars

-----------------------------------------------------------------------------
(* Properties.                                                             *)

(* The ranking keeps up with the round counter above it (RoundCounter.tsx):*)
(* once the answer to a request that was sent since the counter changed is *)
(* shown, the ranking is that of the round shown at least (unless the      *)
(* answer was overtaken at the server).  What is not current is data asked *)
(* for before: the first answer of all may take longer than a round.       *)
BoardKeepsUp ==
  board.current /\ board.wire = None /\ shown \notin {None, -1} =>
    board.data \in Rounds /\ board.data >= shown
=============================================================================
