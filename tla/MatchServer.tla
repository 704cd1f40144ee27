---------------------------- MODULE MatchServer ----------------------------
(***************************************************************************)
(* The life of a match inside the server, and every thread that can end    *)
(* one (server/src/gameplay_handler.cpp, server.cpp).                      *)
(*                                                                         *)
(*   "router"  the client handler threads while they are inside            *)
(*             Server::routeMessage: handlers_mutex_ is held for the whole *)
(*             handler, so they act as one thread;                         *)
(*   "timer"   Server::timeoutCheckerThread, which takes no handler lock;  *)
(*   a Conn    the thread of that connection once its socket is lost,      *)
(*             running Server::removeClient, again without handlers_mutex_.*)
(*                                                                         *)
(* A step is what one thread does between two acquisitions of a lock of    *)
(* another object (matches_mutex_, ready_mutex_, PlayerManager::mutex_) or *)
(* between two database statements.  Match objects live on a heap: a       *)
(* shared_ptr held by a thread keeps an object alive after removeMatch or  *)
(* createMatch took it out of active_matches_.                             *)
(*                                                                         *)
(* Boards are abstracted to the number of ship cells still afloat; module  *)
(* MatchGame has the boards.                                               *)
(***************************************************************************)
EXTENDS Naturals, FiniteSets

CONSTANTS
  Users,      \* the registered users
  Conns,      \* connections ever accepted (bounds logins and disconnects)
  Matches,    \* ids of the rows of table matches
  P1, P2,     \* player1_id and player2_id of each row
  Nobody,     \* user id 0
  MaxObj,     \* bound on the MatchState objects ever created
  Fleet,      \* ship cells of a full fleet
  Leavers,    \* connections whose client may log out without leaving
  Switchers,  \* connections whose client may log in while logged in
  Resubmit,   \* may a client send SHIP_PLACEMENT twice for one match?
  Requests    \* the ways clients ask for an end: "resign", "draw" or both

ASSUME ConstantsAssumption ==
  /\ Matches # {}
  /\ P1 \in [Matches -> Users] /\ P2 \in [Matches -> Users]
  /\ \A m \in Matches : P1[m] # P2[m]
  /\ Nobody \notin Users
  /\ MaxObj \in Nat /\ Fleet \in Nat \ {0}
  /\ Resubmit \in BOOLEAN /\ Requests \subseteq {"resign", "draw"}
  /\ Leavers \subseteq Conns /\ Switchers \subseteq Conns
  /\ "router" \notin Conns /\ "timer" \notin Conns

VARIABLES
  row,     \* table matches: status and winner_id of each row
  placed,  \* table match_boards: users with a stored placement
  ready,   \* ready_players_
  active,  \* active_matches_: the object of each match, NoObj if none
  heap,    \* the MatchState objects
  created, \* number of objects created
  status,  \* PlayerManager's status, "OFFLINE" if no entry
  user,    \* ClientConnection::user_id_ of each connection
  link,    \* each connection: "new", "open" (logged in), "out" (logged out),
           \* "lost" (its thread cleans up) or "gone"
  pc,      \* what each thread does next
  job,     \* the locals of each thread: match, object, verdict
  todo,    \* matches collected by the timer or a cleanup, not yet handled
  told,    \* history: the verdicts sendMatchEnd announced for each object
  resigned, \* history: who asked to resign from each match
  overdue  \* history: the matches of which a turn ran out

netVars  == <<user, link>>
dbVars   == <<row, placed>>
mapVars  == <<active, ready, created>>
past     == <<resigned, overdue>>
vars == <<dbVars, mapVars, heap, status, netVars, pc, job, todo, told, past>>

-----------------------------------------------------------------------------
NoObj   == 0
Objects == 1..MaxObj
Threads == {"router", "timer"} \cup Conns
UserOrNobody == Users \cup {Nobody}

Players(m) == {P1[m], P2[m]}
\* (user_id == player1_id) ? player2_id : player1_id
Other(m, u) == IF u = P1[m] THEN P2[m] ELSE P1[m]

Reasons == {"normal", "resign", "draw", "timeout", "disconnect"}
Verdicts == [m : Matches, by : Threads,
             winner : UserOrNobody, reason : Reasons]
\* c is the connection whose thread is in the router, Nobody for the others.
Jobs == [c : Conns \cup {Nobody}, m : Matches, o : 0..MaxObj,
         winner : UserOrNobody, reason : Reasons]
NoJob == [c |-> Nobody, m |-> CHOOSE m \in Matches : TRUE, o |-> NoObj,
          winner |-> Nobody, reason |-> "draw"]

Statuses == {"OFFLINE", "AVAILABLE", "IN_GAME"}
Links == {"new", "open", "out", "lost", "gone"}
Rows == [status : {"absent", "waiting", "completed"}, winner : UserOrNobody]
MatchStates == [live : BOOLEAN, turn : UserOrNobody, late : BOOLEAN,
                afloat : [Users -> 0..Fleet]]
Fresh == [live |-> FALSE, turn |-> Nobody, late |-> FALSE,
          afloat |-> [u \in Users |-> Fleet]]

\* The connection has a session that the handlers accept.
Online(c) == link[c] = "open" /\ user[c] # Nobody

Init ==
  /\ row = [m \in Matches |-> [status |-> "absent", winner |-> Nobody]]
  /\ placed = [m \in Matches |-> {}]
  /\ ready = [m \in Matches |-> {}]
  /\ active = [m \in Matches |-> NoObj]
  /\ heap = [o \in Objects |-> Fresh]
  /\ created = 0
  /\ status = [u \in Users |-> "OFFLINE"]
  /\ user = [c \in Conns |-> Nobody]
  /\ link = [c \in Conns |-> "new"]
  /\ pc = [t \in Threads |-> "idle"]
  /\ job = [t \in Threads |-> NoJob]
  /\ todo = [t \in Threads |-> {}]
  /\ told = [o \in Objects |-> {}]
  /\ resigned = [m \in Matches |-> {}]
  /\ overdue = {}

Goto(t, step) == pc' = [pc EXCEPT ![t] = step]
\* Done with a match: the locals are gone.
Finish(t, step) == Goto(t, step) /\ job' = [job EXCEPT ![t] = NoJob]

-----------------------------------------------------------------------------
(* Connections, login and the challenge that creates a row.                *)

\* A login or a validated session, on a connection that may be logged in
\* already.  addPlayer overwrites whatever entry the user has, setAuthenticated
\* whoever used the connection before.
Login(c, u) ==
  /\ pc["router"] = "idle"
  /\ link[c] \in {"new", "out"} \/ (link[c] = "open" /\ c \in Switchers)
  /\ link' = [link EXCEPT ![c] = "open"]
  /\ user' = [user EXCEPT ![c] = u]
  /\ status' = [status EXCEPT ![u] = "AVAILABLE"]
  /\ UNCHANGED <<dbVars, mapVars, heap, pc, job, todo, told, past>>

\* The session is deleted and the entry removed.  The connection stays open
\* and authenticated, and the user's matches go on.
Logout(c) ==
  /\ pc["router"] = "idle" /\ Online(c) /\ c \in Leavers
  /\ link' = [link EXCEPT ![c] = "out"]
  /\ status' = [status EXCEPT ![user[c]] = "OFFLINE"]
  /\ UNCHANGED <<dbVars, mapVars, heap, user, pc, job, todo, told, past>>

\* updatePlayerStatus does nothing for a user without an entry.
WithStatus(us, s) ==
  [u \in Users |-> IF u \in us /\ status[u] # "OFFLINE" THEN s ELSE status[u]]

\* respondToChallenge and createMatch, after isAuthenticated, which a logout
\* does not clear.  The router makes the row, the MATCH_STARTs and the two
\* status updates one step here; module Lobby has them one by one.
AcceptChallenge(c, m) ==
  /\ pc["router"] = "idle" /\ link[c] \in {"open", "out"} /\ user[c] = P2[m]
  /\ row[m].status = "absent"
  /\ row' = [row EXCEPT ![m].status = "waiting"]
  /\ status' = WithStatus(Players(m), "IN_GAME")
  /\ UNCHANGED <<placed, mapVars, heap, netVars, pc, job, todo, told, past>>

-----------------------------------------------------------------------------
(* SHIP_PLACEMENT.                                                         *)

\* saveShipPlacement (a foreign key needs the row), then the insertion into
\* ready_players_.  Only the first stored placement is ever read back.
ShipPlacement(c, m) ==
  /\ pc["router"] = "idle" /\ Online(c) /\ user[c] \in Players(m)
  /\ row[m].status # "absent"
  /\ created < MaxObj
  /\ Resubmit \/ user[c] \notin placed[m]
  /\ placed' = [placed EXCEPT ![m] = @ \cup {user[c]}]
  /\ ready' = [ready EXCEPT ![m] = @ \cup {user[c]}]
  /\ Goto("router", "check")
  /\ job' = [job EXCEPT !["router"] = [NoJob EXCEPT !.c = c, !.m = m]]
  /\ UNCHANGED <<row, active, created, heap, status, netVars, todo, told, past>>

\* Both players ready: createMatch, whose new object replaces any object the
\* match already had.  (No other thread can tell the look at ready_players_
\* from the update of active_matches_.)
CheckReady ==
  /\ pc["router"] = "check"
  /\ IF Players(job["router"].m) \subseteq ready[job["router"].m]
       THEN /\ created' = created + 1
            /\ active' = [active EXCEPT ![job["router"].m] = created + 1]
            /\ Goto("router", "start") /\ UNCHANGED job
       ELSE Finish("router", "idle") /\ UNCHANGED <<created, active>>
  /\ UNCHANGED <<dbVars, ready, heap, status, netVars, todo, told, past>>

\* Mutant: startMatch forgets is_active.
StartMatchInactive ==
  /\ pc["router"] = "start"
  /\ LET o == active[job["router"].m] IN
       IF o = NoObj
         THEN UNCHANGED heap
         ELSE \E u \in Players(job["router"].m) :
                heap' = [heap EXCEPT ![o] = [Fresh EXCEPT !.turn = u]]
  /\ Finish("router", "idle")
  /\ UNCHANGED <<dbVars, mapVars, status, netVars, todo, told, past>>

\* getMatch, which finds nothing if a cleanup has removed the match already;
\* otherwise loadShips, startMatch and the random choice of the first player.
StartMatch ==
  /\ pc["router"] = "start"
  /\ LET o == active[job["router"].m] IN
       IF o = NoObj
         THEN UNCHANGED heap
         ELSE \E u \in Players(job["router"].m) :
                heap' = [heap EXCEPT ![o] = [Fresh EXCEPT !.live = TRUE,
                                                          !.turn = u]]
  /\ Finish("router", "idle")
  /\ UNCHANGED <<dbVars, mapVars, status, netVars, todo, told, past>>

-----------------------------------------------------------------------------
(* MOVE, RESIGN and an accepted DRAW_RESPONSE.  A router that found a      *)
(* verdict goes on with the steps of "Ending a match".                     *)

\* The requests that reach an object: getMatch found one.  Nobody asks whether
\* the user plays in it.
Request(c, m) ==
  /\ pc["router"] = "idle" /\ Online(c) /\ active[m] # NoObj

RouterEnds(c, m, winner, reason) ==
  /\ Goto("router", "announce")
  /\ job' = [job EXCEPT !["router"] =
               [c |-> c, m |-> m, o |-> active[m],
                winner |-> winner, reason |-> reason]]

\* A shot at water or at a cell shot before: switchTurn, which also restarts
\* the turn timer.
MoveMiss(c, m) ==
  /\ Request(c, m)
  /\ heap[active[m]].turn = user[c] /\ heap[active[m]].live
  /\ heap' = [heap EXCEPT ![active[m]].turn = Other(m, @),
                          ![active[m]].late = FALSE]
  /\ UNCHANGED <<dbVars, mapVars, status, netVars, pc, job, todo, told, past>>

\* Mutant: nobody looks whether the fleet is sunk.
MoveHitNeverEnds(c, m) ==
  LET o == active[m] IN
  /\ Request(c, m)
  /\ heap[o].turn = user[c] /\ heap[o].live
  /\ heap' = [heap EXCEPT ![o].afloat[Other(m, user[c])] = @ - 1]
  /\ UNCHANGED <<dbVars, mapVars, status, netVars, pc, job, todo, told, past>>

\* A hit keeps the turn and leaves the timer running.  MatchState::endMatch
\* deactivates the object when nothing is left afloat.
MoveHit(c, m) ==
  LET o == active[m]
      target == Other(m, user[c])
  IN
  /\ Request(c, m)
  /\ heap[o].turn = user[c] /\ heap[o].live
  /\ heap[o].afloat[target] > 0
  /\ IF heap[o].afloat[target] = 1
       THEN /\ heap' = [heap EXCEPT ![o].afloat[target] = 0, ![o].live = FALSE]
            /\ RouterEnds(c, m, user[c], "normal")
       ELSE /\ heap' = [heap EXCEPT ![o].afloat[target] = @ - 1]
            /\ UNCHANGED <<pc, job>>
  /\ UNCHANGED <<dbVars, mapVars, status, netVars, todo, told, past>>

Resign(c, m) ==
  /\ "resign" \in Requests /\ Request(c, m)
  /\ RouterEnds(c, m, Other(m, user[c]), "resign")
  /\ resigned' = [resigned EXCEPT ![m] = @ \cup {user[c]}]
  /\ UNCHANGED <<dbVars, mapVars, heap, status, netVars, todo, told, overdue>>

\* winner_id = 0.  The server keeps no record of the offer.
AcceptDraw(c, m) ==
  /\ "draw" \in Requests /\ Request(c, m)
  /\ RouterEnds(c, m, Nobody, "draw")
  /\ UNCHANGED <<dbVars, mapVars, heap, status, netVars, todo, told, past>>

-----------------------------------------------------------------------------
(* The turn timer and the timer thread.                                    *)

\* turn_time_limit seconds pass since turn_start_time.  Nobody looks at the
\* clock of an object that is no longer in active_matches_.
TurnExpires(o) ==
  /\ \E m \in Matches : active[m] = o
  /\ heap[o].live /\ ~heap[o].late
  /\ heap' = [heap EXCEPT ![o].late = TRUE]
  /\ overdue' = overdue \cup {m \in Matches : active[m] = o}
  /\ UNCHANGED <<dbVars, mapVars, status, netVars, pc, job, todo, told, resigned>>

\* Mutant: a player who left is not timed out.
TimedOutIfOnline(m) ==
  /\ active[m] # NoObj /\ heap[active[m]].live /\ heap[active[m]].late
  /\ heap[active[m]].turn \in Users => status[heap[active[m]].turn] # "OFFLINE"

\* isTurnTimedOut of the object of a match
TimedOut(m) == active[m] # NoObj /\ heap[active[m]].live /\ heap[active[m]].late

\* checkTurnTimeouts collects under matches_mutex_ ...
TimerScan ==
  /\ pc["timer"] = "idle"
  /\ \E m \in Matches : TimedOut(m)
  /\ todo' = [todo EXCEPT !["timer"] = {m \in Matches : TimedOut(m)}]
  /\ Goto("timer", "next")
  /\ UNCHANGED <<dbVars, mapVars, heap, status, netVars, job, told, past>>

\* ... and looks each match up again, but does not ask again whether its
\* turn is timed out.
TimerNext ==
  /\ pc["timer"] = "next"
  /\ \E m \in todo["timer"] :
       /\ todo' = [todo EXCEPT !["timer"] = @ \ {m}]
       /\ IF active[m] = NoObj
            THEN /\ Goto("timer", IF todo'["timer"] = {} THEN "idle" ELSE "next")
                 /\ UNCHANGED job
            ELSE /\ Goto("timer", "announce")
                 /\ job' = [job EXCEPT !["timer"] =
                      [c |-> Nobody, m |-> m, o |-> active[m],
                       winner |-> Other(m, heap[active[m]].turn),
                       reason |-> "timeout"]]
  /\ UNCHANGED <<dbVars, mapVars, heap, status, netVars, told, past>>

-----------------------------------------------------------------------------
(* A lost connection: handleClient leaves its loop and calls removeClient. *)
(* The thread cannot notice while a handler of its own is in the router.   *)
(* It finds its own connection in clients_ here; modules Connections and   *)
(* Lobby have descriptors that were used again meanwhile.                  *)

Disconnect(c) ==
  /\ link[c] \in {"open", "out"}
  /\ job["router"].c # c
  /\ link' = [link EXCEPT ![c] = "lost"]
  /\ Goto(c, "scan")
  /\ UNCHANGED <<dbVars, mapVars, heap, status, user, job, todo, told, past>>

\* handlePlayerDisconnect collects the user's matches under matches_mutex_.
CleanupScan(c) ==
  /\ pc[c] = "scan"
  /\ todo' = [todo EXCEPT ![c] =
       {m \in Matches : active[m] # NoObj /\ user[c] \in Players(m)}]
  /\ Goto(c, "next")
  /\ UNCHANGED <<dbVars, mapVars, heap, status, netVars, job, told, past>>

\* Mutant: the player who left is named the winner.
CleanupNextSwapped(c) ==
  /\ pc[c] = "next"
  /\ \E m \in todo[c] :
       /\ todo' = [todo EXCEPT ![c] = @ \ {m}]
       /\ IF active[m] = NoObj
            THEN UNCHANGED <<pc, job>>
            ELSE /\ Goto(c, "record")
                 /\ job' = [job EXCEPT ![c] =
                      [c |-> Nobody, m |-> m, o |-> active[m],
                       winner |-> user[c], reason |-> "disconnect"]]
  /\ UNCHANGED <<dbVars, mapVars, heap, status, netVars, told, past>>

\* Mutant: the match is dropped without a verdict.
CleanupNextSilent(c) ==
  /\ pc[c] = "next"
  /\ \E m \in todo[c] :
       /\ todo' = [todo EXCEPT ![c] = @ \ {m}]
       /\ Goto(c, "erase")
       /\ job' = [job EXCEPT ![c] =
            [c |-> Nobody, m |-> m, o |-> active[m],
             winner |-> Other(m, user[c]), reason |-> "disconnect"]]
  /\ UNCHANGED <<dbVars, mapVars, heap, status, netVars, told, past>>

CleanupNext(c) ==
  /\ pc[c] = "next"
  /\ \E m \in todo[c] :
       /\ todo' = [todo EXCEPT ![c] = @ \ {m}]
       /\ IF active[m] = NoObj
            THEN UNCHANGED <<pc, job>>
            ELSE /\ Goto(c, "record")
                 /\ job' = [job EXCEPT ![c] =
                      [c |-> Nobody, m |-> m, o |-> active[m],
                       winner |-> Other(m, user[c]), reason |-> "disconnect"]]
  /\ UNCHANGED <<dbVars, mapVars, heap, status, netVars, told, past>>

\* PlayerManager::removePlayer, by user id and not by connection.
RemovePlayer(c) ==
  /\ pc[c] = "next" /\ todo[c] = {}
  /\ status' = [status EXCEPT ![user[c]] = "OFFLINE"]
  /\ link' = [link EXCEPT ![c] = "gone"]
  /\ Goto(c, "idle")
  /\ UNCHANGED <<dbVars, mapVars, heap, user, job, todo, told, past>>

-----------------------------------------------------------------------------
(* Ending a match.  The router and the timer go announce, record, free,    *)
(* erase, unready; a cleanup goes record, announce, erase, unready, free.  *)

\* sendMatchEnd: both ratings rewritten, MATCH_END sent to both players.
Announce(t) ==
  /\ pc[t] = "announce"
  /\ told' = [told EXCEPT ![job[t].o] = @ \cup
       {[m |-> job[t].m, by |-> t, winner |-> job[t].winner, reason |-> job[t].reason]}]
  /\ Goto(t, IF t \in Conns THEN "erase" ELSE "record")
  /\ UNCHANGED <<dbVars, mapVars, heap, status, netVars, job, todo, past>>

\* Mutant: the loser is recorded.
RecordLoser(t) ==
  /\ pc[t] = "record"
  /\ row' = IF job[t].winner \in Users
              THEN [row EXCEPT ![job[t].m] =
                      [status |-> "completed",
                       winner |-> Other(job[t].m, job[t].winner)]]
              ELSE row
  /\ Goto(t, IF t \in Conns THEN "announce" ELSE "free")
  /\ UNCHANGED <<placed, mapVars, heap, status, netVars, job, todo, told, past>>

\* DatabaseManager::endMatch.  winner_id references users, so the update
\* that a draw makes with 0 fails and nobody looks at its result.
Record(t) ==
  /\ pc[t] = "record"
  /\ row' = IF job[t].winner \in Users
              THEN [row EXCEPT ![job[t].m] =
                      [status |-> "completed", winner |-> job[t].winner]]
              ELSE row
  /\ Goto(t, IF t \in Conns THEN "announce" ELSE "free")
  /\ UNCHANGED <<placed, mapVars, heap, status, netVars, job, todo, told, past>>

\* Mutant: after a disconnect the opponent stays IN_GAME.
FreeNoOpponent(t) ==
  /\ pc[t] = "free"
  /\ IF t \in Conns
       THEN /\ Finish(t, "next") /\ UNCHANGED status
       ELSE /\ status' = WithStatus(Players(job[t].m), "AVAILABLE")
            /\ Goto(t, "erase") /\ UNCHANGED job
  /\ UNCHANGED <<dbVars, mapVars, heap, netVars, todo, told, past>>

\* Players back to AVAILABLE: both, or only the opponent after a disconnect.
Free(t) ==
  /\ pc[t] = "free"
  /\ IF t \in Conns
       THEN /\ status' = WithStatus({Other(job[t].m, user[t])}, "AVAILABLE")
            /\ Finish(t, "next")
       ELSE /\ status' = WithStatus(Players(job[t].m), "AVAILABLE")
            /\ Goto(t, "erase") /\ UNCHANGED job
  /\ UNCHANGED <<dbVars, mapVars, heap, netVars, todo, told, past>>

\* Mutant: the match stays in active_matches_.
EraseNothing(t) ==
  /\ pc[t] = "erase"
  /\ Goto(t, "unready")
  /\ UNCHANGED <<dbVars, mapVars, heap, status, netVars, job, todo, told, past>>

\* removeMatch, first half: whatever object the match has now goes.
Erase(t) ==
  /\ pc[t] = "erase"
  /\ active' = [active EXCEPT ![job[t].m] = NoObj]
  /\ Goto(t, "unready")
  /\ UNCHANGED <<dbVars, ready, created, heap, status, netVars, job, todo, told, past>>

\* removeMatch, second half
Unready(t) ==
  /\ pc[t] = "unready"
  /\ ready' = [ready EXCEPT ![job[t].m] = {}]
  /\ IF t \in Conns
       THEN Goto(t, "free") /\ UNCHANGED job
       ELSE Finish(t, IF todo[t] = {} THEN "idle" ELSE "next")
  /\ UNCHANGED <<dbVars, active, created, heap, status, netVars, todo, told, past>>

EndStep(t) == Announce(t) \/ Record(t) \/ Free(t) \/ Erase(t) \/ Unready(t)

-----------------------------------------------------------------------------
RouterStep == CheckReady \/ StartMatch
TimerStep == TimerScan \/ TimerNext
CleanupStep(c) == CleanupScan(c) \/ CleanupNext(c) \/ RemovePlayer(c)

Next ==
  \/ \E c \in Conns, u \in Users : Login(c, u)
  \/ \E c \in Conns : Logout(c)
  \/ \E c \in Conns, m \in Matches :
       \/ AcceptChallenge(c, m) \/ ShipPlacement(c, m)
       \/ MoveMiss(c, m) \/ MoveHit(c, m) \/ Resign(c, m) \/ AcceptDraw(c, m)
  \/ RouterStep
  \/ \E o \in Objects : TurnExpires(o)
  \/ TimerStep
  \/ \E c \in Conns : Disconnect(c) \/ CleanupStep(c)
  \/ \E t \in Threads : EndStep(t)

Spec == Init /\ [][Next]_vars

\* Time passes, and every thread that is inside the server's own code gets to
\* run.  What clients send, and whether they leave, is up to them.
Fairness ==
  /\ WF_vars(RouterStep \/ EndStep("router"))
  /\ WF_vars(TimerStep \/ EndStep("timer"))
  /\ \A c \in Conns : WF_vars(CleanupStep(c) \/ EndStep(c))
  /\ \A o \in Objects : WF_vars(TurnExpires(o))

FairSpec == Spec /\ Fairness

-----------------------------------------------------------------------------
(* Properties.                                                             *)

Steps == {"idle", "check", "start", "scan", "next",
          "announce", "record", "free", "erase", "unready"}

\* Every variable holds a value of its type.
TypeOK ==
  /\ row \in [Matches -> Rows]
  /\ placed \in [Matches -> SUBSET Users]
  /\ ready \in [Matches -> SUBSET Users]
  /\ active \in [Matches -> 0..MaxObj]
  /\ heap \in [Objects -> MatchStates]
  /\ created \in 0..MaxObj
  /\ status \in [Users -> Statuses]
  /\ user \in [Conns -> UserOrNobody]
  /\ link \in [Conns -> Links]
  /\ pc \in [Threads -> Steps]
  /\ job \in [Threads -> Jobs]
  /\ todo \in [Threads -> SUBSET Matches]
  /\ told \in [Objects -> SUBSET Verdicts]
  /\ resigned \in [Matches -> SUBSET Users]
  /\ overdue \in SUBSET Matches

\* Whenever no handler is running, every match in active_matches_ can be
\* played: it is active, it is the turn of one of its players, and both
\* fleets have something afloat.  (handleMove relies on it: it does not look
\* at is_active, and processMove answers MISS for an inactive match.)
RestingMatchesPlayable ==
  pc["router"] = "idle" =>
    \A m \in Matches : active[m] # NoObj =>
      LET o == heap[active[m]] IN
      /\ o.live
      /\ o.turn \in Players(m)
      /\ \A u \in Players(m) : o.afloat[u] > 0

\* No thread announces the end of one match object twice, whatever the other
\* threads that are ending it do: removeMatch takes the object away before
\* the thread looks for work again.
NoSecondEnd ==
  \A t \in Threads : pc[t] = "announce" =>
    \A v \in told[job[t].o] : v.by # t

\* A verdict that was announced has its reason in the match.  A normal end has
\* exactly the loser's fleet sunk in a match that no longer takes moves; a draw
\* names nobody; the loser by resignation asked for it, or someone who is no
\* player did and player 1 wins; the loser by disconnection lost a connection;
\* and a timeout follows a turn that ran out.  (Not always the loser's turn:
\* after checkTurnTimeouts has seen it run out, the turn may pass.)
VerdictsJustified ==
  \A o \in Objects : \A v \in told[o] :
    /\ v.reason = "draw" <=> v.winner = Nobody
    /\ v.winner # Nobody => v.winner \in Players(v.m)
    /\ v.reason = "normal" => /\ heap[o].afloat[Other(v.m, v.winner)] = 0
                              /\ heap[o].afloat[v.winner] > 0
                              /\ ~heap[o].live
    /\ v.reason = "disconnect" =>
         \E c \in Conns : /\ link[c] \in {"lost", "gone"}
                          /\ user[c] = Other(v.m, v.winner)
    /\ v.reason = "resign" =>
         \E u \in resigned[v.m] : v.winner = Other(v.m, u)
    /\ v.reason = "timeout" => v.m \in overdue

\* The winner that the database keeps was announced to the players, or is
\* about to be by a cleanup, which writes the row first.
RecordedWinnerAnnounced ==
  \A m \in Matches : row[m].status = "completed" =>
    \/ \E o \in Objects : \E v \in told[o] : v.m = m /\ v.winner = row[m].winner
    \/ \E c \in Conns : /\ pc[c] = "announce" /\ job[c].m = m
                       /\ job[c].winner = row[m].winner

\* When all threads are at rest, a player shown as IN_GAME has a match whose
\* row is not completed.
FreedAfterEnd ==
  (\A t \in Threads : pc[t] = "idle") =>
    \A u \in Users : status[u] = "IN_GAME" =>
      \E m \in Matches : u \in Players(m) /\ row[m].status = "waiting"

\* A started match leaves active_matches_ only after its players were told a
\* verdict for it.  Only where clients place their ships once (Resubmit =
\* FALSE): createMatch replaces a running match without a word.
NoSilentRemoval ==
  \A o \in Objects :
    heap[o].turn # Nobody /\ (\A m \in Matches : active[m] # o)
      => told[o] # {}

\* A turn that has run out does not stay on the clock: the match ends or the
\* player moves.
OverdueTurnEnds ==
  \A m \in Matches, o \in Objects :
    (active[m] = o /\ heap[o].live /\ heap[o].late)
      ~> ~(active[m] = o /\ heap[o].late)

\* No match outlives the connections of its players for good.
NoOrphanMatch ==
  (\A c \in Conns : link[c] = "gone") ~> (\A m \in Matches : active[m] = NoObj)
-----------------------------------------------------------------------------
(* What all of this amounts to: module MatchLife.                          *)

\* The verdict a thread is about to announce or has just announced.
VerdictOf(t) == [m |-> job[t].m, by |-> t, winner |-> job[t].winner,
                 reason |-> job[t].reason]

\* An object is in play from createMatch to removeMatch.
PhaseOf(o) ==
  IF o > created THEN "unborn"
  ELSE IF \E m \in Matches : active[m] = o THEN "playing" ELSE "over"

DecidedOf(o) ==
  told[o] \cup {VerdictOf(t) : t \in {x \in Threads :
                    pc[x] \in {"announce", "record"} /\ job[x].o = o}}

Life == INSTANCE MatchLife WITH
  Games   <- Objects,
  phase   <- [o \in Objects |-> PhaseOf(o)],
  decided <- [o \in Objects |-> DecidedOf(o)],
  result  <- [m \in Matches |-> row[m].winner]

\* The threads that end matches, whatever their order, keep what MatchLife
\* promises.  Only where clients place their ships once (Resubmit = FALSE).
ImplementsLife == Life!LifeSpec

-----------------------------------------------------------------------------
(* What the threads make of an object: module MatchObject.                 *)

Object(o) == INSTANCE MatchObject WITH
  live   <- heap[o].live,
  turn   <- heap[o].turn,
  afloat <- heap[o].afloat

\* Whatever the threads do at the same time, each object is started once and
\* played by turns until a fleet is gone, as MatchGame plays it.
ObjectsArePlayed ==
  /\ \A o \in Objects : Object(o)!ObjectInit
  /\ [][\A o \in Objects : [Object(o)!ObjectNext]_(Object(o)!objectVars)]_heap
=============================================================================
