----------------------------- MODULE GameScreen -----------------------------
(***************************************************************************)
(* A match as its two players see it: the game screen of each client, with *)
(* its two boards, its turn flag and its turn timer                        *)
(* (client/src/ui_lobby.cpp, ui_manager.cpp), the messages each way in the *)
(* order of their connection, and the server's match (module MatchGame)    *)
(* with the handlers that use it (server/src/gameplay_handler.cpp).        *)
(* Left out: lost connections, draws and second placements (module         *)
(* MatchServer), and the bot: no client still has is_bot_mode set from an  *)
(* earlier game against it, which MULTIPLAYER clears and a challenge does  *)
(* not.                                                                    *)
(***************************************************************************)
EXTENDS Board, FiniteSetsExt, Sequences

CONSTANTS
  Players, Nobody,   \* as in MatchGame
  Fleets,            \* the placements the players choose from
  Aims,              \* the cells each of them aims at
  Quitters,          \* the players who may resign or leave the screen
  Editors,           \* the players who may go on placing ships after READY
  Inbox, Outbox      \* bounds: messages on their way to a client, and from it

VARIABLES
  stored, grid, ships, left, active, turn, winner,   \* as in MatchGame
  ending,     \* the timer has announced the end and not yet removed the match
  gone,       \* removed from active_matches_
  toServer,   \* MOVE and RESIGN messages of each player
  toClient,   \* messages to each player, sent and not handled
  screen,     \* the screen each client shows; "result" is a dialog on "game"
  own,        \* player_board
  edited,     \* the players who changed the fleet on it after READY (no state of the code)
  shown,      \* opponent_board
  myTurn,     \* is_player_turn
  target,     \* the selected target, None if none
  armed,      \* the fire button exists and is sensitive
  ticking     \* the turn timer runs

Server == INSTANCE MatchGame

ASSUME ScreenAssumption ==
  /\ \E p, q \in Players : p # q /\ Players = {p, q}
  /\ Nobody \notin Players
  /\ Editors \subseteq Players
  /\ Fleets \subseteq Server!Placements
  /\ \A f \in Fleets : Server!Disjoint(f, Types)   \* Placement: SentFleetWhole

match == <<stored, grid, ships, left, active, turn, winner>>
fate  == <<ending, gone>>
aim   == <<target, armed>>
ui    == <<screen, own, edited, shown, myTurn, aim, ticking>>
vars  == <<match, fate, toServer, toClient, ui>>

-----------------------------------------------------------------------------
None == <<>>
Other(u) == Server!Other(u)

ShownStates == {"empty", "miss", "hit", "sunk"}

Move(c) == [kind |-> "move", cell |-> c]
ResignMsg == [kind |-> "resign"]
Requests == {Move(c) : c \in Cells} \cup {ResignMsg}

Ready == [kind |-> "ready"]
Turn(u) == [kind |-> "turn", of |-> u]
Result(u, c, res, t, over) ==
  [kind |-> "result", by |-> u, cell |-> c, res |-> res, type |-> t, over |-> over]
End == [kind |-> "end"]
Notices ==
  {Ready, End} \cup {Turn(u) : u \in Players}
    \cup {Result(u, c, res, t, over) : u \in Players, c \in Cells, t \in Types,
                       res \in {"miss", "hit", "sunk"}, over \in BOOLEAN}

\* Sent to both players, in this order.
Send(ms) ==
  /\ \A u \in Players : Len(toClient[u]) + Len(ms) <= Inbox
  /\ toClient' = [u \in Players |-> toClient[u] \o ms]

Init ==
  /\ Server!Init
  /\ ending = FALSE /\ gone = FALSE
  /\ toServer = [u \in Players |-> <<>>]
  /\ toClient = [u \in Players |-> <<>>]
  /\ screen = [u \in Players |-> "placement"]
  /\ own = [u \in Players |-> [c \in Cells |-> "empty"]]
  /\ edited = {}
  /\ shown = [u \in Players |-> [c \in Cells |-> "empty"]]
  /\ myTurn = [u \in Players |-> TRUE]
  /\ target = [u \in Players |-> None]
  /\ armed = [u \in Players |-> FALSE]
  /\ ticking = [u \in Players |-> FALSE]

-----------------------------------------------------------------------------
(* The placement screen.                                                   *)

\* The own board with the ships K of the fleet f.
Drawn(f, K) == [c \in Cells |-> IF c \in Server!Afloat(f, K) THEN "ship" ELSE "empty"]

\* READY on the placement screen of u, whose board holds the fleet f, and
\* the placement stored by the server.
Place(u, f) ==
  /\ screen[u] = "placement"
  /\ Server!Place(u, f)
  /\ own' = [own EXCEPT ![u] = Drawn(f, Types)]
  /\ UNCHANGED <<fate, toServer, toClient, screen, edited, shown, myTurn, aim, ticking>>

\* The screen stays open until MATCH_READY: ships are placed, removed and
\* cleared on it as before, and the server, which has the first placement,
\* hears nothing.
Edit(u) ==
  /\ screen[u] = "placement" /\ stored[u] # None /\ u \in Editors
  /\ \E f \in Fleets, K \in SUBSET Types : own' = [own EXCEPT ![u] = Drawn(f, K)]
  /\ edited' = IF own'[u] = Drawn(stored[u], Types) THEN edited \ {u}
                                                     ELSE edited \cup {u}
  /\ UNCHANGED <<match, fate, toServer, toClient, screen, shown, myTurn, aim, ticking>>

-----------------------------------------------------------------------------
(* The server.                                                             *)

\* The second placement: boards loaded, MATCH_READY, then the first turn.
Start ==
  /\ \E K \in [Players -> SUBSET Types], first \in Players :
       /\ Server!Start(K, first)
       /\ Send(<<Ready, Turn(first)>>)
  /\ UNCHANGED <<fate, toServer, ui>>

\* The type of the ship of v that the step sinks at c (MOVE_RESULT has some
\* type in any case; only that of a sunk ship is looked at).
SunkNow(v) == {t \in DOMAIN ships[v] : ships'[v][t].sunk /\ ~ships[v][t].sunk}
Verdict(u, c) ==
  LET v == Other(u)
      res == IF grid[v][c] # "ship" THEN "miss"
             ELSE IF SunkNow(v) = {} THEN "hit" ELSE "sunk"
      t == CHOOSE t \in Types : res = "sunk" => t \in SunkNow(v)
  IN Result(u, c, res, t, left'[v] = 0)

\* Mutant: the end follows from the result, and is not announced.
PlayWithoutEnd(u, c) ==
  /\ Server!Miss(u, c) \/ Server!Hit(u, c)
  /\ IF left'[Other(u)] = 0
       THEN gone' = TRUE /\ Send(<<Verdict(u, c)>>)
       ELSE UNCHANGED gone /\ Send(<<Verdict(u, c), Turn(turn')>>)

\* The move of the player to move: the result, then the turn, or the end.
Play(u, c) ==
  /\ Server!Miss(u, c) \/ Server!Hit(u, c)
  /\ IF left'[Other(u)] = 0
       THEN gone' = TRUE /\ Send(<<Verdict(u, c), End>>)
       ELSE UNCHANGED gone /\ Send(<<Verdict(u, c), Turn(turn')>>)

\* The oldest message of u.  A move out of turn, and whatever comes when the
\* match is gone, is dropped without an answer.
Serve(u) ==
  /\ toServer[u] # <<>>
  /\ toServer' = [toServer EXCEPT ![u] = Tail(@)]
  /\ LET m == Head(toServer[u]) IN
       \/ /\ gone \/ (m.kind = "move" /\ turn # u)
          /\ UNCHANGED <<match, gone, toClient>>
       \/ /\ ~gone /\ m.kind = "move" /\ turn = u
          /\ Play(u, m.cell)
       \/ /\ ~gone /\ m.kind = "resign"
          /\ gone' = TRUE
          /\ Send(<<End>>)
          /\ UNCHANGED match
  /\ UNCHANGED <<ending, ui>>

\* checkTurnTimeouts runs beside the router: it announces the end of a match
\* and removes it later.
TimeoutAnnounced ==
  /\ turn # Nobody /\ ~gone /\ ~ending
  /\ ending' = TRUE
  /\ Send(<<End>>)
  /\ UNCHANGED <<match, gone, toServer, ui>>

TimeoutRemoves ==
  /\ ending
  /\ ending' = FALSE /\ gone' = TRUE
  /\ UNCHANGED <<match, toServer, toClient, ui>>

-----------------------------------------------------------------------------
(* What a client shows of the other's board.                               *)

\* The cells of the rectangle with corners c and d.
Box(c, d) == {e \in Cells : /\ \A i \in {1, 2} : /\ Min({c[i], d[i]}) <= e[i]
                                                 /\ e[i] <= Max({c[i], d[i]})}
\* The hits next to c in its row (i = 1) or column (i = 2), without a gap.
HitRun(b, c, i) ==
  {d \in Cells \ {c} : d[i] = c[i] /\ \A e \in Box(c, d) \ {c} : b[e] = "hit"}

\* Mutant: the last shot stays unmarked when the ship sinks.
RevealRunOnly(b, c, t) ==
  [d \in Cells |-> IF d \in HitRun(b, c, 1) \cup HitRun(b, c, 2) THEN "sunk" ELSE b[d]]

\* A sunk ship: the runs of hits through the last shot are marked as sunk,
\* whichever ships they belong to.  Then a ship of the sunk type goes where
\* the runs begin, if all cells there are still empty, and is shot at.
Reveal(b, c, t) ==
  LET row == HitRun(b, c, 1)
      col == HitRun(b, c, 2)
      marked == {c} \cup row \cup col
      b1 == [d \in Cells |-> IF d \in marked THEN "sunk" ELSE b[d]]
      corner == <<Min({d[1] : d \in marked}), Min({d[2] : d \in marked})>>
      orient == IF row = {} /\ col # {} THEN "vertical" ELSE "horizontal"
      new == Covers(t, corner, orient)
      placed == Fits(t, corner, orient) /\ \A d \in new : b1[d] = "empty"
  IN [d \in Cells |-> IF placed /\ d \in new THEN "hit" ELSE b1[d]]

-----------------------------------------------------------------------------
(* The handlers of the messages, in the order in which they came.          *)

Message(u) == Head(toClient[u])
Arrives(u, kind) ==
  /\ toClient[u] # <<>> /\ Message(u).kind = kind
  /\ toClient' = [toClient EXCEPT ![u] = Tail(@)]
HasButton(u) == screen[u] \in {"game", "result"}

\* MATCH_READY: showScreen(SCREEN_GAME) gives the turn to both players,
\* whatever the message says, and starts the timer.
MatchReady(u) ==
  /\ Arrives(u, "ready")
  /\ screen' = [screen EXCEPT ![u] = "game"]
  /\ myTurn' = [myTurn EXCEPT ![u] = TRUE]
  /\ armed' = [armed EXCEPT ![u] = TRUE]
  /\ ticking' = [ticking EXCEPT ![u] = TRUE]
  /\ UNCHANGED <<match, fate, toServer, own, edited, shown, target>>

\* MOVE_RESULT of the own shot: the other's board, and the fire button.
OwnShot(u) ==
  /\ Arrives(u, "result") /\ Message(u).by = u
  /\ LET m == Message(u) IN
       /\ shown' = [shown EXCEPT ![u] =
                      IF m.res = "sunk" THEN Reveal(@, m.cell, m.type)
                                        ELSE [@ EXCEPT ![m.cell] = m.res]]
       /\ armed' = [armed EXCEPT ![u] = HasButton(u) /\ m.res # "miss" /\ ~m.over]
  /\ UNCHANGED <<match, fate, toServer, screen, own, edited, myTurn, target, ticking>>

\* Mutant: the server's result is drawn on the own board as it is.
TheirShotAsTold(u) ==
  /\ Arrives(u, "result") /\ Message(u).by # u
  /\ own' = [own EXCEPT ![u][Message(u).cell] = Message(u).res]
  /\ UNCHANGED <<match, fate, toServer, screen, edited, shown, myTurn, aim, ticking>>

\* MOVE_RESULT of the other's shot: Board::processShot on the own board,
\* whatever the server's result was.  Nobody fires after the last shot.
TheirShot(u) ==
  /\ Arrives(u, "result") /\ Message(u).by # u
  /\ own' = [own EXCEPT ![u][Message(u).cell] =
               CASE @ = "ship" -> "hit" [] @ = "empty" -> "miss" [] OTHER -> @]
  /\ armed' = [armed EXCEPT ![u] = @ /\ ~Message(u).over]
  /\ UNCHANGED <<match, fate, toServer, screen, edited, shown, myTurn, target, ticking>>

\* Mutant: the timer goes on in the turn of the other.
TurnUpdateKeepsTimer(u) ==
  /\ Arrives(u, "turn")
  /\ LET mine == Message(u).of = u IN
       /\ myTurn' = [myTurn EXCEPT ![u] = mine]
       /\ armed' = [armed EXCEPT ![u] = HasButton(u) /\ mine]
       /\ ticking' = [ticking EXCEPT ![u] = @ \/ mine]
  /\ UNCHANGED <<match, fate, toServer, screen, own, edited, shown, target>>

\* TURN_UPDATE, on any screen: only the own turn has a timer.
TurnUpdate(u) ==
  /\ Arrives(u, "turn")
  /\ LET mine == Message(u).of = u IN
       /\ myTurn' = [myTurn EXCEPT ![u] = mine]
       /\ armed' = [armed EXCEPT ![u] = HasButton(u) /\ mine]
       /\ ticking' = [ticking EXCEPT ![u] = mine]
  /\ UNCHANGED <<match, fate, toServer, screen, own, edited, shown, target>>

\* MATCH_END: the dialog opens (closed over the lobby, it changes nothing).
\* Messages are handled while it is open.
MatchEnd(u) ==
  /\ Arrives(u, "end")
  /\ screen' = [screen EXCEPT ![u] = IF @ = "game" THEN "result" ELSE @]
  /\ ticking' = [ticking EXCEPT ![u] = FALSE]
  /\ UNCHANGED <<match, fate, toServer, own, edited, shown, myTurn, aim>>

Handle(u) ==
  MatchReady(u) \/ OwnShot(u) \/ TheirShot(u) \/ TurnUpdate(u) \/ MatchEnd(u)

-----------------------------------------------------------------------------
(* The player, and the timer.                                              *)

\* A click on the other's board.
SelectTarget(u, c) ==
  /\ screen[u] = "game" /\ myTurn[u] /\ c \in Aims[u]
  /\ shown[u][c] = "empty"
  /\ target' = [target EXCEPT ![u] = c]
  /\ armed' = [armed EXCEPT ![u] = TRUE]
  /\ UNCHANGED <<match, fate, toServer, toClient, screen, own, edited, shown, myTurn, ticking>>

\* FIRE: the move is sent and the button disabled.  The turn flag stays.
Fire(u) ==
  /\ screen[u] = "game" /\ armed[u] /\ myTurn[u] /\ target[u] # None
  /\ Len(toServer[u]) < Outbox
  /\ toServer' = [toServer EXCEPT ![u] = Append(@, Move(target[u]))]
  /\ target' = [target EXCEPT ![u] = None]
  /\ armed' = [armed EXCEPT ![u] = FALSE]
  /\ UNCHANGED <<match, fate, toClient, screen, own, edited, shown, myTurn, ticking>>

\* SURRENDER: the screen stays as it is until the answer comes.
Resign(u) ==
  /\ screen[u] = "game" /\ u \in Quitters
  /\ Len(toServer[u]) < Outbox
  /\ toServer' = [toServer EXCEPT ![u] = Append(@, ResignMsg)]
  /\ UNCHANGED <<match, fate, toClient, ui>>

ShowLobby(u) ==
  /\ screen' = [screen EXCEPT ![u] = "lobby"]
  /\ armed' = [armed EXCEPT ![u] = FALSE]
  /\ ticking' = [ticking EXCEPT ![u] = FALSE]
  /\ UNCHANGED <<match, fate, toServer, toClient, own, edited, shown, myTurn, target>>

\* EXIT and BACK: the server hears nothing.
Exit(u) ==
  /\ screen[u] = "game" \/ (screen[u] = "placement" /\ stored[u] # None)
  /\ u \in Quitters
  /\ ShowLobby(u)

CloseResult(u) == screen[u] = "result" /\ ShowLobby(u)

\* Mutant: the timer is not restarted for the turn of the other.
TimerExpiresOnce(u) ==
  /\ ticking[u]
  /\ myTurn' = [myTurn EXCEPT ![u] = ~@]
  /\ target' = [target EXCEPT ![u] = None]
  /\ armed' = [armed EXCEPT ![u] = FALSE]
  /\ ticking' = [ticking EXCEPT ![u] = FALSE]
  /\ UNCHANGED <<match, fate, toServer, toClient, screen, own, edited, shown>>

\* onTurnTimerExpired: the client passes the turn by itself, tells nobody,
\* and starts the timer again.
TimerExpires(u) ==
  /\ ticking[u]
  /\ myTurn' = [myTurn EXCEPT ![u] = ~@]
  /\ target' = [target EXCEPT ![u] = None]
  /\ armed' = [armed EXCEPT ![u] = FALSE]
  /\ UNCHANGED <<match, fate, toServer, toClient, screen, own, edited, shown, ticking>>

Next ==
  \/ Start \/ TimeoutAnnounced \/ TimeoutRemoves
  \/ \E u \in Players :
       \/ \E f \in Fleets : Place(u, f)
       \/ Edit(u)
       \/ Serve(u) \/ Handle(u)
       \/ \E c \in Cells : SelectTarget(u, c)
       \/ Fire(u) \/ Resign(u) \/ Exit(u) \/ CloseResult(u) \/ TimerExpires(u)

Spec == Init /\ [][Next]_vars

\* The main loop of a client does not rest while a message has arrived or
\* the timer runs.
FairSpec ==
  /\ Spec
  /\ \A u \in Players : WF_vars(Handle(u) \/ TimerExpires(u))

-----------------------------------------------------------------------------
(* Properties.                                                             *)

Boards(states) == [Players -> [Cells -> states]]

\* Every variable holds a value of its type.
TypeOK ==
  /\ Server!TypeOK
  /\ {ending, gone} \subseteq BOOLEAN
  /\ toServer \in [Players -> Seq(Requests)]
  /\ toClient \in [Players -> Seq(Notices)]
  /\ screen \in [Players -> {"placement", "game", "result", "lobby"}]
  /\ own \in Boards(CellStates)
  /\ edited \subseteq Players
  /\ shown \in Boards(ShownStates)
  /\ myTurn \in [Players -> BOOLEAN]
  /\ target \in [Players -> Cells \cup {None}]
  /\ armed \in [Players -> BOOLEAN]
  /\ ticking \in [Players -> BOOLEAN]

Coming(u) == {toClient[u][i] : i \in DOMAIN toClient[u]}

\* A client lets its player shoot only in the player's own turn, or while
\* the message that the turn is the other's is on its way: its own timer,
\* which gives the turn away and takes it back without asking, never takes a
\* turn the server has given to the other.
TurnBelief ==
  \A u \in Players :
    screen[u] = "game" /\ myTurn[u] =>
      turn = u \/ Turn(Other(u)) \in Coming(u)

\* A player who sits at the game screen of a match that is over is about to
\* be told so.
GameScreenHasMatch ==
  \A u \in Players : screen[u] = "game" /\ gone => End \in Coming(u)

ShotAt == {"miss", "hit"}

\* A client that has handled all its messages shows every shot at the own
\* board, and no other; the whole board as the server has it, unless the
\* player changed the fleet after READY, of which the server does not hear
\* (ui_ship_placement.cpp:20-50, 127-149); and every shot at the
\* other's board: the misses as misses, the hits in some way (a hit shot at
\* again is drawn as a miss).  The client is not in bot mode, in which a bot
\* of its own shoots at the own board (ui_manager.cpp:1152).
BoardsFollow ==
  \A u \in Players : toClient[u] = <<>> /\ turn # Nobody =>
    /\ u \notin edited => own[u] = grid[u]
    /\ \A c \in Cells :
         /\ own[u][c] \in ShotAt <=> grid[u][c] \in ShotAt
         /\ grid[Other(u)][c] = "miss" => shown[u][c] = "miss"
         /\ grid[Other(u)][c] = "hit" => shown[u][c] # "empty"

\* The other's board shows no hit that was not one.  (ui_lobby.cpp, at the
\* reveal: "Place the sunk ship on opponent board".)
HitsShownAreHits ==
  \A u \in Players, c \in Cells :
    shown[u][c] \in {"hit", "sunk"} => grid[Other(u)][c] = "hit"

\* Again and again the player whose turn it is can shoot, or is not at the
\* game screen: the client that took the turn away by itself gives it back.
TurnReachesPlayer ==
  []<>(turn = Nobody \/ myTurn[turn] \/ screen[turn] # "game")
=============================================================================
