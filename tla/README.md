# Battleship: a TLA+ model of the client and the server

A TLA+ development beside the C++ code of the networked Battleship game: modules
that model its components, configurations with which TLC checks them on small
instances, an abstract specification of a match that the server is shown to
implement, and theorems that TLAPS proves for all instances. Paths are relative to
the repository (`src/` in `PROJECT.json`).

## 1. The system

Two programs talk over TCP with packed structs behind a header
(`common/include/protocol.h`, `common/include/messages/`).

| Part | Code | State it keeps | What it does |
|---|---|---|---|
| Server threads and connections | `server/src/server.cpp`, `client_connection.cpp` | `clients_`, a thread per connection, `handlers_mutex_`, descriptors | accepts, routes each message to its handler under `handlers_mutex_`, cleans up lost connections *without* it; one timer thread |
| AuthHandler, sessions | `server/src/auth_handler.cpp`, `database.cpp` | sessions table, `user_id_` of a connection | register, login, validate, logout |
| PlayerManager, PlayerHandler | `server/src/player_manager.cpp`, `player_handler.cpp` | `players_`: status and a raw `ClientConnection*` per user | entries, status changes and their broadcast |
| ChallengeManager, ChallengeHandler | `server/src/challenge_manager.cpp` | `challenges_` | send, accept, decline; an accepted challenge becomes a row of `matches` |
| GameplayHandler | `server/src/gameplay_handler.cpp` | `active_matches_`, `ready_players_` | placements, moves, resign, draw, timeouts, disconnects, end of match |
| Board, MatchState | `common/src/game_state.cpp` | grid, ships, counters; turn, winner | placement rules, shots, turns (used by server and client) |
| DatabaseManager | `server/src/database.cpp` | SQLite tables | rows, ratings, sessions, moves |
| ClientNetwork | `client/src/client_network.cpp` | socket, `status_`, `pending_request_`, callbacks, token | requests, receive thread |
| Session storage | `client/src/session_storage.cpp` | the file `session.txt` | the token of the auto-login (only built with `AUTO_LOGIN_ENABLED`) |
| Lobby screen | `client/src/ui_lobby.cpp` | player list, `challenge_id`, dialogs | list, challenges |
| Placement screen | `client/src/ui_ship_placement.cpp`, `ui_screens.cpp` | board, `ships_placed`, buttons | editing and sending a fleet |
| Game screen | `client/src/ui_lobby.cpp` (callbacks), `ui_manager.cpp` | two boards, `is_player_turn`, target, turn timer | shots, results, turns, end |
| Bot game | `client/src/ui_manager.cpp` | both boards, timers | cannot be started (section 7) |
| Rendering, audio, assets, password hashing | `client/src/`, `common/src/password_hash.cpp` | none that matters here | output and arithmetic |

How the parts interact: a handler runs in the thread of its connection and calls
`PlayerManager`, `ChallengeManager`, `DatabaseManager` and `GameplayHandler`
directly. All handlers exclude each other; the timer thread and the cleanup of a
lost connection exclude nobody, and share `active_matches_`, the `MatchState`
objects, `players_` and the database with the handlers. On the client the receive
thread hands most messages to the GTK main loop with `g_idle_add`, where clicks,
timers and messages take turns; the callbacks of the player list and of a logout
run in the receive thread itself. A dialog is a main loop inside the main loop.

What is hard here:

* three kinds of threads can end one match, each in several steps with unlocks in
  between, and a second placement can replace the match object meanwhile;
* a status is set under a lock and broadcast after it; entries hold raw pointers
  to connections that another thread closes;
* a descriptor is closed before its entry leaves `clients_`, so that `accept` may use
  its number again in between; the router sends while it holds its mutex;
* answers carry no number: one slot, `pending_request_`, says what an answer is for;
  two challenge dialogs share one id;
* the server may stop between the statement of a handler and its answer, and keeps
  nothing but the tables;
* two timers per match (20 s on the client, 60 s on the server) that do not know of
  each other;
* four copies of the two boards, and flags beside the boards that are meant to
  agree with them.

What makes each part correct: a match ends with one verdict, which is justified,
told and recorded, and frees both players; a match at rest can be played; an
overdue turn and an abandoned match go away; counters and winner agree with the
grids; an accepted challenge makes one match, a lost connection leaves no entry;
every entry of `clients_` is served and the router gets free; a client is logged in
only as somebody the server accepted, and what it was told of its session stays
true; a dialog answers its own challenge; the fleet that is sent is a whole one; a
client shows what the server has, and never takes a turn that is not its player's.

## 2. Modules

| Module | Models | Used by |
|---|---|---|
| `Board` | geometry of ships | `MatchGame`, `Placement`, `GameScreen` |
| `MatchGame`, `MatchGame_proofs` | one match with its boards, no threads: `validateShipPlacement`, `loadShips`, `processMove`, `processShot` | `GameScreen` (as `Server`), `GameScreen_proofs` (as `Game`) |
| `MatchLife` | what the server promises of a match: the abstract specification | `MatchServer` (as `Life`) |
| `MatchObject` | what a match object is to the threads: takes moves or not, turn, ship cells left | `MatchServer`, `MatchGame` (as `Object`) |
| `MatchServer`, `MatchServer_proofs` | the life of match objects in the server, with all threads; theorems about it, and that it implements `MatchLife` | |
| `Lobby`, `Lobby_proofs` | `players_`, challenges, threads, the lists clients show | |
| `Connections`, `Connections_proofs` | accept, the threads of clients, the router's mutex, descriptors | |
| `Sessions`, `Sessions_proofs` | accounts, sessions, tokens and their copies, with restarts of server and clients | |
| `ClientCalls`, `ClientCalls_proofs` | the client's requests, receive thread, main loop, dialogs, up to the placement screen | |
| `Placement`, `Placement_proofs` | the placement screen | |
| `GameScreen`, `GameScreen_proofs` | two clients in one match, their messages, the server's handlers around `MatchGame` | |
| `MC...` | the instances for TLC | |

`PROJECT.json` maps each definition to the lines it stands for. The main
correspondences:

**MatchServer.** Variables are the tables `matches` and `match_boards` (`row`,
`placed`), `ready_players_`, `active_matches_`, a `heap` of `MatchState` objects
(a `shared_ptr` keeps one alive after its removal), the statuses, the connections,
and for each thread its `pc`, its locals (`job`) and the matches it collected
(`todo`). `told`, `resigned` and `overdue` are histories: the verdicts announced, who
asked to resign, and the matches of which a turn ran out. A step is what a thread does
between two locks of other objects or two database statements. `ShipPlacement`,
`CheckReady` and `StartMatch` are the three parts of `handleShipPlacement`;
`MoveMiss` and `MoveHit` are `handleMove`; `Resign`, `AcceptDraw`, `TimerScan`,
`TimerNext`, `CleanupScan` and `CleanupNext` choose a match to end, and `Announce`,
`Record`, `Free`, `Erase`, `Unready` end it, in the order that the thread in
question uses (a cleanup records first). A board is the number of ship cells
afloat; turn numbers are left out. A request may come from a user who does not play in
the match it names, since `handleResign` and `handleDrawResponse` do not look. A LOGIN on
a connection that is logged in changes its user (`Switchers` bounds which connections
do that in a run). `AcceptChallenge` has `respondToChallenge` in one step; its two status
updates are apart in `Lobby`.

**MatchLife.** A game is unborn, playing or over. While it is played each party may
reach a verdict (`Decide`); verdicts are announced and kept in any order, by nobody
but those who reached them, and a game is closed (`Close`) only after its players
were told one. Under the mapping of `MatchServer` a game is a `MatchState` object,
playing while `active_matches_` has it; a verdict is decided when a thread has chosen
a match to end, and kept when the row is written. This is the whole of what the
competing threads amount to. It holds where clients place their ships once
(`Resubmit = FALSE`): `createMatch` replaces a running match without telling anybody.

**MatchObject.** `MatchServer` leaves out the boards and counts ship cells,
`MatchGame` leaves out the threads. `MatchObject` is what they have in common: an
object is started once (`Begin`), handed over by a shot that finds no ship (`Pass`),
and loses one cell of the other fleet by a hit, which ends the play when no cell is left
(`Strike`). In `MatchGame` the cells left are the places of the fleet (`Segments`)
without those that were hit; a ship that `loadShips` dropped keeps all of its places, as
`ships_remaining` keeps counting it. In `MatchServer` they are the field `afloat`.

**MatchGame.** `Place`, `Start`, `Miss` and `Hit` with the grids, ships and counters
of both boards. The placements are all those the validator accepts, overlapping
ones included, and `Kept` says which of them `loadShips` can keep.

**Lobby.** The same threads, at the calls of `PlayerManager` (`work`), each with a
locked change (`Set`), a second read after the unlock (`Tell`) and the sends to one
client after another (`Send`). A match is only its start and its end; the races of
ending it are in `MatchServer`. A connection is named by its object; `found` is the
connection that `removeClient` of its thread will find under its number. `Reuse` makes
that another one, as `Connections` shows in single system calls. `Login` may come on a
connection that is logged in already, as another user too: `user` changes, and the entry
of the first stays. A challenge may be answered from any connection of its target.

**Connections.** A `ClientConnection` object per accepted socket, with its
`socket_fd_` and `connected_`; the kernel's table of descriptors; `clients_` by
number; and for each thread its step, its two shared pointers and the objects it
has still to send to. `Accept` and `Register` are the two halves of
`acceptConnections`; `LookUp`, `Receive`, `ReceiveEnds`, `Route`, `Spread`, `Release`
are `handleClient` with the router; `Erase` and `Leave` are `removeClient`. `send` and
`disconnect` are split where a descriptor is a plain number: `SendData` looks at
`connected_`, `SendCall` enters the system call with whichever socket has the number
by then, `SendDone` and `SendFails` end it; `Drop`, `CloseFd`, `ClearFd` are
`disconnect`. A message is one unit and a buffer takes `Room` of them.

**Sessions.** The tables `users` and `sessions` are durable after each step, `Restart`
loses the rest of the server. `Register`, `Login`, `Validate`, `Logout` and `Refused`
begin a handler with its database statement, `Authenticate`, `Unlist`, `Answer`,
`List` are the rest of it. On the client `RegisterAnswered`, `LoginAnswered`,
`LogoutAnswered` and `ValidateAnswered` are the branches of `handleAuthResponse` with
the file of the auto-login, and `Misread` is an answer to another request than the
pending one. The callback of EXIT leaves the file, so a stored token outlives the logout.
A client in `Hasty` belongs to a user who clicks again before the answer: a second LOGIN,
with another name, may then be on its way. The others wait. `closed` and `leaving` are
histories: the tokens a client was told are logged out, and those a program has sent a
logout with.

**ClientCalls.** A click fills `pending_request_` and the callback (`SetRequest`) and
sends in a second step; `Receive` is one message in the receive thread, `RunIdle` one
job of the main loop, `CloseNotice` and `CloseChallenge` end the innermost dialog.
`challenge` and `onScreen` are the two places where the id of a challenge is kept.
A new lobby leaves a job that clicks its RELOAD button; if the screen is replaced before
that, the job is still in the queue and finds no button (`StaleReloads`, `RunStale`).
`Serve` and `ServerOffers` are the server as this client sees it. `session` says
whether the session of its login is valid: a logout ends it, even one whose answer the
client missed, and so does time (`SessionExpires`). `ServePlacement` answers nothing
without it.

**Placement.** One step per click or message. `overrun` says that `placeShip` wrote
behind the array `ships`. Random placement is any placement of all ships; its
limit of 1000 attempts is left out.

**GameScreen.** `toServer` and `toClient` are the messages on a connection, in their
order. `Place` is READY, and until MATCH_READY the board can be changed (`Edit`), of
which the server hears nothing; `edited` has the players whose board is not the fleet
they sent, and is no state of the code. `Serve` is a whole handler (the router is one
thread), `TimeoutAnnounced` and `TimeoutRemoves` are the two ends of
`checkTurnTimeouts`. On the client, `MatchReady`, `OwnShot`, `TheirShot`, `TurnUpdate`
and `MatchEnd` are the callbacks, `Reveal` is what the client infers of a sunk ship,
`TimerExpires` is `onTurnTimerExpired`, and the rest are clicks. EXIT leaves the
messages coming, so the callbacks run on the lobby screen too.

## 3. Runs

| Run | Instance | Shows |
|---|---|---|
| `MatchRace` | 2 users, 3 connections (symmetric) that may change their user, 1 match object, fleets of 1 cell, draws and resigning | `RecordedWinnerAnnounced`, `FreedAfterEnd`, `VerdictsJustified`, `NoSilentRemoval`, `RestingMatchesPlayable`, `NoSecondEnd` while moves, draw, timer and cleanups compete |
| `MatchLive` | 2 connections, one may log out, fairness | `OverdueTurnEnds`, `NoOrphanMatch`, `ImplementsLife` |
| `Game` | 2 x 2 board, a ship of 2 and one of 1, all placements and games | `CountersMatchGrid`, `WinnerSankFleet`, `ImplementsObject` |
| `LobbySafe` | 2 users, 2 connections that may be lost, of one the descriptor may be used again, 2 challenges | `EntryOwnerAlive`, `AcceptedOnce`, `InGameHasMatch` |
| `LobbyLive` | 1 challenge, 1 client with the list open, 1 that may be lost and its descriptor used again, fairness | `LostPlayerForgotten` |
| `Conns` | 2 clients, 2 descriptors, a buffer of 1 message, fairness | `EntryServed`, `RouterReleased`, `LostErased` |
| `Accounts` | 1 client with the auto-login whose user waits for answers, 1 whose user does not, 2 users, 2 tokens, restarts | `OwnSessionKept`, `LogoutFinal`, `EntryOfConnection` |
| `Calls` | 2 names, 2 challenges received, 4 clicks, a session that may expire, fairness | `AuthJustified`, `AnswersOwnChallenge`, `LatestAnswerable`, `CallResolved` |
| `Place` | 2 x 2 board, 3 ships | `SentFleetWhole`, `GridIsFleet`; no deadlock |
| `Screen` | 2 x 2 board, one ship each, up to 4 messages under way, one player may surrender or leave, one may edit the board after READY, fairness | `TurnBelief`, `GameScreenHasMatch`, `BoardsFollow`, `TurnReachesPlayer` |
| `LobbyGhost`, `ScreenGhost` | see section 6 | a property that a comment states and the code breaks |

`TypeOK` is checked in one run of each module.

Why the bounds are enough to see the interesting cases. Three connections give one
player a second login while both of the others are lost, and make five threads that
can be at work on one match. A fleet of one cell is sunk by any hit, which ends the
match; a hit that does not end it is in `Game`, and in the proofs, which hold for all
fleets. Matches whose object is replaced need two objects (`Resubmit = TRUE`,
`MaxObj = 2`): the theorems of section 5 cover them for every instance. Two
challenges are needed for a player with more than one match. With two connections
and two descriptors the number of the first can be given to the second at every
point of the first one's removal, and a buffer of one message is full after one
that is not read. Two tokens let a user have two sessions, or one before and one
after a restart (three take too long for a run that is repeated often). In `Accounts` the
client that does not wait can hurry in every way while the other does not, so that the
run shows what each can expect of the other. Four clicks are a login, a
request of another kind, and two more before the answers are read; two challenges
make two dialogs, in either order of their answers. On the 2 x 2 board the ships of
2 and 1 can overlap, touch, and be dropped by `loadShips`, and a ship can be hit
without sinking. In `Place` all ships fit and get in each other's way. In `Screen`
two shots of a client can be under way (one sent, one answered and not yet handled);
one player hits and sinks, and misses by shooting twice at a cell, the other shoots
at water. `ScreenGhost` needs three ships side by side on a 3 x 3 board.

Deadlock is checked in `Place`. In the other runs the system may really stop: all
clients may leave the server alone, and a match that is over stays over.

## 4. Fairness

* `MatchServer`, `Lobby`: weak fairness for each thread that is inside the server's
  own code (`Fairness`), because the operating system runs it and no lock of the
  model is held for ever, and for the passing of time in a turn. Nothing is assumed
  of clients: they may send nothing, and connections need not be lost.
* `Connections`: weak fairness for the accept thread and each client's thread, and for
  the clients' reading of what they are sent (`receiveLoop` reads all the time): a
  client that is connected and never reads does hold up the router for good, by the
  code. Strong fairness for two steps that others keep disabling: taking
  `handlers_mutex_` (`Route`) and finding room in a buffer (`SendDone`) do not always
  go to somebody else.
* `ClientCalls`: weak fairness for the GTK thread's sending of a request it has begun,
  for the receive thread, and for the server's answers. Nothing is assumed of the
  player, of other players, or of when the server closes.
* `GameScreen`: weak fairness for the GTK main loop of each client, which does something
  while a message has arrived or the timer runs; which of the two it takes first is
  left open. Nothing is assumed of players or of the server.

## 5. Proofs

Each proof module assumes only the constants' assumption of its model (any number of
users, connections, matches, objects, tokens, descriptors).

| Module | Theorem | Statement |
|---|---|---|
| `MatchServer_proofs` | `TypeCorrect` | `Spec => []TypeOK` |
| | `EndsOncePerThread` | `Spec => []NoSecondEnd`: no thread announces the end of one match object twice |
| | `RestingPlayable` | `Spec => []RestingMatchesPlayable`: when no handler runs, a match of `active_matches_` is started, has the turn of one of its players, and two fleets afloat |
| | `VerdictsAreJustified` | `Spec => []VerdictsJustified`: a normal end, a resignation, a disconnection or a timeout that players are told has its reason in the match (not: that it was the loser's turn which ran out, see section 6) |
| | `WinnersAreAnnounced` | `Spec => []RecordedWinnerAnnounced` |
| | `PlayersBecomeFree` | `Spec => []FreedAfterEnd` |
| | `NothingIsSilent` | `~Resubmit /\ Spec => []NoSilentRemoval` |
| | `MatchLifeImplemented` | `~Resubmit /\ Spec => ImplementsLife`: the refinement |
| | `ObjectsPlayed` | `Spec => ObjectsArePlayed`: each match object takes only steps of `MatchObject` |
| `MatchGame_proofs` | `TypeCorrect`, `CountersAgree`, `WinnerSankAll` | `Spec => []` of `TypeOK`, `CountersMatchGrid`, `WinnerSankFleet` |
| | `ShotsDisciplined` | `Spec => ShotDiscipline`, an action property: a shot changes one cell of the other's board at most, and a hit keeps the turn |
| | `ObjectImplemented` | `Spec => ImplementsObject`: the refinement of `MatchObject` |
| `GameScreen_proofs` | `TypeCorrect`, `TurnsBelieved`, `GameScreensHaveMatch`, `BoardsFollowServer` | `Spec => []` of `TypeOK`, `TurnBelief`, `GameScreenHasMatch`, `BoardsFollow` |
| | `PlaysMatchGame` | `Spec => Server!Spec`: what the two clients do to the match is a behaviour of `MatchGame` |
| `Placement_proofs` | `TypeCorrect`, `GridIsItsFleet`, `SentFleetsWhole` | `Spec => []` of `TypeOK`, `GridIsFleet`, `SentFleetWhole` |
| `ClientCalls_proofs` | `TypeCorrect`, `AuthAlwaysJustified`, `AnswersGoHome`, `LatestIsAnswerable` | `Spec => []` of `TypeOK`, `AuthJustified`, `AnswersOwnChallenge`, `LatestAnswerable` |
| `Lobby_proofs` | `TypeCorrect`, `ChallengesAcceptedOnce`, `PlayersInGameHaveMatch` | `Spec => []` of `TypeOK`, `AcceptedOnce`, `InGameHasMatch` |
| | `EntriesAlive` | `Spec => []EntryOwnerAlive`: an entry whose connection is gone is one of the two kinds of section 6 (a later login on the connection as another user, a descriptor used again), and there is no third |
| `Connections_proofs` | `TypeCorrect`, `EntriesServed` | `Spec => []TypeOK`, `Spec => []EntryServed` |
| `Sessions_proofs` | `TypeCorrect`, `SessionsKept`, `LogoutsFinal` | `Spec => []` of `TypeOK`, `OwnSessionKept`, `LogoutFinal`, for clients that wait for answers and those that do not |
| | `EntriesOfConnections` | `Spec => []EntryOfConnection`: the entry of a client that waits for answers is that of its connection's user, whatever the others do |

None of the invariants is inductive as it stands.

**MatchServer_proofs.** A thread could announce an object again if it found the
object in `active_matches_` again, so the argument has to say what else can put it
there and who will take it out:

* `ObjectsInv`: an object serves one match, and object numbers are handed out in
  order, so an object that is removed never comes back;
* `JobsInv`: a thread that ends a match holds an object that was, and if it is still
  active is, the object of that match;
* `ToldInv`: a thread that has announced an object which is still active is past its
  announcement and on its way to remove it, so it cannot be at the choice of a match;
* `RoomInv`, `LinkInv`: `CheckReady` has room for the object it creates (a bound of
  the model), and the thread of a connection that is not lost is at no cleanup.

`EndInv` is their conjunction with `TypeOK`. `InitEnd` and `StepEndInv` show it
inductive, with one step for each action and lemmas for what the actions share;
`EndsOncePerThread` follows from `ToldInv`. For `RestingPlayable`, `PlayInv` allows
one exception to playability, the match that the router is starting or ending:
threads other than the router never change a live match object, they only remove
it (`KeepPlay`), and a second placement that replaces the object is the router's own
(`ReplacePlay`).

Its second part, about what is announced, builds on `EndInv` and `PlayInv`:

* `AnnouncedInv`: a thread that has still to write or free has announced its
  verdict, unless it is a cleanup, which writes first;
* `CleanupInv`: the thread of a lost connection deals with matches of its user only,
  the ones it has collected and the one it is at;
* `VerdictInv`: not only what was announced but what a thread is about to announce
  is justified; for a normal end this needs that the fleets of an object that no
  longer takes moves stay as they are (`SupportedStays`);
* `LateInv`: the turns that ran out, and the matches the timer has collected for it, are in
  `overdue`; that and `resigned` only grow (`PastStays`, `KeepLate`);
* `FreedInv`: a player who is `IN_GAME` has a match that goes on, or a thread that will
  free the player; the delicate step is a match whose row is completed by one thread
  while another has yet to free its players;
* `OnceInv`, `OverInv` (for `~Resubmit`): a match has one object, and one that is no
  longer active was told a verdict.

`StepImplements` then maps each step to one of `MatchLife`: choosing a match to
`Decide`, `CheckReady` to `Begin`, the announcement, the record and the removal to
`Announce`, `Keep` and `Close`, the second removal of an object and all others to a
stutter.

`ObjectsPlayed` needs in addition that the object which the router starts is as
`createMatch` made it, even if a cleanup or the timer ran in between (`StartInv`, which
rests on `FreshInv`: nothing touches an object before it is created). With
`ObjectImplemented` it justifies that `MatchServer` plays with counted cells instead of
boards.

**Connections_proofs.** `EntryServed` needs to know only which threads are not done
with their number: `Control` ties the step of a thread to the one it comes back to
when it has sent all, and gives it a number and an object where it uses them;
`AcceptInv` says that the thread of a socket begins with its entry, not before. The
crucial cases are `Register`, which may replace an entry whose descriptor was closed
and brings a thread of its own, and `Erase`, which may take out an entry that is not
its own: the entry is then gone, and no thread has to answer for it.

**MatchGame_proofs.** `FleetInv` says what the counters rest on: the ships that
`loadShips` kept have cells, share none, and are what the grid shows. A hit then adds a
cell to one ship only (`HitCount`), and sinks it exactly if no cell is left. `OverInv`
ties the winner to a fleet of which no ship remains, and `IdleInv` has the boards before
the start. That a ship has no more cells than its length (`CoversCount`) bounds the hit
counters.
For `ObjectImplemented`, `PlacedInv` has each ship where the stored placement puts it,
so that a cell of a ship that was kept is one place of the fleet and no other
(`CellOfFacts`). A hit then takes away exactly one place, and `EmptyInv` ties the end:
no place is left exactly if the fleet was loaded whole and no ship cell is on the grid,
which by `WinnerSankFleet` is when somebody has won.

**GameScreen_proofs.** The server's side of a match is `MatchGame`: `PlaysMatchGame` maps
each step to one of it or to a stutter, and the invariant of `MatchGame_proofs` comes
with it (`TypeInv`). That fleets are disjoint, which `ScreenAssumption` says of
`Fleets`, is what `SentFleetWhole` proves of the client that sends them. The rest is
about the queue of messages to a client, whose ends move (`...Sent`, `...Tail`):

* `ReadyInv`: MATCH_READY is the first message of a match, and a turn follows it;
  `TurnInv`: the last turn in a queue, or if there is none the turn the client
  believes in, is the server's, and a timer that runs has the turn; `EndInv`: a client
  that is at the game screen of a match that is over has the end in its queue.
  Together they are `ScreenInv`, from which `TurnsBelieved` and
  `GameScreensHaveMatch` follow.
* `ResultInv`: a result on its way is not older than the server's grid; `OwnInv` and
  `ShownInv`: a board differs from the server's grid only in cells whose result is in
  the queue. The delicate step is a ship that sinks: `Reveal` guesses its cells from
  the hits around, and the argument needs of the guess only that it empties no cell
  and turns no miss into a ship (`RevealFacts`). `BoardInv` has them all. A board that was
  edited follows the server only in its shots (`EditFollows`, `ShotsShown`), since a
  result on its way may be for any cell; `EditInv` says that while the
  placement screen is open MATCH_READY is still in front of the queue, so that every shot
  the server has taken is behind it: whatever is drawn, the results are to come.

**Placement_proofs.** The flags and the ships are changed by different lines, so what
READY sends follows from what ties them: `FlagsInv`, a type marked for a match has a
ship on the board. Placing a type twice keeps it, and so does removing one of the two,
which clears the flag. READY then counts: every type is among the ships, and the array
has as many places as there are types, so each is there once (`FS_Surjection`).
`WithoutOne` and `RemoveOne` say what is left of an array and of its cells when
`removeShip` has closed the gap; since ships share no cell, the cells given back are
those of the ship that went.

**Lobby_proofs** looks at the calls of `PlayerManager` that are due (`Due`), as a set
for each thread: which one comes first does not matter. `CallInv` says what such a call
may do: only the router adds an entry or makes a player `IN_GAME`, and while it does, a
disconnect has to wait for the handler of that connection, and the match cannot start,
let alone end. `OwnerInv`: a connection that has an entry of the user it is logged in as,
and that its own thread will find in `clients_`, is there, or is lost and its thread is to
remove the entry (`Kept`). A login as another user takes an entry out of this for good,
and so does `Reuse`; the delicate steps are those that could bring one back:
`addPlayer`, which names the connection that is being served, and a login as the user
of an old entry, which adds it again. `GameInv`: a player who is
`IN_GAME` has a match that has not ended, or a call that changes the status is due; the
delicate step is `Disconnect`, which ends several matches at once and has one call for
each opponent. `ChallengeInv`: a challenge keeps its number when it becomes a match, and
no other gets it.

**Sessions_proofs.** `JobInv` and `WireInv` say what may be on its way, for every
client. A client that waits for answers has one request, answer or handler at a time,
and the slot says which (`PipeInv`); of a client that does not wait nothing is known but
that a logout in its pipe has its token in `leaving` (`LeavingInv`). `TokenInv` says
that a token is known to a client, a message or a handler only after it was made, and to
one client at a time; `SessionInv` that a session a client knows of has its row unless
it expired; and of clients that wait, `LogoutInv` that a logout that is on its way names
the session of its connection's user, so that it removes the entry of that user;
`ConnInv` whom a connection stands for; `ListingInv` how far a client can get while
`addPlayer` is due after the answer; `UnlistedInv` that a client which is logged out is
not in the player list, so that a new login on its connection leaves no entry of the old
user behind.

**ClientCalls_proofs.** Of the three queues a challenge goes through (messages, jobs,
dialogs) the argument only needs the numbers of the challenges in them (`Nums`, `InSeq`):
each queue is sorted (`SortedInv`), and a challenge is in one place at a time, older ones
further than newer ones (`PlacesInv`). Then the innermost dialog is the newest, and
`IdsInv` says when the two ids are its own: always, unless a dialog that was opened after
it has been closed, and then they are 0. So what is sent is its own id or nothing. For
the login, `GoodMsgs` says that a login on its way that succeeds names a user whom the
server has accepted, and `deserialize` refuses every other answer in that slot.

Only model-checked, on the instances of section 3: the liveness properties
(`OverdueTurnEnds`, `NoOrphanMatch`, `LostPlayerForgotten`, `RouterReleased`,
`LostErased`, `CallResolved`, `TurnReachesPlayer`). Liveness and `ENABLED` are out of
this prover's reach, and so is what a function that recurs over data computes for
every input.

## 6. Where the code and its comments disagree

Two runs check a sentence of the repository that the code does not keep:

* `LobbyGhost` (`OnlineListed`). `player_manager.h:18`: "Track online players and
  their status". `removeClient` (`server.cpp:357`) removes by user id: a user who has
  logged in again loses the new entry to the cleanup of the old connection, and is
  logged in without being listed.
* `ScreenGhost` (`HitsShownAreHits`). `ui_lobby.cpp:598`: "Place the sunk ship on
  opponent board". When ships touch, the place that is guessed from the hits around
  the last one is wrong, and water is drawn as a ship that was hit.

Other properties are stated in the modules and are in no run, because TLC finds a
counterexample; naming one as the `INVARIANT` of the module's cfg shows it:

* `Lobby!DisconnectedUnlisted` (with a connection in `Viewers`). `test_disconnect.cpp:4`:
  after a disconnect "other clients remove them from the lobby list". A list that
  `handlePlayerListRequest` (`player_handler.cpp:39`) read before the removal can be
  sent after the broadcast, and puts the player back.
* `Placement!PlacedOnce`. `ui_ship_placement.cpp:72`: "gray out ship buttons for placed
  ships". The selection stays on the last type and `placeShipAt` does not look at
  `ships_placed`: a click places the type again, behind the end of `ships`.
* `Connections!FarewellSaid`, `Connections!WritesToOwn`. When a send or a receive fails,
  `disconnect` closes the descriptor at once, and `accept` may return the same number
  before `removeClient` runs: the new client replaces the entry, the old thread then
  removes the new client, and nothing ever removes the old user from `PlayerManager`
  or says that it is offline. A send that read the number before the close writes to
  the newcomer. (`Lobby!Reuse` has this as a step, and `EntryOwnerAlive` excepts it.)
* `Sessions!AutoLoginPlays`. After an auto-login `client_network.cpp:399` keeps the
  username where the token belongs: moves and placements are refused without an
  answer, and a logout leaves the real session. A logout also leaves the file
  (the callback of EXIT, `ui_lobby.cpp:236`, only shows the login screen; nothing calls
  `handleLogoutResponse`). The build leaves the auto-login out (`AUTO_LOGIN_ENABLED` is 0).

Met while modelling, with no property of their own:

* *Matches.* The turn timer reads the player whose turn it is after it unlocked
  `matches_mutex_` (`gameplay_handler.cpp:559`): if a move gets in between, the one
  whose turn has just begun loses by `END_TIMEOUT`. An agreed draw calls `endMatch`
  with winner 0 (`gameplay_handler.cpp:486`), which the foreign key on `winner_id`
  refuses: the row never ends, and neither do those of matches that ran when the
  server stopped. `validateShipPlacement` accepts ships that overlap; `loadShips`
  (`gameplay_handler.cpp:244`) then drops one, and that fleet can never be sunk.
* *Challenges.* `challenge_manager.cpp:136` promises the challenger the first turn;
  `gameplay_handler.cpp:262` draws lots. `challenge_manager.h:25` says challenges
  expire after 60 s; nothing calls `checkExpiredChallenges`, and nothing removes those
  of a player who has left. A challenge that `sendChallenge` refuses
  (`challenge_manager.cpp:34`) is answered by a header whose length was never set.
  `next_challenge_id_` starts at 1 again with the server.
* *Requests of the client.* A LOGIN that is followed by a REGISTER, or a logout by a
  reload, before the answer has come mixes up the answers. `handleLogin` does not ask
  whether the connection is logged in: two quick logins with different names leave the
  entry of the first user in `players_`, with a connection that is the second's. When the
  connection ends, only the second is removed, and the entry keeps a pointer to a freed
  object (`Lobby!EntryOwnerAlive` and `Sessions!EntryOfConnection` except just this).
  `handleShipPlacement` does not answer without a valid session
  (`gameplay_handler.cpp:116`): the slot of the request waits until another one takes it.
  Closing the notice of a registration puts a player who is logged in by then back on
  the LOGIN screen. FIGHT during a refresh leaves RELOAD disabled. A logout whose
  answer meets a queued MATCH_START leaves a logged-out player on the placement screen.
* *Dialogs.* The second of two challenge dialogs clears both ids, so that the answer of
  the first is never sent. A challenge or MATCH_START that arrives before the lobby
  was first opened is lost. The list callback works on widgets in the receive thread
  (`ui_lobby.cpp`) and may use those of a lobby that was left.
* *Sessions.* A DELETE that fails at a logout is answered as a success
  (`auth_handler.cpp:217`). `cleanupExpiredSessions` and `deleteUserSessions` have no
  caller: rows of sessions that are not asked for again stay.
* *Connections.* After an orderly close `receiveLoop` (`client_network.cpp:227`) looks
  at an `errno` that `recv` did not set, and spins if it was `EAGAIN`. `sendMessage`
  writes header and payload with two calls and no lock. The client does not handle
  SIGPIPE. `~Server` deletes `gameplay_handler_` twice.
* *Screens.* The board can still be edited after READY was acknowledged; the server
  keeps the first placement it stored, and the player then sees a board that is not the
  one played on (`GameScreen!BoardsFollow` promises the shots of such a board only). The
  fire button is disabled until the result (`ui_manager.cpp:989`), but aiming at another
  cell enables it: two shots can be under way. A second shot at a cell that was hit is
  shown as a miss and costs the turn. The game callbacks never look at `match_id`, and
  `showScreen` (`ui_manager.cpp:326-332`) leaves `turn_indicator` and the statistics
  labels pointing at destroyed widgets.

## 7. Not modelled, and why

* **Data.** Names, ratings, passwords, message layout, turn numbers, times: no
  property is about them. Tokens are new whenever one is made.
* **Framing.** A message is one unit; the halves of two concurrent sends can mix, and
  every property of what is received would only say so.
* **Bot game.** It cannot be played: the game screen is shown only by MATCH_READY
  (`ui_lobby.cpp:478`), and READY always sends the placement to the server. What is
  left is a flag: PLAY VS BOT and EXIT lead to the lobby with `is_bot_mode` set, and
  in a match that starts from there the end of the client's own turn timer
  (`ui_manager.cpp:1152`) makes the bot shoot at the player's own board. `GameScreen`
  has matches with the flag off, and `BoardsFollow` is about these only.
* **Ratings.** `sendMatchEnd` reads, computes and writes them without a transaction:
  two ends at the same time lose an update, in two steps that need no model.
* **Draw offers, rematches, expiry of challenges.** Draw offers are passed on without a
  change of state, rematches are stubs, and the expiry has no caller.
* **Start and stop of the server** as steps: `Sessions` has what a restart loses.
* **Random placement's limit** of 1000 attempts: it is practically never reached,
  and only leaves a fleet short that READY then refuses.
* **Rendering, audio, assets, password hashing**: output or computation without state.

## 8. Plan

* `GameScreen` with a second match, whose messages meet those of the first; its state
  space is already the largest, so this needs a smaller match than the 2 x 2 one.
* `is_bot_mode` as a state of `GameScreen`, to say what a match shows with it.
* A refinement from `Connections` to the step `Reuse` of `Lobby`.
