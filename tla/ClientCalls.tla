---------------------------- MODULE ClientCalls ----------------------------
(***************************************************************************)
(* The client's requests and their answers: ClientNetwork                  *)
(* (client/src/client_network.cpp) with the screens that use it, up to the *)
(* placement screen (ui_screens.cpp, ui_lobby.cpp, ui_manager.cpp).        *)
(*                                                                         *)
(* Two threads share ClientNetwork.  The GTK thread makes the requests; a  *)
(* request first fills pending_request_ and a callback, under              *)
(* callback_mutex_, and then sends (SetRequest, SendRequest).  The receive *)
(* thread takes one message after another (Receive...) and runs the        *)
(* callback: most of them leave a job for the main loop (g_idle_add), but  *)
(* those of the player list and of a logout work on the widgets at once.   *)
(* A dialog is a main loop inside the main loop, so dialogs form a stack.  *)
(*                                                                         *)
(* There is one pending_request_ for all kinds of requests, and answers    *)
(* carry no number: AUTH_RESPONSE is read as the answer to whatever is     *)
(* pending, and only the size of its payload tells the kinds apart.        *)
(*                                                                         *)
(* The server is what this client sees of it: one connection, its user,    *)
(* and its entry in PlayerManager.                                         *)
(***************************************************************************)
EXTENDS Naturals, Sequences

CONSTANTS
  Users,         \* the names the player may enter
  Nobody,        \* user id 0
  MaxChallenge,  \* bound on the challenges this client receives
  MaxClicks      \* bound on the clicks that make a request

ASSUME CallsAssumption ==
  /\ Nobody \notin Users
  /\ MaxChallenge \in Nat /\ MaxClicks \in Nat

VARIABLES
  status,     \* status_
  userId,     \* user_id_
  pending,    \* pending_request_
  call,       \* the request the GTK thread is about to send
  listHere,   \* player_list_callback_ belongs to the lobby on the screen
  receiving,  \* the receive thread is in receiveLoop
  idle,       \* jobs added with g_idle_add
  screen,     \* current_screen
  reload,     \* the RELOAD button of the lobby is sensitive
  dialogs,    \* nested gtk_dialog_run, the innermost first
  challenge,  \* pending_challenge_id_
  onScreen,   \* "challenge_id" of current_screen
  lobbySeen,  \* createLobbyScreen has set the callbacks of ClientNetwork
  clicks,     \* requests clicked so far
  sock,       \* "none", "up" or "closed" (by the server)
  toServer,   \* requests on their way
  toClient,   \* messages on their way
  peer,       \* the server: user_id_ of the connection
  listed,     \* the server: the connection has its entry in PlayerManager
  session,    \* the server: the session of the client's login is valid
  offered,    \* the server: number of challenges sent to this client
  invited,    \* the server: challenges of this client nobody has answered
  accepted,   \* history: the users whose login the server has accepted
  answers     \* history: the answers sent to challenges

netVars  == <<status, userId, pending, call, listHere>>
guiVars  == <<screen, reload, dialogs, challenge, onScreen, lobbySeen>>
srvVars  == <<peer, listed, session, offered, invited, accepted>>
vars == <<netVars, receiving, idle, guiVars, clicks, sock, toServer, toClient,
          srvVars, answers>>

-----------------------------------------------------------------------------
NoCall == [kind |-> "NONE", user |-> Nobody]
AuthKinds == {"REGISTER", "LOGIN", "LOGOUT"}
Answered == AuthKinds \cup {"PLAYER_LIST", "SHIP_PLACEMENT"}
Kinds == Answered \cup {"SEND_CHALLENGE"}
Screens == {"LOGIN", "REGISTER", "MAIN_MENU", "LOBBY", "SHIP_PLACEMENT"}
ChallengeIds == 0..MaxChallenge

\* Requests, messages, jobs and dialogs, each with the data it needs.
Req(kind, u) == [kind |-> kind, user |-> u, id |-> 0, yes |-> FALSE]
Response(id, yes) == [kind |-> "CHALLENGE_RESPONSE", user |-> Nobody,
                      id |-> id, yes |-> yes]
Reqs == [kind : Kinds \cup {"CHALLENGE_RESPONSE"}, user : Users \cup {Nobody},
         id : ChallengeIds, yes : BOOLEAN]

Auth(kind, ok, u) == [type |-> "AUTH_RESPONSE", kind |-> kind, ok |-> ok,
                      user |-> u, id |-> 0]
Msg(type, id) == [type |-> type, kind |-> "NONE", ok |-> TRUE,
                  user |-> Nobody, id |-> id]
Msgs == [type : {"AUTH_RESPONSE", "PLAYER_LIST", "CHALLENGE_RECEIVED",
                 "MATCH_START", "SHIP_PLACEMENT"},
         kind : AuthKinds \cup {"NONE"}, ok : BOOLEAN,
         user : Users \cup {Nobody}, id : ChallengeIds]

Job(what, id) == [what |-> what, id |-> id]
Jobs == [what : {"registered", "loggedIn", "failed", "challenge", "match",
                 "reload", "stale"}, id : ChallengeIds]
Dialogs == [what : {"error", "registered", "challenge"}, id : ChallengeIds]

\* isConnected and isAuthenticated
IsConnected == status \in {"CONNECTED", "AUTHENTICATED"}
IsAuthenticated == status = "AUTHENTICATED"

Init ==
  /\ status = "DISCONNECTED" /\ userId = Nobody
  /\ pending = "NONE" /\ call = NoCall /\ listHere = FALSE
  /\ receiving = FALSE
  /\ idle = <<>>
  /\ screen = "LOGIN" /\ reload = TRUE /\ dialogs = <<>>
  /\ challenge = 0 /\ onScreen = 0 /\ lobbySeen = FALSE
  /\ clicks = 0
  /\ sock = "none" /\ toServer = <<>> /\ toClient = <<>>
  /\ peer = Nobody /\ listed = FALSE /\ session = FALSE
  /\ offered = 0 /\ invited = 0
  /\ accepted = {} /\ answers = {}

-----------------------------------------------------------------------------
(* The connection.                                                         *)

\* UIManager::initialize connects once.
Connect ==
  /\ sock = "none" /\ status = "DISCONNECTED"
  /\ \/ /\ status' = "CONNECTED" /\ sock' = "up" /\ receiving' = TRUE
        /\ UNCHANGED dialogs
     \/ /\ status' = "ERROR_STATE"
        /\ dialogs' = <<Job("error", 0)>> \o dialogs
        /\ UNCHANGED <<sock, receiving>>
  /\ UNCHANGED <<userId, pending, call, listHere, idle, screen,
                 reload, challenge, onScreen, lobbySeen, clicks, toServer,
                 toClient, srvVars, answers>>

\* The server goes away.  What it has sent still arrives.
ServerCloses ==
  /\ sock = "up"
  /\ sock' = "closed" /\ toServer' = <<>> /\ listed' = FALSE
  /\ UNCHANGED <<netVars, receiving, idle, guiVars, clicks, toClient, peer,
                 session, offered, invited, accepted, answers>>

\* recv returns 0 and leaves errno alone: after an earlier timeout the loop
\* takes the end of the stream for another one and spins, so that this step may
\* never come.
ReceiveEnds ==
  /\ receiving /\ toClient = <<>> /\ sock = "closed"
  /\ receiving' = FALSE /\ status' = "ERROR_STATE"
  /\ UNCHANGED <<userId, pending, call, listHere, idle, guiVars,
                 clicks, sock, toServer, toClient, srvVars, answers>>

-----------------------------------------------------------------------------
(* Screens and requests of the GTK thread.                                 *)

\* The jobs once the screen is destroyed: the button that a lobby's job would
\* click is gone.
StaleReloads(jobs) ==
  [i \in 1..Len(jobs) |->
     IF jobs[i].what = "reload" THEN Job("stale", 0) ELSE jobs[i]]

\* Mutant: a new screen forgets the challenge that has not been answered.
ShowScreenForgets(s, jobs) ==
  LET left == StaleReloads(jobs)
  IN  /\ screen' = s
      /\ onScreen' = 0 /\ challenge' = 0
      /\ reload' = TRUE /\ listHere' = FALSE
      /\ lobbySeen' = (lobbySeen \/ s = "LOBBY")
      /\ idle' = IF s = "LOBBY" THEN Append(left, Job("reload", 0)) ELSE left

\* showScreen destroys the old screen with its data; jobs are those that still
\* wait.  A callback or a job of the old lobby then holds freed widgets; here
\* it finds nothing to change.  A new lobby asks for the list as soon as the
\* main loop is free.
ShowScreen(s, jobs) ==
  LET left == StaleReloads(jobs)
  IN  /\ screen' = s
      /\ onScreen' = 0 /\ UNCHANGED challenge
      /\ reload' = TRUE /\ listHere' = FALSE
      /\ lobbySeen' = (lobbySeen \/ s = "LOBBY")
      /\ idle' = IF s = "LOBBY" THEN Append(left, Job("reload", 0)) ELSE left

\* The GTK thread is in the main loop, and no dialog is in front of s.
AtScreen(s) == call = NoCall /\ dialogs = <<>> /\ screen = s

Click == clicks < MaxClicks /\ clicks' = clicks + 1

\* The first half of registerUser, loginUser, logoutUser, requestPlayerList,
\* sendChallenge and sendShipPlacement: whatever was pending is forgotten.
SetRequest(kind, u) ==
  /\ pending' = kind
  /\ call' = [kind |-> kind, user |-> u]
  /\ UNCHANGED <<status, userId>>

\* LOGIN and REGISTER, with entries that pass the checks of the screen; who
\* registers does not matter.  Without a connection the answer is a dialog.
ClickAuth(kind, u) ==
  /\ Click
  /\ \/ kind = "LOGIN" /\ u \in Users /\ AtScreen("LOGIN")
     \/ kind = "REGISTER" /\ u = Nobody /\ AtScreen("REGISTER")
  /\ IF IsConnected
       THEN SetRequest(kind, u) /\ UNCHANGED idle
       ELSE idle' = Append(idle, Job("failed", 0)) /\ UNCHANGED netVars
  /\ UNCHANGED <<listHere, receiving, guiVars, sock, toServer, toClient,
                 srvVars, answers>>

\* CREATE ACCOUNT, BACK, MULTIPLAYER, VS BOT, and EXIT of the placement screen
Navigation == {<<"LOGIN", "REGISTER">>, <<"REGISTER", "LOGIN">>,
               <<"MAIN_MENU", "LOBBY">>, <<"MAIN_MENU", "SHIP_PLACEMENT">>,
               <<"SHIP_PLACEMENT", "LOBBY">>}

ClickNavigation ==
  /\ Click
  /\ \E way \in Navigation : AtScreen(way[1]) /\ ShowScreen(way[2], idle)
  /\ UNCHANGED <<status, userId, pending, call, dialogs, receiving, sock, toServer,
                 toClient, srvVars, answers>>

\* FIGHT!, EXIT of the lobby, and READY of the placement screen.  Nothing
\* happens without a login.
ClickRequest(kind) ==
  /\ Click
  /\ \/ kind \in {"SEND_CHALLENGE", "LOGOUT"} /\ AtScreen("LOBBY")
     \/ kind = "SHIP_PLACEMENT" /\ AtScreen("SHIP_PLACEMENT")
  /\ IF IsAuthenticated
       THEN SetRequest(kind, Nobody) /\ UNCHANGED listHere
       ELSE UNCHANGED netVars
  /\ UNCHANGED <<receiving, idle, guiVars, sock, toServer, toClient, srvVars,
                 answers>>

\* on_refresh_clicked: the button is disabled until the callback.
Refresh ==
  IF IsAuthenticated
    THEN /\ SetRequest("PLAYER_LIST", Nobody)
         /\ listHere' = TRUE /\ reload' = FALSE
    ELSE reload' = TRUE /\ UNCHANGED netVars

ClickReload ==
  /\ Click
  /\ AtScreen("LOBBY") /\ reload
  /\ Refresh
  /\ UNCHANGED <<receiving, idle, screen, dialogs, challenge, onScreen,
                 lobbySeen, sock, toServer, toClient, srvVars, answers>>

\* The second half of a request.  The send fails, or is lost, when the server
\* has closed the connection; a failure empties the slot and calls back.
SendFails ==
  /\ sock # "up"
  /\ pending' = "NONE"
  /\ IF call.kind \in {"LOGIN", "REGISTER"}
       THEN idle' = Append(idle, Job("failed", 0))
       ELSE UNCHANGED idle
  /\ reload' = (reload \/ call.kind = "PLAYER_LIST")
  /\ UNCHANGED toServer

SendWorks ==
  /\ toServer' = IF sock = "up"
                   THEN Append(toServer, Req(call.kind, call.user))
                   ELSE toServer
  /\ UNCHANGED <<pending, idle, reload>>

SendRequest ==
  /\ call # NoCall
  /\ SendFails \/ SendWorks
  /\ call' = NoCall
  /\ UNCHANGED <<status, userId, listHere, receiving, screen, dialogs,
                 challenge, onScreen, lobbySeen, clicks, sock, toClient,
                 srvVars, answers>>

-----------------------------------------------------------------------------
(* The receive thread.  The callbacks run under callback_mutex_, so that a   *)
(* message is handled in one step.                                           *)

Takes(type) ==
  /\ receiving /\ toClient # <<>> /\ Head(toClient).type = type
  /\ toClient' = Tail(toClient)

\* Mutant: answers of other kinds are read all the same.
SucceedsAnyway(m) == m.ok /\ pending \in AuthKinds

\* An answer of another kind has another size, and deserialize refuses it:
\* the callback hears of a failure.
Succeeds(m) == m.ok /\ m.kind = pending

\* handleAuthResponse takes the slot, whatever is in it.  The callback of a
\* logout shows the login screen from this thread.
ReceiveAuth ==
  /\ Takes("AUTH_RESPONSE")
  /\ pending' = "NONE"
  /\ LET m == Head(toClient)
     IN  \/ /\ pending = "LOGIN"
            /\ IF Succeeds(m)
                 THEN /\ status' = "AUTHENTICATED" /\ userId' = m.user
                      /\ idle' = Append(idle, Job("loggedIn", 0))
                 ELSE /\ idle' = Append(idle, Job("failed", 0))
                      /\ UNCHANGED <<status, userId>>
            /\ UNCHANGED <<listHere, guiVars>>
         \/ /\ pending = "REGISTER"
            /\ idle' = Append(idle, Job(IF Succeeds(m) THEN "registered"
                                                       ELSE "failed", 0))
            /\ UNCHANGED <<status, userId, listHere, guiVars>>
         \/ /\ pending = "LOGOUT" /\ Succeeds(m)
            /\ status' = "CONNECTED" /\ userId' = Nobody
            /\ ShowScreen("LOGIN", idle)
            /\ UNCHANGED dialogs
         \/ /\ pending \notin {"LOGIN", "REGISTER"}
            /\ ~(pending = "LOGOUT" /\ Succeeds(m))
            /\ UNCHANGED <<status, userId, listHere, idle, guiVars>>
  /\ UNCHANGED <<call, receiving, clicks, sock, toServer, srvVars, answers>>

\* Mutant: the slot is not emptied by the list.
ListAnsweredKeeps == pending = "PLAYER_LIST" /\ UNCHANGED pending

\* A list is an answer only while the slot says so.
ListAnswered == pending = "PLAYER_LIST" /\ pending' = "NONE"

\* handlePlayerListResponse: the callback of the lobby works on its widgets.
ReceiveList ==
  /\ Takes("PLAYER_LIST")
  /\ \/ ListAnswered /\ reload' = (reload \/ listHere)
     \/ pending # "PLAYER_LIST" /\ UNCHANGED <<pending, reload>>
  /\ UNCHANGED <<status, userId, call, listHere, receiving, idle, screen,
                 dialogs, challenge, onScreen, lobbySeen, clicks, sock,
                 toServer, srvVars, answers>>

\* handleShipPlacementAck
ReceiveAck ==
  /\ Takes("SHIP_PLACEMENT")
  /\ pending' = IF pending = "SHIP_PLACEMENT" THEN "NONE" ELSE pending
  /\ UNCHANGED <<status, userId, call, listHere, receiving, idle, guiVars,
                 clicks, sock, toServer, srvVars, answers>>

\* handleChallengeReceived and handleMatchStart: before the first lobby there
\* is no callback, and the message is lost.
ReceivePush(type, what) ==
  /\ Takes(type)
  /\ idle' = IF lobbySeen THEN Append(idle, Job(what, Head(toClient).id))
                          ELSE idle
  /\ UNCHANGED <<netVars, receiving, guiVars, clicks, sock, toServer, srvVars,
                 answers>>

Receive ==
  \/ ReceiveAuth \/ ReceiveList \/ ReceiveAck
  \/ ReceivePush("CHALLENGE_RECEIVED", "challenge")
  \/ ReceivePush("MATCH_START", "match")

-----------------------------------------------------------------------------
(* Jobs and dialogs of the GTK thread.                                       *)

Idles(what) ==
  /\ call = NoCall
  /\ idle # <<>> /\ Head(idle).what = what

Open(what, id) == dialogs' = <<[what |-> what, id |-> id]>> \o dialogs

\* handleLoginResponse, handleRegisterResponse and the lobby's callbacks
RunScreen ==
  /\ \/ Idles("loggedIn") /\ ShowScreen("MAIN_MENU", Tail(idle))
     \/ Idles("match") /\ ShowScreen("SHIP_PLACEMENT", Tail(idle))
  /\ UNCHANGED <<status, userId, pending, call, dialogs>>

RunNotice ==
  /\ \/ Idles("failed") /\ Open("error", 0)
     \/ Idles("registered") /\ Open("registered", 0)
  /\ idle' = Tail(idle)
  /\ UNCHANGED <<netVars, screen, reload, challenge, onScreen, lobbySeen>>

RunChallenge ==
  /\ Idles("challenge")
  /\ LET id == Head(idle).id
     IN  challenge' = id /\ onScreen' = id /\ Open("challenge", id)
  /\ idle' = Tail(idle)
  /\ UNCHANGED <<netVars, screen, reload, lobbySeen>>

\* The button is gone, and the signal goes nowhere.
RunStale ==
  /\ Idles("stale")
  /\ idle' = Tail(idle)
  /\ UNCHANGED <<netVars, guiVars>>

RunReload ==
  /\ Idles("reload")
  /\ Refresh
  /\ idle' = Tail(idle)
  /\ UNCHANGED <<screen, dialogs, challenge, onScreen, lobbySeen>>

RunIdle ==
  /\ RunScreen \/ RunNotice \/ RunChallenge \/ RunReload \/ RunStale
  /\ UNCHANGED <<receiving, clicks, sock, toServer, toClient, srvVars, answers>>

\* The id that the innermost dialog would answer: that of the screen, or else
\* the last one received.
IdToSend == IF onScreen # 0 THEN onScreen ELSE challenge

\* Mutant: an answer leaves the ids for the next dialog.
ClearIdsNot == UNCHANGED <<challenge, onScreen>>

ClearIds == challenge' = 0 /\ onScreen' = 0

CloseNotice ==
  /\ dialogs # <<>> /\ call = NoCall
  /\ \/ /\ Head(dialogs).what = "error"
        /\ UNCHANGED <<listHere, idle, screen, reload, challenge, onScreen,
                       lobbySeen>>
     \/ /\ Head(dialogs).what = "registered"
        /\ ShowScreen("LOGIN", idle)
  /\ dialogs' = Tail(dialogs)
  /\ UNCHANGED <<status, userId, pending, call, receiving, clicks, sock,
                 toServer, toClient, srvVars, answers>>

\* The end of showChallengeDialog, and respondToChallenge.
CloseChallenge(yes) ==
  /\ dialogs # <<>> /\ call = NoCall /\ Head(dialogs).what = "challenge"
  /\ dialogs' = Tail(dialogs)
  /\ LET sent == IdToSend # 0 /\ IsAuthenticated
     IN  /\ answers' = answers \cup {[asked |-> Head(dialogs).id,
                                      id |-> IF sent THEN IdToSend ELSE 0]}
         /\ toServer' = IF sent /\ sock = "up"
                          THEN Append(toServer, Response(IdToSend, yes))
                          ELSE toServer
  /\ IF IdToSend # 0 THEN ClearIds ELSE UNCHANGED <<challenge, onScreen>>
  /\ UNCHANGED <<netVars, receiving, idle, screen, reload, lobbySeen, clicks,
                 sock, toClient, srvVars>>

-----------------------------------------------------------------------------
(* The server, as this client sees it.                                       *)

Answer(ms) == toClient' = toClient \o ms

\* handleRegister, handleLogin and handleLogout.  A logout leaves the user on
\* the connection and succeeds always.
ServeAuth(q) ==
  \/ /\ q.kind = "REGISTER"
     /\ \E ok \in BOOLEAN : Answer(<<Auth("REGISTER", ok, Nobody)>>)
     /\ UNCHANGED srvVars
  \/ /\ q.kind = "LOGIN"
     /\ Answer(<<Auth("LOGIN", FALSE, Nobody)>>)
     /\ UNCHANGED srvVars
  \/ /\ q.kind = "LOGIN"
     /\ Answer(<<Auth("LOGIN", TRUE, q.user)>>)
     /\ peer' = q.user /\ listed' = TRUE /\ session' = TRUE
     /\ accepted' = accepted \cup {q.user}
     /\ UNCHANGED <<offered, invited>>
  \/ /\ q.kind = "LOGOUT"
     /\ Answer(<<Auth("LOGOUT", TRUE, Nobody)>>)
     /\ listed' = FALSE /\ session' = FALSE
     /\ UNCHANGED <<peer, offered, invited, accepted>>

\* handleShipPlacement: without a valid session it returns and answers nothing.
ServePlacement(q) ==
  /\ q.kind = "SHIP_PLACEMENT"
  /\ Answer(IF session THEN <<Msg(q.kind, 0)>> ELSE <<>>)
  /\ UNCHANGED srvVars

\* The list is sent to everybody.  A challenge may find nobody; one that is
\* accepted starts a match.
ServeGame(q) ==
  \/ /\ q.kind = "PLAYER_LIST"
     /\ Answer(<<Msg(q.kind, 0)>>)
     /\ UNCHANGED srvVars
  \/ ServePlacement(q)
  \/ /\ q.kind = "SEND_CHALLENGE"
     /\ invited' \in IF peer = Nobody THEN {invited}
                                      ELSE {invited, invited + 1}
     /\ UNCHANGED <<peer, listed, session, offered, accepted, toClient>>
  \/ /\ q.kind = "CHALLENGE_RESPONSE"
     /\ Answer(IF q.yes /\ listed THEN <<Msg("MATCH_START", 0)>> ELSE <<>>)
     /\ UNCHANGED srvVars

Serve ==
  /\ sock = "up" /\ toServer # <<>>
  /\ ServeAuth(Head(toServer)) \/ ServeGame(Head(toServer))
  /\ toServer' = Tail(toServer)
  /\ UNCHANGED <<netVars, receiving, idle, guiVars, clicks, sock, answers>>

\* Somebody challenges this player, or accepts a challenge of this player.
ServerOffers ==
  /\ sock = "up"
  /\ \/ /\ listed /\ offered < MaxChallenge
        /\ offered' = offered + 1
        /\ Answer(<<Msg("CHALLENGE_RECEIVED", offered + 1)>>)
        /\ UNCHANGED invited
     \/ /\ invited > 0
        /\ invited' = invited - 1
        /\ Answer(IF listed THEN <<Msg("MATCH_START", 0)>> ELSE <<>>)
        /\ UNCHANGED offered
  /\ UNCHANGED <<netVars, receiving, idle, guiVars, clicks, sock, toServer,
                 peer, listed, session, accepted, answers>>

\* Its time runs out, or another connection of the user logs out with it.
SessionExpires ==
  /\ session
  /\ session' = FALSE
  /\ UNCHANGED <<netVars, receiving, idle, guiVars, clicks, sock, toServer,
                 toClient, peer, listed, offered, invited, accepted, answers>>

-----------------------------------------------------------------------------
Clicks ==
  \/ \E kind \in {"LOGIN", "REGISTER"}, u \in Users \cup {Nobody} :
       ClickAuth(kind, u)
  \/ ClickNavigation
  \/ \E kind \in {"SEND_CHALLENGE", "LOGOUT", "SHIP_PLACEMENT"} :
       ClickRequest(kind)
  \/ ClickReload

Next ==
  \/ Connect \/ ServerCloses \/ ReceiveEnds
  \/ Clicks \/ SendRequest
  \/ Receive \/ RunIdle \/ CloseNotice \/ \E yes \in BOOLEAN : CloseChallenge(yes)
  \/ Serve \/ ServerOffers \/ SessionExpires

Spec == Init /\ [][Next]_vars

\* The GTK thread finishes the request it has begun, the receive thread takes
\* what has arrived, and the server answers: none of them waits for another.
\* Nothing is assumed of the player or of other players.
FairSpec == Spec /\ WF_vars(SendRequest) /\ WF_vars(Receive) /\ WF_vars(Serve)

-----------------------------------------------------------------------------
(* Properties.                                                               *)

TypeOK ==
  /\ status \in {"DISCONNECTED", "CONNECTED", "AUTHENTICATED", "ERROR_STATE"}
  /\ userId \in Users \cup {Nobody}
  /\ (status = "AUTHENTICATED" => userId # Nobody)
  /\ pending \in Kinds \cup {"NONE"}
  /\ call \in [kind : Kinds \cup {"NONE"}, user : Users \cup {Nobody}]
  /\ {listHere, receiving, reload, lobbySeen, listed, session} \subseteq BOOLEAN
  /\ idle \in Seq(Jobs) /\ dialogs \in Seq(Dialogs)
  /\ screen \in Screens
  /\ challenge \in ChallengeIds /\ onScreen \in ChallengeIds
  /\ clicks \in 0..MaxClicks
  /\ sock \in {"none", "up", "closed"}
  /\ toServer \in Seq(Reqs) /\ toClient \in Seq(Msgs)
  /\ peer \in Users \cup {Nobody}
  /\ offered \in ChallengeIds /\ invited \in Nat
  /\ accepted \subseteq Users
  /\ answers \subseteq [asked : ChallengeIds, id : ChallengeIds]

\* Answers carry no number, and one slot serves all kinds of requests.  Even
\* so, whatever the player clicks while answers are on their way, the client
\* believes itself logged in only as a user whose login the server accepted.
AuthJustified == status = "AUTHENTICATED" => userId \in accepted

\* Challenge dialogs share challenge_id and pending_challenge_id_ and may open
\* on top of each other, across changes of the screen: an answer that is sent
\* is one to the challenge the dialog was about, and no challenge is answered
\* twice.
AnswersOwnChallenge ==
  /\ \A a \in answers : a.id \in {0, a.asked}
  /\ \A a, b \in answers : a.asked = b.asked => a = b

\* The newest challenge can be answered as long as its dialog is open, even if
\* the screen that held its id has been replaced meanwhile.
LatestAnswerable ==
  \A i \in 1..Len(dialogs) :
    (/\ dialogs[i].what = "challenge"
     /\ \A k \in 1..Len(dialogs) : dialogs[k].id <= dialogs[i].id
     /\ \A a \in answers : a.asked < dialogs[i].id)
    => IdToSend = dialogs[i].id

\* A request that waits in the slot gets its answer, or makes room for
\* another one, unless the server goes away: nothing the receive thread skips
\* or misreads may leave it waiting, so that once the player stops clicking
\* nothing waits.  Only a placement has to have a session: the server drops
\* one without a word when the session has expired, or was ended by a logout
\* whose answer the client missed (gameplay_handler.cpp:116-121).
CallResolved ==
  []<> \/ pending \notin Answered
       \/ sock # "up"
       \/ pending = "SHIP_PLACEMENT" /\ ~session
============================================================================
