------------------------------ MODULE Sessions ------------------------------
(***************************************************************************)
(* Accounts and sessions, and what is left of them when the server or a    *)
(* client stops: AuthHandler (server/src/auth_handler.cpp) with the tables *)
(* users and sessions (database.cpp), the identity each client program     *)
(* keeps (client/src/client_network.cpp), and the file of the auto-login   *)
(* (session_storage.cpp, ui_manager.cpp, built if AUTO_LOGIN_ENABLED).     *)
(*                                                                         *)
(* Handlers run one at a time (handlers_mutex_).  Each statement SQLite    *)
(* runs is durable when it returns; everything else of the server is lost  *)
(* when it stops, which it may do between any two steps.  A client program *)
(* connects once, when it starts.  Some users wait for each answer before  *)
(* they click again; those of the Hasty clients do not.                    *)
(*                                                                         *)
(* Tokens are drawn at random: here every one is new.  Passwords are right *)
(* or wrong.                                                               *)
(***************************************************************************)
EXTENDS Naturals, FiniteSets

CONSTANTS
  Users,      \* usernames; each stands for its user_id, too
  Clients,    \* client programs, each on its own machine
  Hasty,      \* the clients whose user does not wait for the answers
  Nobody,     \* user id 0, and no token
  MaxToken,   \* bound on the tokens ever made
  AutoLogin   \* the clients built with AUTO_LOGIN_ENABLED

ASSUME SessionsAssumption ==
  /\ Nobody \notin Users /\ Nobody \notin Clients /\ Nobody \notin Nat
  /\ Users \cap Nat = {} /\ Hasty \subseteq Clients
  /\ MaxToken \in Nat /\ AutoLogin \subseteq Clients

VARIABLES
  users,     \* table users
  sessions,  \* table sessions: the user of each token, Nobody without a row
  expired,   \* the tokens whose 24 hours are over
  made,      \* tokens made so far
  job,       \* the message the running handler works on
  step,      \* what the handler does next
  connUser,  \* ClientConnection::user_id_ of each client's connection
  listed,    \* PlayerManager: the client whose connection each entry holds
  link,      \* "off", "up", "cut" by the server's end, or "left" by the client's
  asked,     \* the message on its way from each client
  answer,    \* the message on its way to each client
  pending,   \* ClientNetwork::pending_request_, the request to be answered
  me,        \* ClientNetwork::user_id_, Nobody if not AUTHENTICATED
  token,     \* ClientNetwork::session_token_
  file,      \* the token in session.txt
  closed,    \* history: tokens a client was told are logged out
  leaving    \* history: tokens each program has sent a LOGOUT with

dbVars     == <<users, sessions, expired, made>>
serverVars == <<job, step, connUser, listed>>
netVars    == <<link, asked, answer>>
clientVars == <<pending, me, token, file, closed, leaving>>
vars == <<dbVars, serverVars, netVars, clientVars>>

-----------------------------------------------------------------------------
Tokens == 1..MaxToken
TokenOrNone == Tokens \cup {Nobody}
UserOrNone == Users \cup {Nobody}

\* What a client may hold as its token: also a username (ValidateAnswered).
Held == TokenOrNone \cup Users

Kinds == {"register", "login", "logout", "validate", "play"}
Msg(kind, u, t) == [kind |-> kind, u |-> u, t |-> t, ok |-> FALSE]
Msgs == [kind : Kinds, u : UserOrNone, t : Held, ok : BOOLEAN]
Reply(kind, u, t) == [kind |-> kind, u |-> u, t |-> t, ok |-> TRUE]
Refusal(kind) == Msg(kind, Nobody, Nobody)
NoMsg == [kind |-> "none", u |-> Nobody, t |-> Nobody, ok |-> FALSE]
NoJob == [c |-> Nobody, m |-> NoMsg]
Jobs == [c : Clients, m : Msgs]

Init ==
  /\ users = {} /\ sessions = [t \in Tokens |-> Nobody]
  /\ expired = {} /\ made = 0
  /\ job = NoJob /\ step = "idle"
  /\ connUser = [c \in Clients |-> Nobody]
  /\ listed = [u \in Users |-> Nobody]
  /\ link = [c \in Clients |-> "off"]
  /\ asked = [c \in Clients |-> NoMsg] /\ answer = [c \in Clients |-> NoMsg]
  /\ pending = [c \in Clients |-> "none"]
  /\ me = [c \in Clients |-> Nobody] /\ token = [c \in Clients |-> Nobody]
  /\ file = [c \in Clients |-> Nobody]
  /\ closed = {} /\ leaving = [c \in Clients |-> {}]

-----------------------------------------------------------------------------
(* Clients.                                                                *)

\* SessionStorage, the file session.txt of a client.
HasStoredSession(c) == c \in AutoLogin /\ file[c] # Nobody
SaveSession(c, t) == file' = [file EXCEPT ![c] = IF c \in AutoLogin THEN t ELSE @]
ClearSession(c) == file' = [file EXCEPT ![c] = Nobody]

\* The program starts and connects, with the auto-login if there is a file; an
\* auto-login that finds no server removes the file.
StartFails(c) ==
  /\ link[c] = "off" /\ HasStoredSession(c)
  /\ ClearSession(c)
  /\ UNCHANGED <<dbVars, serverVars, netVars, pending, me, token, closed, leaving>>

Start(c) ==
  /\ link[c] = "off"
  /\ link' = [link EXCEPT ![c] = "up"]
  /\ IF HasStoredSession(c)
       THEN /\ asked' = [asked EXCEPT ![c] = Msg("validate", Nobody, file[c])]
            /\ pending' = [pending EXCEPT ![c] = "validate"]
       ELSE UNCHANGED <<asked, pending>>
  /\ UNCHANGED <<dbVars, serverVars, answer, me, token, file, closed, leaving>>

\* REGISTER and LOGIN on the screen of a client that is logged out, and on that
\* of a Hasty one, which may still be up; LOGOUT and moves while logged in.
Requests(c) ==
  {Msg(k, u, Nobody) : k \in {"register", "login"},
                       u \in {v \in Users : me[c] = Nobody \/ c \in Hasty}}
  \cup {Msg(k, Nobody, token[c]) : k \in {x \in {"logout", "play"} : me[c] # Nobody}}

\* A LOGIN may follow another before the first one's answer: the buttons stay
\* enabled.  The last request takes the slot of the answers, with "play" that of
\* the player list, say, whereas a move leaves it alone.
Ask(c) ==
  /\ link[c] = "up" /\ asked[c] = NoMsg
  /\ pending[c] = "none" \/ c \in Hasty
  /\ \E m \in Requests(c) :
       /\ asked' = [asked EXCEPT ![c] = m]
       /\ \E k \in IF m.kind = "play" THEN {pending[c], "none"} ELSE {m.kind} :
            pending' = [pending EXCEPT ![c] = k]
       /\ leaving' = [leaving EXCEPT ![c] =
                         IF m.kind = "logout" THEN @ \cup {m.t} ELSE @]
  /\ UNCHANGED <<dbVars, serverVars, link, answer, me, token, file, closed>>

\* handleAuthResponse reads an answer as that to the pending request, and the
\* callback sees to the file.
RegisterAnswered(c) ==
  /\ answer[c].kind = "register"
  /\ UNCHANGED <<me, token, file, closed>>

LoginAnswered(c) ==
  /\ answer[c].kind = "login"
  /\ IF answer[c].ok
       THEN /\ me' = [me EXCEPT ![c] = answer[c].u]
            /\ token' = [token EXCEPT ![c] = answer[c].t]
            /\ SaveSession(c, answer[c].t)
       ELSE UNCHANGED <<me, token, file>>
  /\ UNCHANGED closed

\* The callback of EXIT only shows the login screen: the file stays.
LogoutAnswered(c) ==
  /\ answer[c].kind = "logout"
  /\ me' = [me EXCEPT ![c] = Nobody]
  /\ token' = [token EXCEPT ![c] = Nobody]
  /\ closed' = closed \cup {answer[c].t}
  /\ UNCHANGED file

\* Mutant: what the client holds then is saved, too.
ValidateSaves(c) ==
  /\ answer[c].kind = "validate"
  /\ IF answer[c].ok
       THEN /\ me' = [me EXCEPT ![c] = answer[c].u]
            /\ token' = [token EXCEPT ![c] = answer[c].u]
            /\ SaveSession(c, answer[c].u)
       ELSE ClearSession(c) /\ UNCHANGED <<me, token>>
  /\ UNCHANGED closed

\* session_token_ = resp.username; a session that is not valid is forgotten.
ValidateAnswered(c) ==
  /\ answer[c].kind = "validate"
  /\ IF answer[c].ok
       THEN /\ me' = [me EXCEPT ![c] = answer[c].u]
            /\ token' = [token EXCEPT ![c] = answer[c].u]
            /\ UNCHANGED file
       ELSE ClearSession(c) /\ UNCHANGED <<me, token>>
  /\ UNCHANGED closed

\* An answer to another request than the pending one: the payloads differ in
\* size, so that deserialize refuses it, and with no request pending nobody reads
\* it.  (That of VALIDATE_SESSION is the first one, so no other is read for it.)
Misread(c) ==
  /\ answer[c].kind \notin {"none", pending[c]}
  /\ UNCHANGED <<me, token, file, closed>>

Answered(c) ==
  /\ \/ /\ answer[c].kind = pending[c]
        /\ \/ RegisterAnswered(c) \/ LoginAnswered(c)
           \/ LogoutAnswered(c) \/ ValidateAnswered(c)
     \/ Misread(c)
  /\ answer' = [answer EXCEPT ![c] = NoMsg]
  /\ pending' = [pending EXCEPT ![c] = "none"]
  /\ UNCHANGED <<dbVars, serverVars, link, asked, leaving>>

\* The program ends; what it has sent is still on its way.
Quit(c) ==
  /\ link[c] \in {"up", "cut"}
  /\ link' = [link EXCEPT ![c] = IF @ = "up" THEN "left" ELSE "off"]
  /\ answer' = [answer EXCEPT ![c] = NoMsg]
  /\ pending' = [pending EXCEPT ![c] = "none"]
  /\ me' = [me EXCEPT ![c] = Nobody]
  /\ token' = [token EXCEPT ![c] = Nobody]
  /\ leaving' = [leaving EXCEPT ![c] = {}]
  /\ UNCHANGED <<dbVars, serverVars, asked, file, closed>>

-----------------------------------------------------------------------------
(* DatabaseManager.                                                        *)

UsernameExists(u) == u \in users
CreateUser(u) == users' = users \cup {u}

CreateSession(u, t) == sessions' = [sessions EXCEPT ![t] = u]

\* The user validateSession returns for a token.
Valid(t) == IF t \in Tokens \ expired THEN sessions[t] ELSE Nobody

\* The table after deleteSession(t); validateSession, too, deletes an expired
\* session that it is asked for.
Without(t) == [x \in Tokens |-> IF x = t THEN Nobody ELSE sessions[x]]
Cleaned(t) == IF t \in expired THEN Without(t) ELSE sessions

\* A day passes for a session; the one made first ends first.
Expire(t) ==
  /\ t <= made /\ t \notin expired /\ 1..(t - 1) \subseteq expired
  /\ expired' = expired \cup {t}
  /\ UNCHANGED <<users, sessions, made, serverVars, netVars, clientVars>>

-----------------------------------------------------------------------------
(* AuthHandler.                                                            *)

\* The handler of a message begins and goes to step s, m being its answer.
Begin(c, kind, m, s) ==
  /\ step = "idle" /\ asked[c].kind = kind
  /\ asked' = [asked EXCEPT ![c] = NoMsg]
  /\ job' = [c |-> c, m |-> m]
  /\ step' = s

\* usernameExists says no, and createUser succeeds.
Register(c) ==
  /\ ~UsernameExists(asked[c].u)
  /\ Begin(c, "register", Reply("register", Nobody, Nobody), "answer")
  /\ CreateUser(asked[c].u)
  /\ UNCHANGED <<sessions, expired, made, connUser, listed, link, answer, clientVars>>

\* A name that is taken, a user that does not exist, a wrong password, or a
\* statement the database refuses.  The handler changes nothing, so that to stop
\* in it is to stop before it: the answer is part of this step.
Refused(c) ==
  /\ step = "idle" /\ asked[c].kind \in {"register", "login", "validate"}
  /\ link[c] = "up" => answer[c] = NoMsg
  /\ asked' = [asked EXCEPT ![c] = NoMsg]
  /\ answer' = [answer EXCEPT ![c] =
                  IF link[c] = "up" THEN Refusal(asked[c].kind) ELSE @]
  /\ UNCHANGED <<dbVars, serverVars, link, clientVars>>

\* generateSessionToken
NewToken == made + 1

\* The password is right: createSession with a new token.
Login(c) ==
  LET u == asked[c].u IN
  /\ UsernameExists(u) /\ NewToken \in Tokens
  /\ Begin(c, "login", Reply("login", u, NewToken), "authenticate")
  /\ CreateSession(u, NewToken)
  /\ made' = NewToken
  /\ UNCHANGED <<users, expired, connUser, listed, link, answer, clientVars>>

Validate(c) ==
  LET u == Valid(asked[c].t) IN
  /\ IF u # Nobody
       THEN Begin(c, "validate", Reply("validate", u, Nobody), "authenticate")
       ELSE Begin(c, "validate", Refusal("validate"), "answer")
  /\ sessions' = Cleaned(asked[c].t)
  /\ UNCHANGED <<users, expired, made, connUser, listed, link, answer, clientVars>>

\* setAuthenticated
Authenticate ==
  /\ step = "authenticate"
  /\ connUser' = [connUser EXCEPT ![job.c] = job.m.u]
  /\ step' = "answer"
  /\ UNCHANGED <<dbVars, job, listed, netVars, clientVars>>

\* Mutant: the session names the user, and nothing else does.
LogoutUserOfSession(c) == Valid(asked[c].t)

\* The user of the session, or else of the connection.
LogoutUser(c) == LET u == Valid(asked[c].t) IN
                 IF u # Nobody THEN u ELSE connUser[c]

\* Mutant: all sessions of the user end, as with deleteUserSessions.
LogoutEverywhere(c) ==
  /\ Begin(c, "logout", Reply("logout", LogoutUser(c), asked[c].t), "unlist")
  /\ sessions' = [t \in Tokens |->
                    IF sessions[t] = LogoutUser(c) THEN Nobody ELSE sessions[t]]
  /\ UNCHANGED <<users, expired, made, connUser, listed, link, answer, clientVars>>

\* Mutant: the session is left to expire.
LogoutKeepsSession(c) ==
  /\ Begin(c, "logout", Reply("logout", LogoutUser(c), asked[c].t), "unlist")
  /\ UNCHANGED <<dbVars, connUser, listed, link, answer, clientVars>>

\* deleteSession.  The answer is success even when it fails, which it does not
\* here.
Logout(c) ==
  /\ Begin(c, "logout", Reply("logout", LogoutUser(c), asked[c].t), "unlist")
  /\ sessions' = Without(asked[c].t)
  /\ UNCHANGED <<users, expired, made, connUser, listed, link, answer, clientVars>>

\* removePlayer
Unlist ==
  /\ step = "unlist"
  /\ listed' = [u \in Users |-> IF u = job.m.u THEN Nobody ELSE listed[u]]
  /\ step' = "answer"
  /\ UNCHANGED <<dbVars, job, connUser, netVars, clientVars>>

\* sendResponse, which is lost if the client is gone.  A client reads at any
\* time, so that an answer can wait here for the one before it to be read.
Answer ==
  /\ step = "answer" /\ (link[job.c] = "up" => answer[job.c] = NoMsg)
  /\ answer' = [answer EXCEPT ![job.c] = IF link[job.c] = "up" THEN job.m ELSE @]
  /\ IF job.m.ok /\ job.m.kind \in {"login", "validate"}
       THEN step' = "list" /\ UNCHANGED job
       ELSE step' = "idle" /\ job' = NoJob
  /\ UNCHANGED <<dbVars, connUser, listed, link, asked, clientVars>>

\* addPlayer
List ==
  /\ step = "list"
  /\ listed' = [listed EXCEPT ![job.m.u] = job.c]
  /\ step' = "idle" /\ job' = NoJob
  /\ UNCHANGED <<dbVars, connUser, netVars, clientVars>>

\* A gameplay handler asks whose token it is and answers nothing if nobody's.
Play(c) ==
  /\ step = "idle" /\ asked[c].kind = "play"
  /\ asked' = [asked EXCEPT ![c] = NoMsg]
  /\ sessions' = Cleaned(asked[c].t)
  /\ UNCHANGED <<users, expired, made, serverVars, link, answer, clientVars>>

\* removeClient, once what the client has sent is read.  It finds the connection
\* under its descriptor: modules Connections and Lobby have the failed send that
\* gives the number away before.
RemoveClient(c) ==
  /\ link[c] = "left" /\ asked[c] = NoMsg /\ job.c # c
  /\ listed' = [u \in Users |-> IF u = connUser[c] THEN Nobody ELSE listed[u]]
  /\ connUser' = [connUser EXCEPT ![c] = Nobody]
  /\ link' = [link EXCEPT ![c] = "off"]
  /\ UNCHANGED <<dbVars, job, step, asked, answer, clientVars>>

\* The server stops and starts again: only the database is left.  An answer
\* that was sent may still arrive.
Restart ==
  /\ job' = NoJob /\ step' = "idle"
  /\ connUser' = [c \in Clients |-> Nobody]
  /\ listed' = [u \in Users |-> Nobody]
  /\ asked' = [c \in Clients |-> NoMsg]
  /\ link' = [c \in Clients |->
       IF link[c] = "up" THEN "cut" ELSE IF link[c] = "left" THEN "off" ELSE link[c]]
  /\ UNCHANGED <<dbVars, answer, clientVars>>

-----------------------------------------------------------------------------
Handle(c) ==
  \/ Register(c) \/ Refused(c) \/ Login(c) \/ Validate(c) \/ Logout(c)
  \/ Play(c)

Router == Authenticate \/ Unlist \/ Answer \/ List

Next ==
  \/ Router \/ Restart
  \/ \E c \in Clients :
       \/ StartFails(c) \/ Start(c) \/ Ask(c) \/ Answered(c) \/ Quit(c)
       \/ Handle(c) \/ RemoveClient(c)
  \/ \E t \in Tokens : Expire(t)

Spec == Init /\ [][Next]_vars

-----------------------------------------------------------------------------
TypeOK ==
  /\ users \subseteq Users /\ sessions \in [Tokens -> UserOrNone]
  /\ expired \subseteq Tokens /\ made \in 0..MaxToken
  /\ job \in Jobs \cup {NoJob}
  /\ step \in {"idle", "authenticate", "unlist", "answer", "list"}
  /\ (step = "idle") = (job = NoJob)
  /\ connUser \in [Clients -> UserOrNone]
  /\ listed \in [Users -> Clients \cup {Nobody}]
  /\ link \in [Clients -> {"off", "up", "cut", "left"}]
  /\ asked \in [Clients -> Msgs \cup {NoMsg}]
  /\ answer \in [Clients -> Msgs \cup {NoMsg}]
  /\ pending \in [Clients -> (Kinds \ {"play"}) \cup {"none"}]
  /\ me \in [Clients -> UserOrNone]
  /\ token \in [Clients -> Held] /\ file \in [Clients -> TokenOrNone]
  /\ closed \subseteq Held /\ leaving \in [Clients -> SUBSET Held]

\* A client that is logged in with a password plays as its own user until its
\* session expires or it logs out with it itself: no restart, no logout elsewhere
\* and no login of another client, or a second one of its own, takes it away.
OwnSessionKept ==
  \A c \in Clients :
    me[c] # Nobody /\ token[c] \in Tokens \ (expired \cup leaving[c])
      => Valid(token[c]) = me[c]

\* A token that was logged out is never accepted again.
LogoutFinal == \A t \in closed : Valid(t) = Nobody

\* An entry of the player list that holds a connection belongs to the user that
\* connection stands for, so that removeClient removes it, unless the user of the
\* client did not wait for an answer: handleLogin then makes the connection
\* another user's (setAuthenticated) and leaves the entry of the first.  Nothing
\* of the impatient clients makes it false of the others.
EntryOfConnection ==
  \A u \in Users :
    listed[u] \in Clients \ Hasty => connUser[listed[u]] = u

\* With the auto-login, too, a logged in client holds a token that counts,
\* unless its session has expired.
AutoLoginPlays ==
  \A c \in Clients : me[c] # Nobody => token[c] \in Tokens
=============================================================================
