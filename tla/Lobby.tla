------------------------------- MODULE Lobby -------------------------------
(***************************************************************************)
(* Who is online and who plays whom: PlayerManager, ChallengeManager and   *)
(* the handlers in front of them (server/src/player_manager.cpp,           *)
(* challenge_manager.cpp, challenge_handler.cpp, player_handler.cpp, the   *)
(* login and logout of auth_handler.cpp), with the player list that the    *)
(* messages of the server add up to in the lobby screen of each client     *)
(* (client/src/ui_lobby.cpp).                                              *)
(*                                                                         *)
(* Threads are those of module MatchServer: the router, which runs one     *)
(* handler at a time, the timer, and a cleanup thread for each lost        *)
(* connection.  PlayerManager changes an entry under its mutex, and reads  *)
(* it again, after an unlock, for the message it broadcasts.               *)
(*                                                                         *)
(* Matches are only what PlayerManager sees of them: they make both        *)
(* players IN_GAME and later AVAILABLE.                                    *)
(***************************************************************************)
EXTENDS Naturals, Sequences, FiniteSets

CONSTANTS
  Users,        \* the registered users
  Conns,        \* connections ever accepted
  Viewers,      \* connections whose client opens the lobby screen
  Losable,      \* connections that may be lost
  Reusable,     \* connections whose descriptor may be closed, and used again,
                \* before their thread runs removeClient
  Nobody,       \* user id 0, and the null pointer
  MaxChallenge  \* bound on the challenges ever sent

ASSUME LobbyAssumption ==
  /\ Viewers \subseteq Conns /\ Losable \subseteq Conns
  /\ Reusable \subseteq Conns
  /\ Nobody \notin Users /\ Nobody \notin Conns
  /\ "router" \notin Conns /\ "timer" \notin Conns
  /\ MaxChallenge \in Nat

VARIABLES
  status,   \* players_: the status of each user, "OFFLINE" without an entry
  owner,    \* players_: the ClientConnection* of each entry
  user,     \* ClientConnection::user_id_
  link,     \* each connection: "new", "open", "out", "lost" or "gone"
  found,    \* the connection that clients_ has under each one's descriptor
            \* when removeClient of its thread looks
  pending,  \* challenges_
  nextId,   \* next_challenge_id_
  rows,     \* table matches: the challenge of each row
  started,  \* the rows whose match both players have placed their ships for
  over,     \* the rows whose match has ended
  served,   \* the connection whose handler runs in the router
  pc,       \* what each thread does next
  work,     \* the calls of PlayerManager each thread has still to make
  mail,     \* the message each thread is sending
  view      \* the player list on each client's lobby screen

entryVars == <<status, owner>>
netVars   == <<user, link, found>>
gameVars  == <<pending, nextId, rows, started, over>>
threadVars == <<served, pc, work, mail>>
vars == <<entryVars, netVars, gameVars, threadVars, view>>

-----------------------------------------------------------------------------
Threads == {"router", "timer"} \cup Conns
Statuses == {"OFFLINE", "AVAILABLE", "IN_GAME"}
Links == {"new", "open", "out", "lost", "gone"}
Challenges == [id : 1..MaxChallenge, from : Users, to : Users]
Players(m) == {m.from, m.to}
Opponent(m, u) == IF m.from = u THEN m.to ELSE m.from

\* Calls of addPlayer, updatePlayerStatus and removePlayer.
AddPlayer(c, u) == [op |-> "add", u |-> u, s |-> "AVAILABLE", c |-> c]
UpdatePlayerStatus(u, s) == [op |-> "update", u |-> u, s |-> s, c |-> Nobody]
RemovePlayer(u) == [op |-> "remove", u |-> u, s |-> "OFFLINE", c |-> Nobody]
Calls == [op : {"add", "update", "remove"}, u : Users, s : Statuses,
          c : Conns \cup {Nobody}]

\* Messages on their way: a status update of user u, or a whole list, which
\* has u = Nobody.
NoList == <<>>
Lists == [Users -> Statuses]
NoMail == [u |-> Nobody, s |-> "OFFLINE", list |-> NoList, to |-> {}]
Mails == [u : Users \cup {Nobody}, s : Statuses, list : Lists \cup {NoList},
          to : SUBSET Conns]

\* ClientConnection::isAuthenticated, which a logout does not clear
Authenticated(c) == link[c] \in {"open", "out"}

Init ==
  /\ status = [u \in Users |-> "OFFLINE"]
  /\ owner = [u \in Users |-> Nobody]
  /\ user = [c \in Conns |-> Nobody]
  /\ link = [c \in Conns |-> "new"]
  /\ found = [c \in Conns |-> c]
  /\ pending = {} /\ nextId = 1
  /\ rows = {} /\ started = {} /\ over = {}
  /\ served = Nobody
  /\ pc = [t \in Threads |-> "idle"]
  /\ work = [t \in Threads |-> <<>>]
  /\ mail = [t \in Threads |-> NoMail]
  /\ view = [c \in Conns |-> NoList]

\* Thread t starts on the calls w.
Begin(t, w) ==
  /\ pc' = [pc EXCEPT ![t] = "set"]
  /\ work' = [work EXCEPT ![t] = w]
  /\ UNCHANGED mail

\* Thread t is done with the first of its calls.
Proceed(t) ==
  LET rest == Tail(work[t]) IN
  /\ work' = [work EXCEPT ![t] = rest]
  /\ pc' = [pc EXCEPT ![t] = IF rest = <<>> THEN "idle" ELSE "set"]
  /\ mail' = [mail EXCEPT ![t] = NoMail]
  /\ served' = IF t = "router" /\ rest = <<>> THEN Nobody ELSE served

-----------------------------------------------------------------------------
(* PlayerManager.                                                          *)

\* Mutant: updatePlayerStatus creates the entry it does not find.
SetCreates(t) ==
  /\ pc[t] = "set"
  /\ LET w == Head(work[t]) IN
       /\ status' = [status EXCEPT ![w.u] = w.s]
       /\ owner' = [owner EXCEPT ![w.u] = IF w.op = "add" THEN w.c ELSE @]
       /\ pc' = [pc EXCEPT ![t] = "tell"]
  /\ UNCHANGED <<served, work, mail, netVars, gameVars, view>>

\* The locked part of addPlayer, updatePlayerStatus and removePlayer.  The
\* last two do nothing, and tell nobody, without an entry.
Set(t) ==
  /\ pc[t] = "set"
  /\ LET w == Head(work[t]) IN
       IF w.op # "add" /\ status[w.u] = "OFFLINE"
         THEN Proceed(t) /\ UNCHANGED entryVars
         ELSE /\ status' = [status EXCEPT ![w.u] = w.s]
              /\ owner' = [owner EXCEPT ![w.u] =
                             IF w.op = "update" THEN @ ELSE w.c]
              /\ pc' = [pc EXCEPT ![t] = "tell"]
              /\ UNCHANGED <<served, work, mail>>
  /\ UNCHANGED <<netVars, gameVars, view>>

\* broadcastPlayerStatusUpdate: look at the entry again, and copy clients_.
Tell(t) ==
  /\ pc[t] = "tell"
  /\ LET w == Head(work[t]) IN
       mail' = [mail EXCEPT ![t] =
         [u |-> w.u,
          s |-> IF status[w.u] = "OFFLINE" THEN "OFFLINE" ELSE w.s,
          list |-> NoList,
          to |-> {c \in Viewers : link[c] = "open"}]]
  /\ pc' = [pc EXCEPT ![t] = "send"]
  /\ UNCHANGED <<entryVars, netVars, gameVars, served, work, view>>

\* One client after another gets the message, and changes its list if the
\* lobby screen is there.
Send(t) ==
  /\ pc[t] = "send" /\ mail[t].u # Nobody
  /\ IF mail[t].to = {}
       THEN Proceed(t) /\ UNCHANGED view
       ELSE /\ \E c \in mail[t].to :
                 /\ mail' = [mail EXCEPT ![t].to = @ \ {c}]
                 /\ view' = IF view[c] = NoList THEN view
                            ELSE [view EXCEPT ![c][mail[t].u] = mail[t].s]
            /\ UNCHANGED <<served, pc, work>>
  /\ UNCHANGED <<entryVars, netVars, gameVars>>

\* PLAYER_LIST_REQUEST: getOnlinePlayers ...
ReadList(c) ==
  /\ pc["router"] = "idle" /\ link[c] = "open" /\ c \in Viewers
  /\ mail' = [mail EXCEPT !["router"] =
                [NoMail EXCEPT !.list = status, !.to = {c}]]
  /\ pc' = [pc EXCEPT !["router"] = "send"]
  /\ served' = c
  /\ UNCHANGED <<entryVars, netVars, gameVars, work, view>>

\* ... and the answer, which replaces the list on the screen.
SendList ==
  /\ pc["router"] = "send" /\ mail["router"].u = Nobody
  /\ view' = [view EXCEPT ![served] = mail["router"].list]
  /\ pc' = [pc EXCEPT !["router"] = "idle"]
  /\ mail' = [mail EXCEPT !["router"] = NoMail]
  /\ served' = Nobody
  /\ UNCHANGED <<entryVars, netVars, gameVars, work>>

-----------------------------------------------------------------------------
(* Login, logout and lost connections.                                     *)

\* handleLogin does not ask whether the connection is logged in already.  The
\* user it was logged in as keeps an entry that names this connection.
Login(c, u) ==
  /\ pc["router"] = "idle" /\ link[c] \in {"new", "open", "out"}
  /\ link' = [link EXCEPT ![c] = "open"]
  /\ user' = [user EXCEPT ![c] = u]
  /\ served' = c
  /\ Begin("router", <<AddPlayer(c, u)>>)
  /\ UNCHANGED <<entryVars, found, gameVars, view>>

\* The client goes back to the login screen.  The user is the one of the token
\* in the message, which may stem from an earlier login on the connection.
Logout(c, u) ==
  /\ pc["router"] = "idle" /\ link[c] = "open"
  /\ u = user[c] \/ (status[u] # "OFFLINE" /\ owner[u] = c)
  /\ link' = [link EXCEPT ![c] = "out"]
  /\ view' = [view EXCEPT ![c] = NoList]
  /\ served' = c
  /\ Begin("router", <<RemovePlayer(u)>>)
  /\ UNCHANGED <<entryVars, user, found, gameVars>>

\* A failed send has closed the descriptor of c before the thread of c is done
\* with it, accept returns the number again, for d, and clients_ has d where it
\* had c.  (Module Connections has the system calls.)
Reuse(c, d) ==
  /\ c \in Reusable /\ link[c] \in {"new", "open", "out"}
  /\ found[c] \in {c, Nobody}
  /\ link[d] = "new" /\ d # c /\ \A x \in Conns : found[x] = d <=> x = d
  /\ found' = [x \in Conns |-> IF x = c \/ found[x] = c THEN d ELSE found[x]]
  /\ UNCHANGED <<entryVars, user, link, gameVars, threadVars, view>>

\* The calls for user v: one for the other player of each match that ends, in
\* the order of a hash map, and the last.
Farewell(order, n, v) ==
  [i \in 1..n |-> UpdatePlayerStatus(Opponent(order[i], v), "AVAILABLE")]
    \o <<RemovePlayer(v)>>

\* handlePlayerDisconnect and removePlayer for user v in thread t: the started
\* matches of v among ms end, their other players become AVAILABLE, and v is
\* removed.
SayGoodbye(t, v, ms) ==
  LET ending == {m \in ms \ over : v \in Players(m)} IN
  /\ over' = over \cup ending
  /\ \E order \in [1..Cardinality(ending) -> ending] :
       /\ \A m \in ending : \E i \in DOMAIN order : order[i] = m
       /\ Begin(t, Farewell(order, Cardinality(ending), v))

\* Mutant: matches that have not started are ended too.
DisconnectEndsAll(c) ==
  LET d == found[c] IN
  /\ c \in Losable /\ link[c] \in {"new", "open", "out"} /\ served # c
  /\ link' = [link EXCEPT ![c] = "lost"]
  /\ view' = [view EXCEPT ![c] = NoList]
  /\ found' = [x \in Conns |-> IF x # c /\ found[x] = d THEN Nobody ELSE found[x]]
  /\ IF d = Nobody \/ ~Authenticated(d)
       THEN UNCHANGED <<over, pc, work, mail>>
       ELSE /\ over' = over \cup {m \in rows : user[d] \in Players(m)}
            /\ Begin(c, <<RemovePlayer(user[d])>>)
  /\ UNCHANGED <<entryVars, user, pending, nextId, rows, started, served>>

\* Mutant: a user without a match is not removed.
DisconnectEarlyReturn(c) ==
  LET d == found[c] IN
  /\ c \in Losable /\ link[c] \in {"new", "open", "out"} /\ served # c
  /\ link' = [link EXCEPT ![c] = "lost"]
  /\ view' = [view EXCEPT ![c] = NoList]
  /\ found' = [x \in Conns |-> IF x # c /\ found[x] = d THEN Nobody ELSE found[x]]
  /\ IF d = Nobody \/ ~Authenticated(d)
          \/ \A m \in started \ over : user[d] \notin Players(m)
       THEN UNCHANGED <<over, pc, work, mail>>
       ELSE SayGoodbye(c, user[d], started)
  /\ UNCHANGED <<entryVars, user, pending, nextId, rows, started, served>>

\* removeClient in the thread of c, which is not in a handler: it takes what
\* clients_ has under its number, which may be another connection by now.
Disconnect(c) ==
  LET d == found[c] IN
  /\ c \in Losable /\ link[c] \in {"new", "open", "out"} /\ served # c
  /\ link' = [link EXCEPT ![c] = "lost"]
  /\ view' = [view EXCEPT ![c] = NoList]
  /\ found' = [x \in Conns |-> IF x # c /\ found[x] = d THEN Nobody ELSE found[x]]
  /\ IF d = Nobody \/ ~Authenticated(d)
       THEN UNCHANGED <<over, pc, work, mail>>
       ELSE SayGoodbye(c, user[d], started)
  /\ UNCHANGED <<entryVars, user, pending, nextId, rows, started, served>>

\* The thread ends, and with it the last reference to the ClientConnection.
Gone(c) ==
  /\ link[c] = "lost" /\ pc[c] = "idle"
  /\ link' = [link EXCEPT ![c] = "gone"]
  /\ UNCHANGED <<entryVars, user, found, gameVars, threadVars, view>>

-----------------------------------------------------------------------------
(* ChallengeManager.                                                       *)

\* sendChallenge with validateChallenge.  Nobody but the router uses
\* challenges_.  notifyTarget sends through the pointer of the target's entry,
\* which may dangle (see EntryOwnerAlive); if the process survives that, the
\* challenge stays.
SendChallenge(c, v) ==
  /\ pc["router"] = "idle" /\ Authenticated(c)
  /\ status[v] = "AVAILABLE" /\ status[user[c]] = "AVAILABLE" /\ v # user[c]
  /\ nextId <= MaxChallenge
  /\ pending' = pending \cup
       {[id |-> nextId, from |-> user[c], to |-> v]}
  /\ nextId' = nextId + 1
  /\ UNCHANGED <<entryVars, netVars, rows, started, over, threadVars, view>>

\* Mutant: the accepted challenge stays pending.
AcceptKeeps(c, ch) ==
  /\ pc["router"] = "idle" /\ Authenticated(c)
  /\ ch \in pending /\ ch.to = user[c]
  /\ rows' = rows \cup {ch}
  /\ served' = c
  /\ Begin("router", <<UpdatePlayerStatus(ch.from, "IN_GAME"),
                       UpdatePlayerStatus(ch.to, "IN_GAME")>>)
  /\ UNCHANGED <<entryVars, netVars, pending, nextId, started, over, view>>

\* respondToChallenge: any connection of the target may answer, also one that
\* the challenge was not sent to, and the row of the match is created whatever
\* became of the two players since, and however long ago that was: nothing
\* reads expires_at.
Accept(c, ch) ==
  /\ pc["router"] = "idle" /\ Authenticated(c)
  /\ ch \in pending /\ ch.to = user[c]
  /\ pending' = pending \ {ch}
  /\ rows' = rows \cup {ch}
  /\ served' = c
  /\ Begin("router", <<UpdatePlayerStatus(ch.from, "IN_GAME"),
                       UpdatePlayerStatus(ch.to, "IN_GAME")>>)
  /\ UNCHANGED <<entryVars, netVars, nextId, started, over, view>>

Decline(c, ch) ==
  /\ pc["router"] = "idle" /\ Authenticated(c)
  /\ ch \in pending /\ ch.to = user[c]
  /\ pending' = pending \ {ch}
  /\ UNCHANGED <<entryVars, netVars, nextId, rows, started, over,
                 threadVars, view>>

\* The second SHIP_PLACEMENT puts the match into active_matches_.
StartMatch(c, m) ==
  /\ pc["router"] = "idle" /\ link[c] = "open" /\ user[c] \in Players(m)
  /\ m \in rows \ started
  /\ started' = started \cup {m}
  /\ UNCHANGED <<entryVars, netVars, pending, nextId, rows, over,
                 threadVars, view>>

\* Mutant: only player 1 becomes AVAILABLE.
EndMatchFirstOnly(t, c, m) ==
  /\ pc[t] = "idle" /\ m \in started \ over
  /\ IF t = "timer"
       THEN UNCHANGED served
       ELSE /\ t = "router" /\ link[c] = "open" /\ user[c] \in Players(m)
            /\ served' = c
  /\ over' = over \cup {m}
  /\ Begin(t, <<UpdatePlayerStatus(m.from, "AVAILABLE")>>)
  /\ UNCHANGED <<entryVars, netVars, pending, nextId, rows, started, view>>

\* A match ends: in the router with a move, a resignation or a draw of one of
\* its players, or in the timer.  (Module MatchServer has the races between
\* threads that end the same match.)
EndMatch(t, c, m) ==
  /\ pc[t] = "idle" /\ m \in started \ over
  /\ IF t = "timer"
       THEN UNCHANGED served
       ELSE /\ t = "router" /\ link[c] = "open" /\ user[c] \in Players(m)
            /\ served' = c
  /\ over' = over \cup {m}
  /\ Begin(t, <<UpdatePlayerStatus(m.from, "AVAILABLE"),
                UpdatePlayerStatus(m.to, "AVAILABLE")>>)
  /\ UNCHANGED <<entryVars, netVars, pending, nextId, rows, started, view>>

-----------------------------------------------------------------------------
ThreadStep(t) == Set(t) \/ Tell(t) \/ Send(t)

Next ==
  \/ \E t \in Threads : ThreadStep(t)
  \/ SendList
  \/ \E c \in Conns :
       \/ ReadList(c) \/ Disconnect(c) \/ Gone(c)
       \/ \E d \in Conns : Reuse(c, d)
       \/ \E u \in Users : Login(c, u) \/ Logout(c, u) \/ SendChallenge(c, u)
       \/ \E ch \in pending : Accept(c, ch) \/ Decline(c, ch)
       \/ \E m \in rows : StartMatch(c, m)
       \/ \E t \in {"router", "timer"}, m \in started : EndMatch(t, c, m)

Spec == Init /\ [][Next]_vars

\* Every thread that is inside the server's code gets to run.
Fairness ==
  /\ WF_vars(ThreadStep("router") \/ SendList)
  /\ WF_vars(ThreadStep("timer"))
  /\ \A c \in Conns : WF_vars(ThreadStep(c) \/ Gone(c))

FairSpec == Spec /\ Fairness

-----------------------------------------------------------------------------
(* Properties.                                                             *)

\* Every variable holds a value of its type.
TypeOK ==
  /\ status \in [Users -> Statuses]
  /\ owner \in [Users -> Conns \cup {Nobody}]
  /\ user \in [Conns -> Users \cup {Nobody}]
  /\ link \in [Conns -> Links]
  /\ found \in [Conns -> Conns \cup {Nobody}]
  /\ pending \subseteq Challenges
  /\ nextId \in 1..MaxChallenge+1
  /\ over \subseteq started /\ started \subseteq rows /\ rows \subseteq Challenges
  /\ served \in Conns \cup {Nobody}
  /\ pc \in [Threads -> {"idle", "set", "tell", "send"}]
  /\ work \in [Threads -> Seq(Calls)]
  /\ mail \in [Threads -> Mails]
  /\ view \in [Conns -> Lists \cup {NoList}]

\* players_ holds raw ClientConnection pointers, and every handler and thread
\* uses them.  There are two ways to leave an entry whose connection is gone: a
\* later login on the same connection as another user, and a descriptor used
\* again before the thread of its connection ran removeClient.  In every other
\* case the entry is removed while the connection is there.
EntryOwnerAlive ==
  \A u \in Users : status[u] # "OFFLINE" =>
    LET c == owner[u] IN
    /\ c \in Conns /\ link[c] # "new"
    /\ user[c] = u /\ found[c] = c => link[c] # "gone"

\* However often clients answer, a challenge leads to one match or none: no
\* two rows come from one challenge, none from a challenge that can still be
\* answered, and nobody plays himself.
AcceptedOnce ==
  \A m \in rows :
    /\ m.from # m.to
    /\ \A n \in rows \cup pending : n.id = m.id => n = m /\ n \in rows \ pending

AtRest == \A t \in Threads : pc[t] = "idle"

\* When all threads are at rest, a player shown as IN_GAME has a match that
\* has not ended, however many challenges the player accepted meanwhile.
InGameHasMatch ==
  AtRest => \A u \in Users : status[u] = "IN_GAME" =>
              \E m \in rows \ over : u \in Players(m)

\* When a connection is lost, the entry of the user it was last logged in as
\* disappears, or is taken over by another connection, unless the thread finds
\* another connection under its descriptor.
LostPlayerForgotten ==
  \A c \in Conns, u \in Users :
    (link[c] = "lost" /\ user[c] = u /\ found[c] = c)
      ~> (status[u] = "OFFLINE" \/ owner[u] # c)

-----------------------------------------------------------------------------
(* What comments and tests in the repository say and the code does not do. *)

\* player_manager.h: PlayerManager tracks the online players.  At rest, the
\* user of every logged in connection has an entry.
OnlineListed ==
  AtRest => \A c \in Conns : link[c] = "open" => status[user[c]] # "OFFLINE"

\* test_disconnect.cpp: when a player disconnects, other clients remove them
\* from the lobby list.
DisconnectedUnlisted ==
  AtRest => \A c \in Conns, u \in Users :
    view[c] # NoList /\ (\A d \in Conns : user[d] = u => link[d] = "gone")
      => view[c][u] = "OFFLINE"
=============================================================================
