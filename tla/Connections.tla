---------------------------- MODULE Connections ----------------------------
(***************************************************************************)
(* The server's threads and sockets (server/src/server.cpp and             *)
(* client_connection.cpp): the accept thread, one thread for each accepted *)
(* client, the mutex of the router, and ClientConnection objects whose     *)
(* descriptors the kernel uses again.                                      *)
(*                                                                         *)
(* A descriptor is a number until a system call uses it.  A call that is   *)
(* blocked stays with the socket it was made for, even when another thread *)
(* closes the descriptor; a later call on the same number meets whichever  *)
(* socket has the number by then.  clients_mutex_ is only held for single  *)
(* accesses to clients_, which are steps here.                             *)
(*                                                                         *)
(* What a message says is left out: a handler answers its client and may   *)
(* then send to the others.  A message is one unit, its header and payload *)
(* together.  The thread that checks turn timeouts, which sends without    *)
(* handlers_mutex_ as a cleanup does, is left to module MatchServer.       *)
(***************************************************************************)
EXTENDS Naturals, FiniteSets

CONSTANTS
  Conns,  \* accepted sockets, their ClientConnection objects and threads
  Fds,    \* descriptor numbers
  Room,   \* messages that fit into a socket's buffers unread
  None

ASSUME ConnectionsAssumption ==
  /\ IsFiniteSet(Conns) /\ Room \in Nat \ {0}
  /\ None \notin Conns /\ None \notin Fds

VARIABLES
  peer,       \* the client's end: "none", "up" or "closed"
  unread,     \* messages sent to each client that it has not read
  fdTable,    \* the kernel's table: the socket of each open descriptor
  socketFd,   \* ClientConnection::socket_fd_, None for -1
  connected,  \* ClientConnection::connected_
  auth,       \* ClientConnection::authenticated_
  clients,    \* Server::clients_: the object of each number
  accepted,   \* the socket accept returned, not yet in clients_
  clientFd,   \* the argument client_fd of each client's thread
  mine,       \* its shared pointer in handleClient
  victim,     \* its shared pointer in removeClient
  router,     \* the thread that holds handlers_mutex_
  pc,         \* what each thread does next
  back,       \* what it does when it has sent all it had to send
  todo,       \* the objects it has still to send to
  obj,        \* the object it is sending to or disconnecting
  at          \* the socket of the system call it is blocked in

kernelVars == <<peer, unread, fdTable>>
objectVars == <<socketFd, connected, auth>>
serverVars == <<clients, accepted, router>>
localVars  == <<clientFd, mine, victim>>
callVars   == <<back, todo, obj, at>>
vars == <<kernelVars, objectVars, serverVars, localVars, pc, callVars>>

-----------------------------------------------------------------------------
Peers == {"none", "up", "closed"}
ConnOrNone == Conns \cup {None}
FdOrNone == Fds \cup {None}
Steps == {"none", "look", "receive", "recv", "route", "answered", "release",
          "erase", "leave", "done",
          "send", "call", "blocked", "drop", "close", "clear"}

Init ==
  /\ peer = [c \in Conns |-> "none"]
  /\ unread = [c \in Conns |-> 0]
  /\ fdTable = [f \in Fds |-> None]
  /\ socketFd = [c \in Conns |-> None]
  /\ connected = [c \in Conns |-> FALSE]
  /\ auth = [c \in Conns |-> FALSE]
  /\ clients = [f \in Fds |-> None]
  /\ accepted = None /\ router = None
  /\ clientFd = [c \in Conns |-> None]
  /\ mine = [c \in Conns |-> None]
  /\ victim = [c \in Conns |-> None]
  /\ pc = [c \in Conns |-> "none"]
  /\ back = [c \in Conns |-> "none"]
  /\ todo = [c \in Conns |-> {}]
  /\ obj = [c \in Conns |-> None]
  /\ at = [c \in Conns |-> None]

GoTo(t, step) == pc' = [pc EXCEPT ![t] = step]

\* The objects in clients_, as broadcast copies them.
Entries == {clients[f] : f \in Fds} \ {None}

-----------------------------------------------------------------------------
(* Clients.                                                                *)

ClientReads(c) ==
  /\ peer[c] = "up" /\ unread[c] > 0
  /\ unread' = [unread EXCEPT ![c] = @ - 1]
  /\ UNCHANGED <<peer, fdTable, objectVars, serverVars, localVars, pc, callVars>>

ClientCloses(c) ==
  /\ peer[c] = "up"
  /\ peer' = [peer EXCEPT ![c] = "closed"]
  /\ unread' = [unread EXCEPT ![c] = 0]
  /\ UNCHANGED <<fdTable, objectVars, serverVars, localVars, pc, callVars>>

-----------------------------------------------------------------------------
(* acceptConnections.                                                      *)

\* A client connects, and accept returns a free number.
Accept(c, f) ==
  /\ accepted = None /\ peer[c] = "none" /\ fdTable[f] = None
  /\ peer' = [peer EXCEPT ![c] = "up"]
  /\ fdTable' = [fdTable EXCEPT ![f] = c]
  /\ socketFd' = [socketFd EXCEPT ![c] = f]
  /\ connected' = [connected EXCEPT ![c] = TRUE]
  /\ clientFd' = [clientFd EXCEPT ![c] = f]
  /\ accepted' = c
  /\ UNCHANGED <<unread, auth, clients, router, mine, victim, pc, callVars>>

\* clients_[client_fd] = client replaces what is there, and the thread starts.
Register ==
  /\ accepted # None
  /\ clients' = [clients EXCEPT ![clientFd[accepted]] = accepted]
  /\ accepted' = None
  /\ GoTo(accepted, "look")
  /\ UNCHANGED <<kernelVars, objectVars, router, localVars, callVars>>

-----------------------------------------------------------------------------
(* ClientConnection::sendMessage, to one object of todo after the other.   *)

\* Thread t goes on with sending to the objects os, and then with step.
SendTo(t, os, step) ==
  /\ todo' = [todo EXCEPT ![t] = os]
  /\ back' = [back EXCEPT ![t] = IF os = {} THEN "none" ELSE step]
  /\ GoTo(t, IF os = {} THEN step ELSE "send")

\* Thread t is done with sending to o.
Sent(t, o) ==
  /\ SendTo(t, todo[t] \ {o}, back[t])
  /\ obj' = [obj EXCEPT ![t] = None]

\* if (!connected_ || socket_fd_ < 0) return false
SendData(t) ==
  /\ pc[t] = "send"
  /\ \E o \in todo[t] :
       IF connected[o]
         THEN /\ GoTo(t, "call")
              /\ obj' = [obj EXCEPT ![t] = o]
              /\ UNCHANGED <<back, todo>>
         ELSE Sent(t, o)
  /\ UNCHANGED <<kernelVars, objectVars, serverVars, localVars, at>>

\* send(socket_fd_, ...): the number may be -1, or another socket's by now.
Socket(o) == IF socketFd[o] = None THEN None ELSE fdTable[socketFd[o]]

SendCall(t) ==
  /\ pc[t] = "call"
  /\ IF Socket(obj[t]) = None
       THEN Sent(t, obj[t]) /\ UNCHANGED at     \* EBADF
       ELSE /\ GoTo(t, "blocked")
            /\ at' = [at EXCEPT ![t] = Socket(obj[t])]
            /\ UNCHANGED <<back, todo, obj>>
  /\ UNCHANGED <<kernelVars, objectVars, serverVars, localVars>>

SendDone(t) ==
  /\ pc[t] = "blocked" /\ peer[at[t]] = "up" /\ unread[at[t]] < Room
  /\ unread' = [unread EXCEPT ![at[t]] = @ + 1]
  /\ at' = [at EXCEPT ![t] = None]
  /\ Sent(t, obj[t])
  /\ UNCHANGED <<peer, fdTable, objectVars, serverVars, localVars>>

\* Mutant: sendData tries again after every error, not only after EINTR.
SendFailsRetry(t) ==
  /\ pc[t] = "blocked" /\ peer[at[t]] = "closed"
  /\ GoTo(t, "send")
  /\ at' = [at EXCEPT ![t] = None]
  /\ UNCHANGED <<kernelVars, objectVars, serverVars, localVars, back, todo, obj>>

SendFails(t) ==
  /\ pc[t] = "blocked" /\ peer[at[t]] = "closed"
  /\ GoTo(t, "drop")
  /\ at' = [at EXCEPT ![t] = None]
  /\ todo' = [todo EXCEPT ![t] = @ \ {obj[t]}]
  /\ UNCHANGED <<kernelVars, objectVars, serverVars, localVars, back, obj>>

-----------------------------------------------------------------------------
(* ClientConnection::disconnect of object obj, after which the thread goes *)
(* on with what it has to send.                                            *)

Dropped(t) == Sent(t, obj[t]) /\ UNCHANGED at

\* if (connected_)
Drop(t) ==
  /\ pc[t] = "drop"
  /\ IF connected[obj[t]]
       THEN GoTo(t, "close") /\ UNCHANGED <<back, todo, obj, at>>
       ELSE Dropped(t)
  /\ UNCHANGED <<kernelVars, objectVars, serverVars, localVars>>

\* connected_ = false; close(socket_fd_).  A second thread that comes here
\* closes the number again, whosever socket has it.
CloseFd(t) ==
  /\ pc[t] = "close"
  /\ connected' = [connected EXCEPT ![obj[t]] = FALSE]
  /\ fdTable' = [f \in Fds |-> IF f = socketFd[obj[t]] THEN None ELSE fdTable[f]]
  /\ GoTo(t, "clear")
  /\ UNCHANGED <<peer, unread, socketFd, auth, serverVars, localVars, callVars>>

ClearFd(t) ==
  /\ pc[t] = "clear"
  /\ socketFd' = [socketFd EXCEPT ![obj[t]] = None]
  /\ Dropped(t)
  /\ UNCHANGED <<kernelVars, connected, auth, serverVars, localVars>>

Sending(t) ==
  \/ SendData(t) \/ SendCall(t) \/ SendDone(t) \/ SendFails(t)
  \/ Drop(t) \/ CloseFd(t) \/ ClearFd(t)

-----------------------------------------------------------------------------
(* handleClient, the thread of one client.                                 *)

\* Mutant: an entry that is not found is not noticed.
LookUpUnchecked(c) ==
  /\ pc[c] = "look"
  /\ GoTo(c, "receive")
  /\ mine' = [mine EXCEPT ![c] = clients[clientFd[c]]]
  /\ UNCHANGED <<kernelVars, objectVars, serverVars, clientFd, victim, callVars>>

\* Mutant: a thread whose client is disconnected already has nothing to do.
LookUpConnected(c) ==
  /\ pc[c] = "look"
  /\ LET o == clients[clientFd[c]] IN
     IF o # None /\ connected[o]
       THEN GoTo(c, "receive") /\ mine' = [mine EXCEPT ![c] = o]
       ELSE GoTo(c, "done") /\ UNCHANGED mine
  /\ UNCHANGED <<kernelVars, objectVars, serverVars, clientFd, victim, callVars>>

LookUp(c) ==
  /\ pc[c] = "look"
  /\ LET o == clients[clientFd[c]] IN
     IF o # None
       THEN GoTo(c, "receive") /\ mine' = [mine EXCEPT ![c] = o]
       ELSE GoTo(c, "done") /\ UNCHANGED mine
  /\ UNCHANGED <<kernelVars, objectVars, serverVars, clientFd, victim, callVars>>

\* receiveMessage calls recv.
Receive(c) ==
  /\ pc[c] = "receive"
  /\ LET o == mine[c] IN
     CASE ~connected[o] ->
            GoTo(c, "erase") /\ UNCHANGED callVars
       [] connected[o] /\ Socket(o) = None ->   \* EBADF
            /\ GoTo(c, "drop")
            /\ back' = [back EXCEPT ![c] = "erase"]
            /\ obj' = [obj EXCEPT ![c] = o]
            /\ UNCHANGED <<todo, at>>
       [] connected[o] /\ Socket(o) # None ->
            /\ GoTo(c, "recv")
            /\ at' = [at EXCEPT ![c] = Socket(o)]
            /\ UNCHANGED <<back, todo, obj>>
  /\ UNCHANGED <<kernelVars, objectVars, serverVars, localVars>>

\* recv returns 0.
ReceiveEnds(c) ==
  /\ pc[c] = "recv" /\ peer[at[c]] = "closed"
  /\ GoTo(c, "drop")
  /\ back' = [back EXCEPT ![c] = "erase"]
  /\ obj' = [obj EXCEPT ![c] = mine[c]]
  /\ at' = [at EXCEPT ![c] = None]
  /\ UNCHANGED <<kernelVars, objectVars, serverVars, localVars, todo>>

\* recv returns a header.  If the object was disconnected meanwhile, a
\* payload is not read any more.
ReceiveMessage(c) ==
  /\ pc[c] = "recv" /\ peer[at[c]] = "up"
  /\ \/ GoTo(c, "route")
     \/ ~connected[mine[c]] /\ GoTo(c, "erase")
  /\ at' = [at EXCEPT ![c] = None]
  /\ UNCHANGED <<kernelVars, objectVars, serverVars, localVars, back, todo, obj>>

\* routeMessage takes handlers_mutex_, and the handler, perhaps that of a
\* login, answers.
Route(c) ==
  /\ pc[c] = "route" /\ router = None
  /\ router' = c
  /\ \E login \in BOOLEAN :
       auth' = [auth EXCEPT ![mine[c]] = login \/ @]
  /\ SendTo(c, {mine[c]}, "answered")
  /\ UNCHANGED <<kernelVars, socketFd, connected, clients, accepted, localVars, obj, at>>

\* sendToClient sends to whoever has the number now; broadcast to all.
Spread(c) ==
  /\ pc[c] = "answered"
  /\ \E os \in {{}, Entries} \cup {{o} : o \in Entries} : SendTo(c, os, "release")
  /\ UNCHANGED <<kernelVars, objectVars, serverVars, localVars, obj, at>>

Release(c) ==
  /\ pc[c] = "release"
  /\ router' = None
  /\ GoTo(c, "receive")
  /\ UNCHANGED <<kernelVars, objectVars, clients, accepted, localVars, callVars>>

\* removeClient takes the entry of its number; for an authenticated client
\* it ends the matches and tells all that the player is offline.
Erase(c) ==
  /\ pc[c] = "erase"
  /\ LET o == clients[clientFd[c]] IN
     /\ victim' = [victim EXCEPT ![c] = o]
     /\ IF o # None /\ auth[o]
          THEN SendTo(c, Entries \ {o}, "leave")
          ELSE SendTo(c, {}, "leave")
  /\ clients' = [clients EXCEPT ![clientFd[c]] = None]
  /\ mine' = [mine EXCEPT ![c] = None]
  /\ UNCHANGED <<kernelVars, objectVars, accepted, router, clientFd, obj, at>>

Leave(c) ==
  /\ pc[c] = "leave"
  /\ IF victim[c] = None
       THEN GoTo(c, "done") /\ UNCHANGED <<back, obj>>
       ELSE /\ GoTo(c, "drop")
            /\ back' = [back EXCEPT ![c] = "done"]
            /\ obj' = [obj EXCEPT ![c] = victim[c]]
  /\ UNCHANGED <<kernelVars, objectVars, serverVars, localVars, todo, at>>

-----------------------------------------------------------------------------
ClientStep(c) ==
  \/ LookUp(c) \/ Receive(c) \/ ReceiveEnds(c) \/ Route(c) \/ Spread(c)
  \/ Release(c) \/ Erase(c) \/ Leave(c) \/ Sending(c)

Next ==
  \/ Register
  \/ \E c \in Conns :
       \/ ClientReads(c) \/ ClientCloses(c)
       \/ ClientStep(c) \/ ReceiveMessage(c)
       \/ \E f \in Fds : Accept(c, f)

Spec == Init /\ [][Next]_vars

\* Threads run; clients read what they are sent, as receiveLoop of the client
\* does; and neither handlers_mutex_ nor the room in a buffer always goes to
\* somebody else.
Fairness ==
  /\ WF_vars(Register)
  /\ \A c \in Conns :
       /\ WF_vars(ClientReads(c)) /\ WF_vars(ClientStep(c))
       /\ SF_vars(SendDone(c)) /\ SF_vars(Route(c))

FairSpec == Spec /\ Fairness

-----------------------------------------------------------------------------
\* In handleClient's loop.
Serving == {"receive", "recv", "route", "answered", "release"}

TypeOK ==
  /\ peer \in [Conns -> Peers] /\ unread \in [Conns -> 0..Room]
  /\ fdTable \in [Fds -> ConnOrNone] /\ clients \in [Fds -> ConnOrNone]
  /\ socketFd \in [Conns -> FdOrNone] /\ clientFd \in [Conns -> FdOrNone]
  /\ connected \in [Conns -> BOOLEAN] /\ auth \in [Conns -> BOOLEAN]
  /\ accepted \in ConnOrNone /\ router \in ConnOrNone
  /\ mine \in [Conns -> ConnOrNone] /\ victim \in [Conns -> ConnOrNone]
  /\ pc \in [Conns -> Steps]
  /\ back \in [Conns ->
       {"none", "answered", "release", "erase", "leave", "done"}]
  /\ todo \in [Conns -> SUBSET Conns]
  /\ obj \in [Conns -> ConnOrNone] /\ at \in [Conns -> ConnOrNone]
  /\ \A c \in Conns : pc[c] \in Serving => mine[c] \in Conns

\* An entry of clients_ has a thread that has still to remove the entry of its
\* number, whichever objects and sockets had the number before.
EntryServed ==
  \A f \in Fds : clients[f] # None =>
    \E c \in Conns :
      /\ clientFd[c] = f /\ pc[c] \notin {"none", "leave", "done"}
      /\ back[c] \notin {"leave", "done"}

\* Whatever a handler sends, the router gets free for the other clients.
RouterReleased == \A c \in Conns : (router = c) ~> (router # c)

\* A client that has gone does not stay in clients_.
LostErased ==
  \A c \in Conns : (peer[c] = "closed" /\ c \in Entries) ~> (c \notin Entries)

\* The players in clients_ who lose their connection are said goodbye to: a
\* removeClient finds the object before something else takes its place.
FarewellSaid ==
  \A c \in Conns :
    auth[c] /\ c \notin Entries =>
      \E d \in Conns : victim[d] = c

\* An object only writes to the socket it was made for.
WritesToOwn == \A t \in Conns : pc[t] = "blocked" => at[t] = obj[t]
=============================================================================
