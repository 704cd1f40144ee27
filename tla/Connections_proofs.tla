------------------------ MODULE Connections_proofs ------------------------
(***************************************************************************)
(* Proofs about Connections, for any number of clients and descriptors:    *)
(* type correctness, and that every entry of clients_ has a thread that    *)
(* will remove the entry of its number.                                    *)
(***************************************************************************)
EXTENDS Connections, TLAPS

(***************************************************************************)
(* TypeOK by the part of the program that keeps the variables.             *)
(***************************************************************************)
KernelOK ==
  /\ peer \in [Conns -> Peers] /\ unread \in [Conns -> 0..Room]
  /\ fdTable \in [Fds -> ConnOrNone]

ObjectsOK ==
  /\ socketFd \in [Conns -> FdOrNone]
  /\ connected \in [Conns -> BOOLEAN] /\ auth \in [Conns -> BOOLEAN]

ServerOK ==
  /\ clients \in [Fds -> ConnOrNone]
  /\ accepted \in ConnOrNone /\ router \in ConnOrNone

LocalsOK ==
  /\ clientFd \in [Conns -> FdOrNone]
  /\ mine \in [Conns -> ConnOrNone] /\ victim \in [Conns -> ConnOrNone]

Backs == {"none", "answered", "release", "erase", "leave", "done"}

CallsOK ==
  /\ pc \in [Conns -> Steps] /\ back \in [Conns -> Backs]
  /\ todo \in [Conns -> SUBSET Conns]
  /\ obj \in [Conns -> ConnOrNone] /\ at \in [Conns -> ConnOrNone]

TypesOK == KernelOK /\ ObjectsOK /\ ServerOK /\ LocalsOK /\ CallsOK

(***************************************************************************)
(* What a thread does next, against what it does when it has sent all.     *)
(***************************************************************************)
InSend == {"send", "call", "blocked", "drop", "close", "clear"}

Control(c) ==
  /\ pc[c] = "none" => back[c] = "none"
  /\ pc[c] # "none" => clientFd[c] \in Fds
  /\ pc[c] \in InSend => back[c] # "none"
  /\ pc[c] \in InSend \ {"send"} => obj[c] \in Conns
  /\ pc[c] \in Serving \/ back[c] \in {"answered", "release"} => mine[c] \in Conns

ThreadInv == \A c \in Conns : Control(c)

\* A thread starts when its socket is in clients_, not before.
AcceptInv ==
  /\ \A c \in Conns : peer[c] = "none" => pc[c] = "none"
  /\ accepted # None =>
       /\ pc[accepted] = "none" /\ peer[accepted] # "none"
       /\ clientFd[accepted] \in Fds

\* The thread has still to remove the entry of its number.
Active(c) ==
  /\ pc[c] \notin {"none", "leave", "done"}
  /\ back[c] \notin {"leave", "done"}

Inv == TypesOK /\ ThreadInv /\ AcceptInv /\ EntryServed

\* A step of thread t leaves the others alone.
Frame(t) ==
  \A c \in Conns \ {t} :
    /\ pc'[c] = pc[c] /\ back'[c] = back[c]
    /\ mine'[c] = mine[c] /\ obj'[c] = obj[c]

-----------------------------------------------------------------------------
(* Lemmas about the invariant.                                             *)

\* Initially no thread runs and no entry exists.
LEMMA InvInit == Init => Inv
<1> SUFFICES ASSUME Init PROVE Inv
  OBVIOUS
<1>1. KernelOK
  BY ConnectionsAssumption DEF Init, KernelOK, Peers, ConnOrNone
<1>2. ObjectsOK
  BY DEF Init, ObjectsOK, FdOrNone
<1>3. ServerOK
  BY DEF Init, ServerOK, ConnOrNone
<1>4. LocalsOK
  BY DEF Init, LocalsOK, ConnOrNone, FdOrNone
<1>5. CallsOK
  BY DEF Init, CallsOK, ConnOrNone, Steps, Backs
<1>6. ThreadInv
  BY DEF Init, ThreadInv, Control, InSend, Serving
<1>7. AcceptInv
  BY DEF Init, AcceptInv
<1>8. EntryServed
  BY DEF Init, EntryServed
<1>9. QED
  BY <1>1, <1>2, <1>3, <1>4, <1>5, <1>6, <1>7, <1>8 DEF Inv, TypesOK

\* A step of one thread that adds no entry: those that stay have the thread
\* they had before.
LEMMA ThreadMoves ==
  ASSUME Inv, NEW t \in Conns, Frame(t),
         UNCHANGED <<peer, accepted, clientFd>>,
         pc[t] # "none", Control(t)', pc'[t] # "none",
         \A f \in Fds : clients'[f] # None =>
           clients[f] # None /\ (clientFd[t] = f /\ Active(t) => Active(t)')
  PROVE  ThreadInv' /\ AcceptInv' /\ EntryServed'
<1> USE DEF Inv
<1>1. ThreadInv'
  BY DEF ThreadInv, Control, Frame
<1>2. AcceptInv'
  <2>1. accepted # t
    BY ConnectionsAssumption DEF AcceptInv
  <2>2. \A c \in Conns : peer'[c] = "none" => pc'[c] = "none"
    BY DEF AcceptInv, Frame
  <2>3. accepted' # None => accepted \in Conns
    BY DEF TypesOK, ServerOK, ConnOrNone
  <2>4. QED
    BY <2>1, <2>2, <2>3 DEF AcceptInv, Frame
<1>3. EntryServed'
  <2> SUFFICES ASSUME NEW f \in Fds, clients'[f] # None
               PROVE  \E c \in Conns : clientFd[c] = f /\ Active(c)'
    BY DEF EntryServed, Active
  <2>1. PICK c \in Conns : clientFd[c] = f /\ Active(c)
    BY DEF EntryServed, Active
  <2>2. Active(c)'
    BY <2>1 DEF Frame, Active
  <2>3. QED
    BY <2>1, <2>2
<1>4. QED
  BY <1>1, <1>2, <1>3

\* A thread that still has to remove its entry if it had before.
LEMMA ThreadStep ==
  ASSUME Inv, NEW t \in Conns, Frame(t),
         UNCHANGED <<peer, accepted, clientFd, clients>>,
         pc[t] # "none", Control(t)', pc'[t] # "none",
         Active(t) => Active(t)'
  PROVE  ThreadInv' /\ AcceptInv' /\ EntryServed'
BY ThreadMoves

\* SendTo is well typed, and its thread keeps what it has to do afterwards.
LEMMA SendToStep ==
  ASSUME CallsOK, NEW t \in Conns, NEW os \in SUBSET Conns,
         NEW step \in Backs \ {"none"}, SendTo(t, os, step)
  PROVE  /\ pc' \in [Conns -> Steps] /\ back' \in [Conns -> Backs]
         /\ todo' \in [Conns -> SUBSET Conns]
         /\ \A c \in Conns \ {t} : pc'[c] = pc[c] /\ back'[c] = back[c]
         /\ \/ pc'[t] = step /\ back'[t] = "none"
            \/ pc'[t] = "send" /\ back'[t] = step
<1>1. todo' \in [Conns -> SUBSET Conns]
  BY DEF SendTo, CallsOK
<1>2. CASE os = {}
  BY <1>1, <1>2 DEF SendTo, GoTo, CallsOK, Steps, Backs
<1>3. CASE os # {}
  BY <1>1, <1>3 DEF SendTo, GoTo, CallsOK, Steps, Backs
<1>4. QED
  BY <1>2, <1>3

\* A thread that is done with one object keeps the invariant.
LEMMA SentStep ==
  ASSUME Inv, NEW t \in Conns, NEW o, pc[t] \in InSend, Sent(t, o),
         UNCHANGED <<mine, peer, accepted, clientFd, clients>>,
         at' \in [Conns -> ConnOrNone]
  PROVE  CallsOK' /\ ThreadInv' /\ AcceptInv' /\ EntryServed'
<1> USE DEF Inv, TypesOK
<1>1. back[t] \in Backs \ {"none"}
  BY DEF ThreadInv, Control, CallsOK
<1>2. todo[t] \ {o} \in SUBSET Conns
  BY DEF CallsOK
<1>3. SendTo(t, todo[t] \ {o}, back[t])
  BY DEF Sent
<1>4. /\ pc' \in [Conns -> Steps] /\ back' \in [Conns -> Backs]
      /\ todo' \in [Conns -> SUBSET Conns]
      /\ \A c \in Conns \ {t} : pc'[c] = pc[c] /\ back'[c] = back[c]
      /\ \/ pc'[t] = back[t] /\ back'[t] = "none"
         \/ pc'[t] = "send" /\ back'[t] = back[t]
  BY <1>1, <1>2, <1>3, SendToStep
<1>5. CallsOK'
  <2>1. obj' \in [Conns -> ConnOrNone]
    BY DEF Sent, CallsOK, ConnOrNone
  <2>2. QED
    BY <1>4, <2>1 DEF CallsOK
<1>6. Control(t)'
  BY <1>1, <1>4 DEF ThreadInv, Control, InSend, Serving, Backs
<1>7. Active(t) => Active(t)'
  BY <1>1, <1>4 DEF Active, Backs
<1>8. Frame(t)
  BY <1>4 DEF Frame, Sent, CallsOK
<1>9. pc'[t] # "none" /\ pc[t] # "none"
  BY <1>1, <1>4 DEF InSend
<1>10. QED
  BY <1>5, <1>6, <1>7, <1>8, <1>9, ThreadStep

-----------------------------------------------------------------------------
(* One lemma for each step of a thread.                                    *)

\* if (!connected_ || socket_fd_ < 0) return false
LEMMA SendDataStep ==
  ASSUME Inv, NEW t \in Conns, SendData(t)
  PROVE  Inv'
<1> USE DEF Inv, TypesOK
<1>1. KernelOK' /\ ObjectsOK' /\ ServerOK' /\ LocalsOK'
  BY DEF SendData, KernelOK, ObjectsOK, ServerOK, LocalsOK,
         kernelVars, objectVars, serverVars, localVars
<1>2. UNCHANGED <<mine, peer, accepted, clientFd, clients, at>>
  BY DEF SendData, kernelVars, serverVars, localVars
<1>3. PICK o \in todo[t] :
        IF connected[o]
          THEN /\ GoTo(t, "call")
               /\ obj' = [obj EXCEPT ![t] = o]
               /\ UNCHANGED <<back, todo>>
          ELSE Sent(t, o)
  BY DEF SendData
<1>4. CASE connected[o]
  <2>1. CallsOK'
    BY <1>2, <1>3, <1>4 DEF GoTo, CallsOK, Steps, ConnOrNone
  <2>2. Control(t)' /\ (Active(t) => Active(t)') /\ Frame(t)
    BY <1>2, <1>3, <1>4
       DEF SendData, GoTo, CallsOK, ThreadInv, Control, InSend, Serving, Active, Frame
  <2>3. pc[t] # "none" /\ pc'[t] # "none"
    BY <1>3, <1>4 DEF SendData, GoTo, CallsOK
  <2>4. QED
    BY <1>1, <1>2, <2>1, <2>2, <2>3, ThreadStep
<1>5. CASE ~connected[o]
  <2>1. pc[t] \in InSend /\ Sent(t, o)
    BY <1>3, <1>5 DEF SendData, InSend
  <2>2. at' \in [Conns -> ConnOrNone]
    BY <1>2 DEF CallsOK
  <2>3. QED
    BY <1>1, <1>2, <2>1, <2>2, SentStep
<1>6. QED
  BY <1>4, <1>5

\* send(socket_fd_, ...)
LEMMA SendCallStep ==
  ASSUME Inv, NEW t \in Conns, SendCall(t)
  PROVE  Inv'
<1> USE DEF Inv, TypesOK
<1>1. KernelOK' /\ ObjectsOK' /\ ServerOK' /\ LocalsOK'
  BY DEF SendCall, KernelOK, ObjectsOK, ServerOK, LocalsOK,
         kernelVars, objectVars, serverVars, localVars
<1>2. UNCHANGED <<mine, peer, accepted, clientFd, clients>>
  BY DEF SendCall, kernelVars, serverVars, localVars
<1>3. CASE Socket(obj[t]) = None
  <2>1. Sent(t, obj[t]) /\ UNCHANGED at /\ pc[t] \in InSend
    BY <1>3 DEF SendCall, InSend
  <2>2. at' \in [Conns -> ConnOrNone]
    BY <2>1 DEF CallsOK
  <2>3. QED
    BY <1>1, <1>2, <2>1, <2>2, SentStep
<1>4. CASE Socket(obj[t]) # None
  <2>1. /\ pc[t] = "call"
        /\ pc' = [pc EXCEPT ![t] = "blocked"]
        /\ at' = [at EXCEPT ![t] = Socket(obj[t])]
        /\ UNCHANGED <<back, todo, obj>>
    BY <1>4 DEF SendCall, GoTo
  <2>2. Socket(obj[t]) \in Conns
    <3>1. obj[t] \in Conns
      BY <2>1 DEF ThreadInv, Control, InSend
    <3>2. \A f \in Fds : fdTable[f] \in ConnOrNone
      BY DEF KernelOK
    <3>3. socketFd[obj[t]] \in FdOrNone
      BY <3>1 DEF ObjectsOK
    <3>4. QED
      BY <1>4, <2>1, <3>1, <3>2, <3>3 DEF Socket, ConnOrNone, FdOrNone
  <2>3. CallsOK'
    BY <2>1, <2>2 DEF CallsOK, Steps, ConnOrNone
  <2>4. Control(t)' /\ (Active(t) => Active(t)') /\ Frame(t)
    BY <1>2, <2>1
       DEF CallsOK, ThreadInv, Control, InSend, Serving, Active, Frame
  <2>5. pc[t] # "none" /\ pc'[t] # "none"
    BY <2>1 DEF CallsOK
  <2>6. QED
    BY <1>1, <1>2, <2>3, <2>4, <2>5, ThreadStep
<1>5. QED
  BY <1>3, <1>4

\* The message fits into the buffer.
LEMMA SendDoneStep ==
  ASSUME Inv, NEW t \in Conns, SendDone(t)
  PROVE  Inv'
<1> USE DEF Inv, TypesOK
<1>1. KernelOK'
  <2>1. at[t] \in Conns => unread[at[t]] + 1 \in 0..Room
    BY ConnectionsAssumption DEF SendDone, KernelOK
  <2>2. /\ unread' = [unread EXCEPT ![at[t]] = @ + 1]
        /\ UNCHANGED <<peer, fdTable>>
    BY DEF SendDone
  <2>3. unread' \in [Conns -> 0..Room]
    BY <2>1, <2>2 DEF KernelOK
  <2>4. QED
    BY <2>2, <2>3 DEF KernelOK
<1>2. ObjectsOK' /\ ServerOK' /\ LocalsOK'
  BY DEF SendDone, ObjectsOK, ServerOK, LocalsOK, objectVars, serverVars, localVars
<1>3. UNCHANGED <<mine, peer, accepted, clientFd, clients>>
  BY DEF SendDone, serverVars, localVars
<1>4. pc[t] \in InSend /\ Sent(t, obj[t])
  BY DEF SendDone, InSend
<1>5. at' \in [Conns -> ConnOrNone]
  BY DEF SendDone, CallsOK, ConnOrNone
<1>6. QED
  BY <1>1, <1>2, <1>3, <1>4, <1>5, SentStep

\* The client has gone.
LEMMA SendFailsStep ==
  ASSUME Inv, NEW t \in Conns, SendFails(t)
  PROVE  Inv'
<1> USE DEF Inv, TypesOK
<1>1. KernelOK' /\ ObjectsOK' /\ ServerOK' /\ LocalsOK'
  BY DEF SendFails, KernelOK, ObjectsOK, ServerOK, LocalsOK,
         kernelVars, objectVars, serverVars, localVars
<1>2. UNCHANGED <<mine, peer, accepted, clientFd, clients>>
  BY DEF SendFails, kernelVars, serverVars, localVars
<1>3. CallsOK'
  BY DEF SendFails, GoTo, CallsOK, Steps, ConnOrNone
<1>4. Control(t)' /\ (Active(t) => Active(t)') /\ Frame(t)
  BY <1>2 DEF SendFails, GoTo, CallsOK, ThreadInv, Control, InSend, Serving, Active, Frame
<1>5. pc[t] # "none" /\ pc'[t] # "none"
  BY DEF SendFails, GoTo, CallsOK
<1>6. QED
  BY <1>1, <1>2, <1>3, <1>4, <1>5, ThreadStep

\* if (connected_)
LEMMA DropStep ==
  ASSUME Inv, NEW t \in Conns, Drop(t)
  PROVE  Inv'
<1> USE DEF Inv, TypesOK
<1>1. KernelOK' /\ ObjectsOK' /\ ServerOK' /\ LocalsOK'
  BY DEF Drop, KernelOK, ObjectsOK, ServerOK, LocalsOK,
         kernelVars, objectVars, serverVars, localVars
<1>2. UNCHANGED <<mine, peer, accepted, clientFd, clients>>
  BY DEF Drop, kernelVars, serverVars, localVars
<1>3. CASE connected[obj[t]]
  <2>1. CallsOK'
    BY <1>3 DEF Drop, GoTo, CallsOK, Steps
  <2>2. Control(t)' /\ (Active(t) => Active(t)') /\ Frame(t)
    BY <1>2, <1>3
       DEF Drop, GoTo, CallsOK, ThreadInv, Control, InSend, Serving, Active, Frame
  <2>3. pc[t] # "none" /\ pc'[t] # "none"
    BY <1>3 DEF Drop, GoTo, CallsOK
  <2>4. QED
    BY <1>1, <1>2, <2>1, <2>2, <2>3, ThreadStep
<1>4. CASE ~connected[obj[t]]
  <2>1. pc[t] \in InSend /\ Sent(t, obj[t]) /\ UNCHANGED at
    BY <1>4 DEF Drop, Dropped, InSend
  <2>2. at' \in [Conns -> ConnOrNone]
    BY <2>1 DEF CallsOK
  <2>3. QED
    BY <1>1, <1>2, <2>1, <2>2, SentStep
<1>5. QED
  BY <1>3, <1>4

\* connected_ = false; close(socket_fd_)
LEMMA CloseFdStep ==
  ASSUME Inv, NEW t \in Conns, CloseFd(t)
  PROVE  Inv'
<1> USE DEF Inv, TypesOK
<1>1. KernelOK'
  BY DEF CloseFd, KernelOK, ConnOrNone
<1>2. ObjectsOK'
  BY DEF CloseFd, ObjectsOK
<1>3. ServerOK' /\ LocalsOK'
  BY DEF CloseFd, ServerOK, LocalsOK, serverVars, localVars
<1>4. CallsOK'
  BY DEF CloseFd, GoTo, CallsOK, Steps, callVars
<1>5. UNCHANGED <<mine, peer, accepted, clientFd, clients>>
  BY DEF CloseFd, serverVars, localVars
<1>6. Control(t)' /\ (Active(t) => Active(t)') /\ Frame(t)
  BY <1>5 DEF CloseFd, GoTo, CallsOK, ThreadInv, Control, InSend, Serving, Active,
              Frame, callVars
<1>7. pc[t] # "none" /\ pc'[t] # "none"
  BY DEF CloseFd, GoTo, CallsOK
<1>8. QED
  BY <1>1, <1>2, <1>3, <1>4, <1>5, <1>6, <1>7, ThreadStep

\* socket_fd_ = -1
LEMMA ClearFdStep ==
  ASSUME Inv, NEW t \in Conns, ClearFd(t)
  PROVE  Inv'
<1> USE DEF Inv, TypesOK
<1>1. ObjectsOK'
  BY DEF ClearFd, ObjectsOK, FdOrNone
<1>2. KernelOK' /\ ServerOK' /\ LocalsOK'
  BY DEF ClearFd, KernelOK, ServerOK, LocalsOK, kernelVars, serverVars, localVars
<1>3. UNCHANGED <<mine, peer, accepted, clientFd, clients>>
  BY DEF ClearFd, kernelVars, serverVars, localVars
<1>4. pc[t] \in InSend /\ Sent(t, obj[t]) /\ UNCHANGED at
  BY DEF ClearFd, Dropped, InSend
<1>5. at' \in [Conns -> ConnOrNone]
  BY <1>4 DEF CallsOK
<1>6. QED
  BY <1>1, <1>2, <1>3, <1>4, <1>5, SentStep

\* sendMessage and disconnect, whichever thread runs them.
LEMMA SendingStep ==
  ASSUME Inv, NEW t \in Conns, Sending(t)
  PROVE  Inv'
BY SendDataStep, SendCallStep, SendDoneStep, SendFailsStep, DropStep, CloseFdStep,
   ClearFdStep DEF Sending

-----------------------------------------------------------------------------
(* handleClient.                                                           *)

\* A thread that finds an entry serves its object; one that finds none ends,
\* and its number has no entry it could have to remove.
LEMMA LookUpStep ==
  ASSUME Inv, NEW c \in Conns, LookUp(c)
  PROVE  Inv'
<1> USE DEF Inv, TypesOK
<1>1. KernelOK' /\ ObjectsOK' /\ ServerOK'
  BY DEF LookUp, KernelOK, ObjectsOK, ServerOK, kernelVars, objectVars, serverVars
<1>2. UNCHANGED <<peer, accepted, clientFd, clients, back, todo, obj, at>>
  BY DEF LookUp, kernelVars, serverVars, callVars
<1>3. CallsOK'
  BY <1>2 DEF LookUp, GoTo, CallsOK, Steps
<1>4. CASE clients[clientFd[c]] # None
  <2>1. clients[clientFd[c]] \in Conns
    BY <1>4 DEF ServerOK, ConnOrNone, LookUp, ThreadInv, Control
  <2>2. LocalsOK'
    BY <1>4, <2>1 DEF LookUp, LocalsOK, ConnOrNone
  <2>3. Control(c)' /\ (Active(c) => Active(c)') /\ Frame(c)
    BY <1>2, <1>4, <2>1
       DEF LookUp, GoTo, CallsOK, LocalsOK, ThreadInv, Control, InSend, Serving,
           Active, Frame
  <2>4. pc[c] # "none" /\ pc'[c] # "none"
    BY <1>4 DEF LookUp, GoTo, CallsOK
  <2>5. QED
    BY <1>1, <1>2, <1>3, <2>2, <2>3, <2>4, ThreadStep
<1>5. CASE clients[clientFd[c]] = None
  <2>1. /\ pc[c] = "look" /\ pc' = [pc EXCEPT ![c] = "done"]
        /\ UNCHANGED <<mine, victim>>
    BY <1>5 DEF LookUp, GoTo
  <2>2. LocalsOK'
    BY <1>2, <2>1 DEF LocalsOK
  <2>3. Control(c)' /\ Frame(c)
    BY <1>2, <2>1 DEF CallsOK, ThreadInv, Control, InSend, Serving, Frame
  <2>4. pc[c] # "none" /\ pc'[c] # "none"
    BY <2>1 DEF CallsOK
  <2>5. \A f \in Fds : clients'[f] # None => clients[f] # None /\ clientFd[c] # f
    BY <1>2, <1>5
  <2>6. QED
    BY <1>1, <1>2, <1>3, <2>2, <2>3, <2>4, <2>5, ThreadMoves
<1>6. QED
  BY <1>4, <1>5

\* recv is called, or the object is disconnected already.
LEMMA ReceiveStep ==
  ASSUME Inv, NEW c \in Conns, Receive(c)
  PROVE  Inv'
<1> USE DEF Inv, TypesOK
<1>1. KernelOK' /\ ObjectsOK' /\ ServerOK' /\ LocalsOK'
  BY DEF Receive, KernelOK, ObjectsOK, ServerOK, LocalsOK,
         kernelVars, objectVars, serverVars, localVars
<1>2. UNCHANGED <<mine, peer, accepted, clientFd, clients>>
  BY DEF Receive, kernelVars, serverVars, localVars
<1>3. pc[c] = "receive" /\ mine[c] \in Conns
  BY DEF Receive, ThreadInv, Control, Serving
<1>4. /\ CallsOK' /\ Control(c)' /\ (Active(c) => Active(c)') /\ Frame(c)
      /\ pc'[c] # "none"
  <2>1. CASE ~connected[mine[c]]
    <3>1. pc' = [pc EXCEPT ![c] = "erase"] /\ UNCHANGED <<back, todo, obj, at>>
      BY <2>1 DEF Receive, GoTo, callVars
    <3>2. QED
      BY <1>2, <1>3, <3>1
         DEF CallsOK, Steps, ThreadInv, Control, InSend, Serving, Active, Frame
  <2>2. CASE connected[mine[c]] /\ Socket(mine[c]) = None
    <3>1. /\ pc' = [pc EXCEPT ![c] = "drop"]
          /\ back' = [back EXCEPT ![c] = "erase"]
          /\ obj' = [obj EXCEPT ![c] = mine[c]]
          /\ UNCHANGED <<todo, at>>
      BY <2>2 DEF Receive, GoTo
    <3>2. QED
      BY <1>2, <1>3, <3>1
         DEF CallsOK, Steps, Backs, ConnOrNone, ThreadInv, Control, InSend, Serving,
             Active, Frame
  <2>3. CASE connected[mine[c]] /\ Socket(mine[c]) # None
    <3>1. /\ pc' = [pc EXCEPT ![c] = "recv"]
          /\ at' = [at EXCEPT ![c] = Socket(mine[c])]
          /\ UNCHANGED <<back, todo, obj>>
      BY <2>3 DEF Receive, GoTo
    <3>2. socketFd[mine[c]] \in FdOrNone
      BY <1>3 DEF ObjectsOK
    <3>3. \A f \in Fds : fdTable[f] \in ConnOrNone
      BY DEF KernelOK
    <3>4. Socket(mine[c]) \in Conns
      BY <2>3, <3>2, <3>3 DEF Socket, ConnOrNone, FdOrNone
    <3>5. QED
      BY <1>2, <1>3, <3>1, <3>4
         DEF CallsOK, Steps, ConnOrNone, ThreadInv, Control, InSend, Serving,
             Active, Frame
  <2>4. QED
    BY <2>1, <2>2, <2>3
<1>5. QED
  BY <1>1, <1>2, <1>3, <1>4, ThreadStep

\* recv returns 0.
LEMMA ReceiveEndsStep ==
  ASSUME Inv, NEW c \in Conns, ReceiveEnds(c)
  PROVE  Inv'
<1> USE DEF Inv, TypesOK
<1>1. KernelOK' /\ ObjectsOK' /\ ServerOK' /\ LocalsOK'
  BY DEF ReceiveEnds, KernelOK, ObjectsOK, ServerOK, LocalsOK,
         kernelVars, objectVars, serverVars, localVars
<1>2. UNCHANGED <<mine, peer, accepted, clientFd, clients>>
  BY DEF ReceiveEnds, kernelVars, serverVars, localVars
<1>3. pc[c] = "recv" /\ mine[c] \in Conns
  BY DEF ReceiveEnds, ThreadInv, Control, Serving
<1>4. CallsOK'
  BY <1>3 DEF ReceiveEnds, GoTo, CallsOK, Steps, Backs, ConnOrNone
<1>5. /\ Control(c)' /\ (Active(c) => Active(c)') /\ Frame(c)
      /\ pc'[c] # "none"
  BY <1>2, <1>3
     DEF ReceiveEnds, GoTo, CallsOK, ThreadInv, Control, InSend, Serving, Active, Frame
<1>6. QED
  BY <1>1, <1>2, <1>3, <1>4, <1>5, ThreadStep

\* recv returns a header.
LEMMA ReceiveMessageStep ==
  ASSUME Inv, NEW c \in Conns, ReceiveMessage(c)
  PROVE  Inv'
<1> USE DEF Inv, TypesOK
<1>1. KernelOK' /\ ObjectsOK' /\ ServerOK' /\ LocalsOK'
  BY DEF ReceiveMessage, KernelOK, ObjectsOK, ServerOK, LocalsOK,
         kernelVars, objectVars, serverVars, localVars
<1>2. UNCHANGED <<mine, peer, accepted, clientFd, clients>>
  BY DEF ReceiveMessage, kernelVars, serverVars, localVars
<1>3. PICK s \in {"route", "erase"} : pc' = [pc EXCEPT ![c] = s]
  BY DEF ReceiveMessage, GoTo
<1>4. CallsOK'
  BY <1>3 DEF ReceiveMessage, CallsOK, Steps, ConnOrNone
<1>5. /\ Control(c)' /\ (Active(c) => Active(c)') /\ Frame(c)
      /\ pc[c] # "none" /\ pc'[c] # "none"
  BY <1>2, <1>3
     DEF ReceiveMessage, CallsOK, ThreadInv, Control, InSend, Serving, Active, Frame
<1>6. QED
  BY <1>1, <1>2, <1>4, <1>5, ThreadStep

\* The handler runs and answers.
LEMMA RouteStep ==
  ASSUME Inv, NEW c \in Conns, Route(c)
  PROVE  Inv'
<1> USE DEF Inv, TypesOK
<1>1. KernelOK' /\ LocalsOK'
  BY DEF Route, KernelOK, LocalsOK, kernelVars, localVars
<1>2. ServerOK'
  BY DEF Route, ServerOK, ConnOrNone
<1>3. ObjectsOK'
  <2>1. PICK login \in BOOLEAN : auth' = [auth EXCEPT ![mine[c]] = login \/ @]
    BY DEF Route
  <2>2. auth' \in [Conns -> BOOLEAN]
    BY <2>1, Zenon DEF ObjectsOK
  <2>3. QED
    BY <2>2 DEF Route, ObjectsOK
<1>4. UNCHANGED <<mine, peer, accepted, clientFd, clients, obj, at>>
  BY DEF Route, kernelVars, localVars
<1>5. pc[c] = "route" /\ mine[c] \in Conns
  BY DEF Route, ThreadInv, Control, Serving
<1>6. SendTo(c, {mine[c]}, "answered")
  BY DEF Route
<1>7. /\ pc' = [pc EXCEPT ![c] = "send"] /\ back' = [back EXCEPT ![c] = "answered"]
      /\ todo' = [todo EXCEPT ![c] = {mine[c]}]
  BY <1>6 DEF SendTo, GoTo
<1>8. CallsOK'
  BY <1>4, <1>5, <1>7 DEF CallsOK, Steps, Backs
<1>9. /\ Control(c)' /\ (Active(c) => Active(c)') /\ Frame(c)
      /\ pc'[c] # "none"
  BY <1>4, <1>5, <1>7
     DEF CallsOK, ThreadInv, Control, InSend, Serving, Active, Frame
<1>10. QED
  BY <1>1, <1>2, <1>3, <1>4, <1>5, <1>8, <1>9, ThreadStep

\* broadcast copies objects.
LEMMA EntriesType == ServerOK => Entries \subseteq Conns
BY DEF ServerOK, Entries, ConnOrNone

\* sendToClient and broadcast.
LEMMA SpreadStep ==
  ASSUME Inv, NEW c \in Conns, Spread(c)
  PROVE  Inv'
<1> USE DEF Inv, TypesOK
<1>1. KernelOK' /\ ObjectsOK' /\ ServerOK' /\ LocalsOK'
  BY DEF Spread, KernelOK, ObjectsOK, ServerOK, LocalsOK,
         kernelVars, objectVars, serverVars, localVars
<1>2. UNCHANGED <<mine, peer, accepted, clientFd, clients, obj, at>>
  BY DEF Spread, kernelVars, serverVars, localVars
<1>3. pc[c] = "answered" /\ mine[c] \in Conns
  BY DEF Spread, ThreadInv, Control, Serving
<1>4. PICK os \in {{}, Entries} \cup {{o} : o \in Entries} : SendTo(c, os, "release")
  BY DEF Spread
<1>5. os \in SUBSET Conns
  BY <1>4, EntriesType
<1>6. /\ pc' \in [Conns -> Steps] /\ back' \in [Conns -> Backs]
      /\ todo' \in [Conns -> SUBSET Conns]
      /\ \A d \in Conns \ {c} : pc'[d] = pc[d] /\ back'[d] = back[d]
      /\ \/ pc'[c] = "release" /\ back'[c] = "none"
         \/ pc'[c] = "send" /\ back'[c] = "release"
  BY <1>4, <1>5, SendToStep DEF Backs
<1>7. CallsOK'
  BY <1>2, <1>6 DEF CallsOK
<1>8. Frame(c)
  BY <1>2, <1>6 DEF Frame
<1>9. Control(c)' /\ (Active(c) => Active(c)') /\ pc'[c] # "none"
  BY <1>2, <1>3, <1>6 DEF ThreadInv, Control, InSend, Serving, Active
<1>10. QED
  BY <1>1, <1>2, <1>3, <1>7, <1>8, <1>9, ThreadStep

\* handlers_mutex_ is given back.
LEMMA ReleaseStep ==
  ASSUME Inv, NEW c \in Conns, Release(c)
  PROVE  Inv'
<1> USE DEF Inv, TypesOK
<1>1. KernelOK' /\ ObjectsOK' /\ LocalsOK'
  BY DEF Release, KernelOK, ObjectsOK, LocalsOK, kernelVars, objectVars, localVars
<1>2. ServerOK'
  BY DEF Release, ServerOK, ConnOrNone
<1>3. UNCHANGED <<mine, peer, accepted, clientFd, clients, back, todo, obj, at>>
  BY DEF Release, kernelVars, localVars, callVars
<1>4. CallsOK'
  BY <1>3 DEF Release, GoTo, CallsOK, Steps
<1>5. /\ Control(c)' /\ (Active(c) => Active(c)') /\ Frame(c)
      /\ pc[c] # "none" /\ pc'[c] # "none"
  BY <1>3
     DEF Release, GoTo, CallsOK, ThreadInv, Control, InSend, Serving, Active, Frame
<1>6. QED
  BY <1>1, <1>2, <1>3, <1>4, <1>5, ThreadStep

\* The entry of the thread's number goes, whichever object it was.
LEMMA EraseStep ==
  ASSUME Inv, NEW c \in Conns, Erase(c)
  PROVE  Inv'
<1> USE DEF Inv, TypesOK
<1> DEFINE o == clients[clientFd[c]]
<1>1. KernelOK' /\ ObjectsOK'
  BY DEF Erase, KernelOK, ObjectsOK, kernelVars, objectVars
<1>2. ServerOK'
  BY DEF Erase, ServerOK, ConnOrNone
<1>3. pc[c] = "erase" /\ clientFd[c] \in Fds /\ o \in ConnOrNone
  BY DEF Erase, ThreadInv, Control, ServerOK
<1>4. LocalsOK'
  BY <1>3 DEF Erase, LocalsOK, ConnOrNone
<1>5. UNCHANGED <<peer, accepted, clientFd, obj, at>>
  BY DEF Erase, kernelVars
<1>6. PICK os \in SUBSET Conns : SendTo(c, os, "leave")
  <2>1. CASE o # None /\ auth[o]
    BY <2>1, EntriesType DEF Erase
  <2>2. CASE ~(o # None /\ auth[o])
    BY <2>2 DEF Erase
  <2>3. QED
    BY <2>1, <2>2
<1>7. /\ pc' \in [Conns -> Steps] /\ back' \in [Conns -> Backs]
      /\ todo' \in [Conns -> SUBSET Conns]
      /\ \A d \in Conns \ {c} : pc'[d] = pc[d] /\ back'[d] = back[d]
      /\ \/ pc'[c] = "leave" /\ back'[c] = "none"
         \/ pc'[c] = "send" /\ back'[c] = "leave"
  BY <1>6, SendToStep DEF Backs
<1>8. CallsOK'
  BY <1>5, <1>7 DEF CallsOK
<1>9. Frame(c)
  BY <1>5, <1>7 DEF Frame, Erase, LocalsOK
<1>10. Control(c)' /\ pc[c] # "none" /\ pc'[c] # "none"
  BY <1>3, <1>5, <1>7 DEF Control, InSend, Serving
<1>11. \A f \in Fds : clients'[f] # None => clients[f] # None /\ clientFd[c] # f
  BY <1>3 DEF Erase, ServerOK
<1>12. QED
  BY <1>1, <1>2, <1>4, <1>5, <1>8, <1>9, <1>10, <1>11, ThreadMoves

\* The object that was removed is disconnected.
LEMMA LeaveStep ==
  ASSUME Inv, NEW c \in Conns, Leave(c)
  PROVE  Inv'
<1> USE DEF Inv, TypesOK
<1>1. KernelOK' /\ ObjectsOK' /\ ServerOK' /\ LocalsOK'
  BY DEF Leave, KernelOK, ObjectsOK, ServerOK, LocalsOK,
         kernelVars, objectVars, serverVars, localVars
<1>2. UNCHANGED <<mine, peer, accepted, clientFd, clients, todo, at>>
  BY DEF Leave, kernelVars, serverVars, localVars
<1>3. victim[c] \in ConnOrNone
  BY DEF LocalsOK
<1>4. CallsOK'
  BY <1>2, <1>3 DEF Leave, GoTo, CallsOK, Steps, Backs
<1>5. Control(c)'
  BY <1>2, <1>3
     DEF Leave, GoTo, CallsOK, ThreadInv, Control, InSend, Serving, ConnOrNone
<1>6. /\ (Active(c) => Active(c)') /\ Frame(c)
      /\ pc[c] # "none" /\ pc'[c] # "none"
  BY <1>2 DEF Leave, GoTo, CallsOK, Active, Frame
<1>7. QED
  BY <1>1, <1>2, <1>4, <1>5, <1>6, ThreadStep

-----------------------------------------------------------------------------
(* Clients and the accept thread.                                          *)

\* A client reads.
LEMMA ClientReadsStep ==
  ASSUME Inv, NEW c \in Conns, ClientReads(c)
  PROVE  Inv'
<1> USE DEF Inv, TypesOK
<1>1. KernelOK'
  <2>1. unread[c] - 1 \in 0..Room
    BY ConnectionsAssumption DEF ClientReads, KernelOK
  <2>2. QED
    BY <2>1 DEF ClientReads, KernelOK
<1>2. UNCHANGED <<peer, objectVars, serverVars, localVars, pc, callVars>>
  BY DEF ClientReads
<1>3. ObjectsOK' /\ ServerOK' /\ LocalsOK' /\ CallsOK'
  BY <1>2 DEF ObjectsOK, ServerOK, LocalsOK, CallsOK,
              objectVars, serverVars, localVars, callVars
<1>4. ThreadInv' /\ AcceptInv' /\ EntryServed'
  BY <1>2 DEF ThreadInv, Control, AcceptInv, EntryServed,
              serverVars, localVars, callVars
<1>5. QED
  BY <1>1, <1>3, <1>4

\* A client closes its end.
LEMMA ClientClosesStep ==
  ASSUME Inv, NEW c \in Conns, ClientCloses(c)
  PROVE  Inv'
<1> USE DEF Inv, TypesOK
<1>1. KernelOK'
  BY ConnectionsAssumption DEF ClientCloses, KernelOK, Peers
<1>2. UNCHANGED <<objectVars, serverVars, localVars, pc, callVars>>
  BY DEF ClientCloses
<1>3. ObjectsOK' /\ ServerOK' /\ LocalsOK' /\ CallsOK'
  BY <1>2 DEF ObjectsOK, ServerOK, LocalsOK, CallsOK,
              objectVars, serverVars, localVars, callVars
<1>4. \A d \in Conns : peer'[d] = "none" <=> peer[d] = "none"
  BY DEF ClientCloses, KernelOK
<1>5. accepted # None => accepted \in Conns
  BY DEF ServerOK, ConnOrNone
<1>6. ThreadInv' /\ AcceptInv' /\ EntryServed'
  BY <1>2, <1>4, <1>5 DEF ThreadInv, Control, AcceptInv, EntryServed,
                   serverVars, localVars, callVars
<1>7. QED
  BY <1>1, <1>3, <1>6

\* A client connects; its thread has not started yet.
LEMMA AcceptStep ==
  ASSUME Inv, NEW c \in Conns, NEW f \in Fds, Accept(c, f)
  PROVE  Inv'
<1> USE DEF Inv, TypesOK
<1>1. KernelOK'
  BY DEF Accept, KernelOK, Peers, ConnOrNone
<1>2. ObjectsOK'
  BY DEF Accept, ObjectsOK, FdOrNone
<1>3. ServerOK'
  BY DEF Accept, ServerOK, ConnOrNone
<1>4. LocalsOK'
  BY DEF Accept, LocalsOK, FdOrNone
<1>5. UNCHANGED <<clients, mine, pc, back, todo, obj, at>>
  BY DEF Accept, callVars
<1>6. CallsOK'
  BY <1>5 DEF CallsOK
<1>7. pc[c] = "none"
  BY DEF Accept, AcceptInv
<1>8. clientFd' = [clientFd EXCEPT ![c] = f]
  BY DEF Accept
<1>9. ThreadInv'
  BY <1>5, <1>7, <1>8 DEF ThreadInv, Control, LocalsOK
<1>10. AcceptInv'
  BY <1>5, <1>7 DEF Accept, AcceptInv, KernelOK, LocalsOK
<1>11. EntryServed'
  BY <1>5, <1>7, <1>8 DEF EntryServed, LocalsOK
<1>12. QED
  BY <1>1, <1>2, <1>3, <1>4, <1>6, <1>9, <1>10, <1>11

\* The thread of the accepted socket serves the entry that is made for it,
\* whatever entry was there.
LEMMA RegisterStep ==
  ASSUME Inv, Register
  PROVE  Inv'
<1> USE DEF Inv, TypesOK
<1>0. PICK t \in Conns : t = accepted
  BY DEF Register, ServerOK, ConnOrNone
<1>1. t \in Conns /\ pc[t] = "none" /\ clientFd[t] \in Fds /\ peer[t] # "none"
  BY <1>0 DEF Register, ServerOK, ConnOrNone, AcceptInv
<1>2. KernelOK' /\ ObjectsOK' /\ LocalsOK'
  BY DEF Register, KernelOK, ObjectsOK, LocalsOK, kernelVars, objectVars, localVars
<1>3. ServerOK'
  BY <1>0, <1>1 DEF Register, ServerOK, ConnOrNone
<1>4. /\ UNCHANGED <<peer, clientFd, mine, back, todo, obj, at>>
      /\ pc' = [pc EXCEPT ![t] = "look"]
      /\ clients' = [clients EXCEPT ![clientFd[t]] = t]
      /\ accepted' = None
  BY <1>0 DEF Register, GoTo, kernelVars, localVars, callVars
<1>5. CallsOK'
  BY <1>4 DEF CallsOK, Steps
<1>6. ThreadInv'
  BY <1>1, <1>4 DEF ThreadInv, Control, InSend, Serving, CallsOK
<1>7. AcceptInv'
  BY <1>1, <1>4 DEF AcceptInv, CallsOK
<1>8. EntryServed'
  <2> SUFFICES ASSUME NEW f \in Fds, clients'[f] # None
               PROVE  \E c \in Conns : clientFd[c] = f /\ Active(c)'
    BY <1>4 DEF EntryServed, Active
  <2>1. CASE f = clientFd[t]
    <3>1. Active(t)'
      BY <1>1, <1>4 DEF Active, CallsOK, ThreadInv, Control
    <3>2. QED
      BY <1>1, <2>1, <3>1
  <2>2. CASE f # clientFd[t]
    <3>1. clients[f] # None
      BY <1>4, <2>2 DEF ServerOK
    <3>2. PICK c \in Conns : clientFd[c] = f /\ Active(c)
      BY <3>1 DEF EntryServed, Active
    <3>3. Active(c)'
      BY <1>1, <1>4, <3>2 DEF Active, CallsOK
    <3>4. QED
      BY <3>2, <3>3
  <2>3. QED
    BY <2>1, <2>2
<1>9. QED
  BY <1>2, <1>3, <1>5, <1>6, <1>7, <1>8

-----------------------------------------------------------------------------
(* The invariant holds.                                                    *)

\* Every step keeps the invariant.
LEMMA InvNext == Inv /\ [Next]_vars => Inv'
<1> SUFFICES ASSUME Inv, [Next]_vars PROVE Inv'
  OBVIOUS
<1>1. CASE Register
  BY <1>1, RegisterStep
<1>2. ASSUME NEW c \in Conns, ClientReads(c) \/ ClientCloses(c) PROVE Inv'
  BY <1>2, ClientReadsStep, ClientClosesStep
<1>3. ASSUME NEW c \in Conns, ClientStep(c) PROVE Inv'
  BY <1>3, LookUpStep, ReceiveStep, ReceiveEndsStep, RouteStep, SpreadStep,
     ReleaseStep, EraseStep, LeaveStep, SendingStep DEF ClientStep
<1>4. ASSUME NEW c \in Conns, ReceiveMessage(c) PROVE Inv'
  BY <1>4, ReceiveMessageStep
<1>5. ASSUME NEW c \in Conns, NEW f \in Fds, Accept(c, f) PROVE Inv'
  BY <1>5, AcceptStep
<1>6. CASE UNCHANGED vars
  BY <1>6
     DEF vars, kernelVars, objectVars, serverVars, localVars, callVars, Inv, TypesOK,
         KernelOK, ObjectsOK, ServerOK, LocalsOK, CallsOK, ThreadInv, Control,
         AcceptInv, EntryServed
<1>7. QED
  BY <1>1, <1>2, <1>3, <1>4, <1>5, <1>6 DEF Next

\* The invariant holds in every state the server reaches.
LEMMA InvAlways == Spec => []Inv
BY InvInit, InvNext, PTL DEF Spec

\* Every variable keeps its type, and a thread in its loop has its object.
THEOREM TypeCorrect == Spec => []TypeOK
<1>1. Inv => TypeOK
  BY DEF Inv, TypesOK, KernelOK, ObjectsOK, ServerOK, LocalsOK, CallsOK, Backs,
         ThreadInv, Control, TypeOK
<1>2. QED
  BY <1>1, InvAlways, PTL

\* Every entry of clients_ has a thread that will remove the entry of its
\* number, although descriptors are used again (server.cpp: acceptConnections,
\* handleClient, removeClient).
THEOREM EntriesServed == Spec => []EntryServed
<1>1. Inv => EntryServed
  BY DEF Inv
<1>2. QED
  BY <1>1, InvAlways, PTL

=============================================================================
