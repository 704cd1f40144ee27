---------------------------- MODULE Lobby_proofs ----------------------------
(***************************************************************************)
(* Proofs about Lobby: entries of the player list belong to connections    *)
(* that live, a challenge makes one match, and a player who is IN_GAME     *)
(* while nothing happens has a match.                                      *)
(*                                                                         *)
(* The threads matter by the calls of PlayerManager they have still to     *)
(* make.  These are sets here: which thread makes a call before another    *)
(* one is of no importance to what follows.                                *)
(***************************************************************************)
EXTENDS Lobby, FiniteSetTheorems, SequenceTheorems, TLAPS

\* The calls a thread has still to make, the one it is telling about not among
\* them.
Todo(t) ==
  IF pc[t] = "set" \/ work[t] = <<>> THEN work[t] ELSE Tail(work[t])
Due(t) == {Todo(t)[i] : i \in 1..Len(Todo(t))}

\* A thread at rest has no calls, and one that works has.
Control(t) ==
  /\ pc[t] = "idle" => work[t] = <<>>
  /\ pc[t] \in {"set", "tell"} => work[t] # <<>>
  /\ pc[t] = "send" /\ mail[t].u # Nobody => work[t] # <<>>
  /\ pc[t] = "send" /\ mail[t].u = Nobody => work[t] = <<>>

\* The thread of a connection only calls PlayerManager when the connection is
\* lost, and a connection that is logged in, or was, has a user.
ThreadInv ==
  /\ \A t \in Threads : Control(t)
  /\ \A c \in Conns : /\ pc[c] # "idle" => link[c] = "lost"
                      /\ link[c] \in {"open", "out"} => user[c] \in Users

\* What a call that is due may say.  Only the router adds players and makes
\* them IN_GAME, and neither the connection nor the match it does this for
\* can end in between.
CallOK(t, w) ==
  /\ w.op = "add" => /\ t = "router" /\ w.c = served /\ w.c \in Conns
                     /\ link[w.c] = "open" /\ user[w.c] = w.u
  /\ w.op \in {"add", "update"} => w.s # "OFFLINE"
  /\ w.op = "remove" => w.s = "OFFLINE"
  /\ w.s = "IN_GAME" => /\ t = "router"
                        /\ \E m \in rows \ started : w.u \in Players(m)

CallInv == \A t \in Threads : \A w \in Due(t) : CallOK(t, w)

\* An entry that was not left behind has an owner that is there, or one whose
\* thread will remove it.
RemovalDue(t, u) == \E w \in Due(t) : w.op = "remove" /\ w.u = u

Kept(c, u) ==
  \/ link[c] \in {"open", "out"}
  \/ link[c] = "lost" /\ RemovalDue(c, u)

Owned(u) ==
  /\ owner[u] \in Conns /\ link[owner[u]] # "new"
  /\ user[owner[u]] = u /\ found[owner[u]] = owner[u] => Kept(owner[u], u)

OwnerInv == \A u \in Users : status[u] # "OFFLINE" => Owned(u)

\* A player has a match that goes on, or somebody who will change the status.
Engaged(u) ==
  \/ \E m \in rows \ over : u \in Players(m)
  \/ \E t \in Threads : \E w \in Due(t) : w.u = u /\ w.s # "IN_GAME"

GameInv == \A u \in Users : status[u] = "IN_GAME" => Engaged(u)

\* Challenges keep their numbers when they become matches.
ChallengeInv ==
  /\ IsFiniteSet(rows)
  /\ rows \cap pending = {}
  /\ \A m \in rows \cup pending : m.id < nextId /\ m.from # m.to
  /\ \A m, n \in rows \cup pending : m.id = n.id => m = n

Inv ==
  /\ TypeOK /\ ThreadInv /\ CallInv /\ OwnerInv /\ GameInv /\ ChallengeInv

-----------------------------------------------------------------------------
(* Calls that are due.                                                     *)

LEMMA NoneDue ==
  ASSUME NEW t \in Threads, work[t] = <<>>
  PROVE  Due(t) = {}
BY DEF Due, Todo

LEMMA DueStays ==
  ASSUME NEW s \in Threads, pc'[s] = pc[s], work'[s] = work[s]
  PROVE  Due(s)' = Due(s)
BY DEF Due, Todo

\* A thread that starts has all its calls before it.
LEMMA BeginDue ==
  ASSUME TypeOK, NEW t \in Threads, NEW w \in Seq(Calls), Begin(t, w)
  PROVE  /\ Due(t)' = {w[i] : i \in 1..Len(w)}
         /\ \A s \in Threads \ {t} : Due(s)' = Due(s)
BY DEF Begin, TypeOK, Due, Todo

LEMMA BeginOneDue ==
  ASSUME TypeOK, NEW t \in Threads, NEW x \in Calls, Begin(t, <<x>>)
  PROVE  /\ Due(t)' = {x}
         /\ \A s \in Threads \ {t} : Due(s)' = Due(s)
<1>1. <<x>> \in Seq(Calls) /\ {<<x>>[i] : i \in 1..Len(<<x>>)} = {x}
  OBVIOUS
<1> QED
  BY <1>1, BeginDue

LEMMA BeginTwoDue ==
  ASSUME TypeOK, NEW t \in Threads, NEW x \in Calls, NEW y \in Calls,
         Begin(t, <<x, y>>)
  PROVE  /\ Due(t)' = {x, y}
         /\ \A s \in Threads \ {t} : Due(s)' = Due(s)
<1>1. <<x, y>> \in Seq(Calls) /\ {<<x, y>>[i] : i \in 1..Len(<<x, y>>)} = {x, y}
  OBVIOUS
<1> QED
  BY <1>1, BeginDue

\* Set makes the first of the calls that are due.
LEMMA SetDue ==
  ASSUME TypeOK, ThreadInv, NEW t \in Threads, Set(t)
  PROVE  /\ Head(work[t]) \in Calls /\ Head(work[t]) \in Due(t)
         /\ Due(t)' \subseteq Due(t)
         /\ Due(t) \ {Head(work[t])} \subseteq Due(t)'
         /\ \A s \in Threads \ {t} : Due(s)' = Due(s)
         /\ work'[t] # <<>> \/ Due(t)' = {}
<1>1. /\ work[t] \in Seq(Calls) /\ work[t] # <<>> /\ pc[t] = "set"
      /\ work \in [Threads -> Seq(Calls)]
      /\ pc \in [Threads -> {"idle", "set", "tell", "send"}]
  BY DEF TypeOK, ThreadInv, Control, Set
<1> DEFINE q == work[t]
<1>2. /\ Tail(q) \in Seq(Calls) /\ Len(Tail(q)) = Len(q) - 1 /\ Len(q) \in Nat
      /\ Len(q) > 0
      /\ \A i \in 1..Len(q) - 1 : Tail(q)[i] = q[i + 1]
      /\ Head(q) = q[1] /\ Head(q) \in Calls
  BY <1>1
<1>3. Due(t) = {q[i] : i \in 1..Len(q)}
  BY <1>1 DEF Due, Todo
<1>4. Todo(t)' = Tail(q)
  <2>1. CASE Proceed(t)
    BY <2>1, <1>1, <1>2 DEF Proceed, Todo
  <2>2. CASE pc' = [pc EXCEPT ![t] = "tell"] /\ UNCHANGED work
    BY <2>2, <1>1, <1>2 DEF Todo
  <2> QED
    BY <2>1, <2>2 DEF Set
<1>5. Due(t)' = {Tail(q)[i] : i \in 1..Len(q) - 1}
  BY <1>2, <1>4 DEF Due
<1>6. \A s \in Threads \ {t} : Due(s)' = Due(s)
  <2>1. \A s \in Threads \ {t} : pc'[s] = pc[s] /\ work'[s] = work[s]
    BY <1>1 DEF Set, Proceed
  <2> QED
    BY <2>1 DEF Due, Todo
<1>7. \A i \in 1..Len(q) : i # 1 => q[i] \in Due(t)'
  <2> SUFFICES ASSUME NEW i \in 1..Len(q), i # 1
               PROVE  q[i] \in Due(t)'
    OBVIOUS
  <2>1. i - 1 \in 1..Len(q) - 1 /\ Tail(q)[i - 1] = q[i]
    BY <1>2
  <2> QED
    BY <2>1, <1>5
<1>8. Due(t)' \subseteq Due(t)
  <2> SUFFICES ASSUME NEW i \in 1..Len(q) - 1
               PROVE  Tail(q)[i] \in Due(t)
    BY <1>5
  <2>1. i + 1 \in 1..Len(q) /\ Tail(q)[i] = q[i + 1]
    BY <1>2
  <2> QED
    BY <2>1, <1>3
<1>9. work'[t] # <<>> \/ Due(t)' = {}
  BY NoneDue, <1>1 DEF Due, Todo
<1> QED
  BY <1>2, <1>3, <1>6, <1>7, <1>8, <1>9

\* Telling and sending make no calls.
LEMMA SameDue ==
  ASSUME TypeOK, ThreadInv, NEW t \in Threads, Tell(t) \/ Send(t)
  PROVE  \A s \in Threads : Due(s)' = Due(s)
<1>1. /\ work \in [Threads -> Seq(Calls)] /\ work[t] # <<>>
      /\ pc \in [Threads -> {"idle", "set", "tell", "send"}]
      /\ pc[t] \in {"tell", "send"}
  BY DEF TypeOK, ThreadInv, Control, Tell, Send
<1>2. \A s \in Threads \ {t} : pc'[s] = pc[s] /\ work'[s] = work[s]
  BY <1>1 DEF Tell, Send, Proceed
<1>3. Todo(t)' = Todo(t)
  <2>1. CASE Proceed(t)
    BY <2>1, <1>1 DEF Proceed, Todo
  <2>2. CASE UNCHANGED work /\ pc'[t] \in {"tell", "send"}
    BY <2>2, <1>1 DEF Todo
  <2> QED
    BY <2>1, <2>2, <1>1 DEF Tell, Send
<1>4. Due(t)' = Due(t)
  BY <1>3 DEF Due
<1>5. \A s \in Threads \ {t} : Due(s)' = Due(s)
  BY <1>2 DEF Due, Todo
<1> QED
  BY <1>4, <1>5

-----------------------------------------------------------------------------
(* Steps of the threads.                                                   *)

LEMMA SetStep ==
  ASSUME Inv, NEW t \in Threads, Set(t)
  PROVE  Inv'
<1> DEFINE w == Head(work[t])
<1>0. TypeOK /\ ThreadInv /\ CallInv /\ OwnerInv /\ GameInv /\ ChallengeInv
  BY DEF Inv
<1>1. /\ w \in Calls /\ w \in Due(t) /\ CallOK(t, w)
      /\ Due(t)' \subseteq Due(t) /\ Due(t) \ {w} \subseteq Due(t)'
      /\ \A s \in Threads \ {t} : Due(s)' = Due(s)
      /\ work'[t] # <<>> \/ Due(t)' = {}
  BY <1>0, SetDue DEF CallInv
<1>2. \/ /\ Proceed(t) /\ UNCHANGED entryVars
         /\ w.op # "add" /\ status[w.u] = "OFFLINE"
      \/ /\ status' = [status EXCEPT ![w.u] = w.s]
         /\ owner' = [owner EXCEPT ![w.u] = IF w.op = "update" THEN @ ELSE w.c]
         /\ pc' = [pc EXCEPT ![t] = "tell"]
         /\ UNCHANGED <<served, work, mail>>
         /\ w.op = "add" \/ status[w.u] # "OFFLINE"
  BY DEF Set
<1>3. UNCHANGED <<netVars, gameVars, view>> /\ pc[t] = "set"
  BY DEF Set
<1> HIDE DEF w
<1>4. TypeOK'
  <2>1. CASE Proceed(t) /\ UNCHANGED entryVars
    BY <1>0, <1>3, <2>1 DEF TypeOK, Proceed, entryVars, netVars, gameVars,
       Mails, NoMail, NoList, Statuses, ThreadInv, Control
  <2>2. CASE /\ status' = [status EXCEPT ![w.u] = w.s]
             /\ owner' = [owner EXCEPT ![w.u] = IF w.op = "update" THEN @ ELSE w.c]
             /\ pc' = [pc EXCEPT ![t] = "tell"]
             /\ UNCHANGED <<served, work, mail>>
    BY <1>0, <1>1, <1>3, <2>2 DEF TypeOK, netVars, gameVars, Calls
  <2> QED
    BY <1>2, <2>1, <2>2
<1>5. ThreadInv'
  <2>1. \A s \in Threads \ {t} : pc'[s] = pc[s] /\ work'[s] = work[s] /\ mail'[s] = mail[s]
    BY <1>0, <1>2 DEF TypeOK, Proceed
  <2>2. Control(t)'
    <3>1. pc \in [Threads -> {"idle", "set", "tell", "send"}]
          /\ work \in [Threads -> Seq(Calls)] /\ work[t] # <<>>
      BY <1>0, <1>3 DEF TypeOK, ThreadInv, Control
    <3>2. CASE Proceed(t)
      BY <3>1, <3>2 DEF Proceed, Control
    <3>3. CASE pc' = [pc EXCEPT ![t] = "tell"] /\ work' = work
      BY <3>1, <3>3 DEF Control
    <3> QED
      BY <1>2, <3>2, <3>3
  <2>3. \A s \in Threads : Control(s)'
    BY <1>0, <2>1, <2>2 DEF ThreadInv, Control
  <2>4. ASSUME NEW c \in Conns, pc'[c] # "idle"
        PROVE  link'[c] = "lost"
    BY <1>0, <1>3, <2>1, <2>4 DEF ThreadInv, netVars, Threads
  <2> QED
    BY <1>0, <1>3, <2>3, <2>4 DEF ThreadInv, netVars
<1>6. CallInv'
  <2>1. served' = served \/ (t = "router" /\ Due(t)' = {})
    BY <1>0, <1>1, <1>2 DEF Proceed, TypeOK
  <2>2. \A s \in Threads : Due(s)' \subseteq Due(s)
    BY <1>1
  <2>3. \A s \in Threads : \A x \in Due(s)' : CallOK(s, x)'
    BY <1>0, <1>3, <2>1, <2>2 DEF CallInv, CallOK, netVars, gameVars
  <2> QED
    BY <2>3 DEF CallInv
<1>7. OwnerInv'
  <2> SUFFICES ASSUME NEW u \in Users, status'[u] # "OFFLINE"
               PROVE  Owned(u)'
    BY DEF OwnerInv
  <2>1. CASE u # w.u \/ UNCHANGED entryVars
    <3>1. status[u] # "OFFLINE" /\ owner'[u] = owner[u] /\ Owned(u)
      BY <1>0, <1>1, <1>2, <2>1 DEF TypeOK, OwnerInv, entryVars, Calls
    <3>2. w.u = u => w.op # "remove"
      BY <1>0, <1>1, <1>2, <2>1, <3>1 DEF entryVars, CallOK, TypeOK, Calls
    <3>3. \A s \in Threads : RemovalDue(s, u) => RemovalDue(s, u)'
      BY <1>1, <3>2 DEF RemovalDue
    <3> QED
      BY <1>3, <3>1, <3>3 DEF Owned, Kept, netVars, Threads
  <2>2. CASE u = w.u /\ ~UNCHANGED entryVars
    <3>1. status'[u] = w.s /\ owner'[u] = IF w.op = "update" THEN owner[u] ELSE w.c
      BY <1>0, <1>1, <1>2, <2>2 DEF TypeOK, entryVars, Calls
    <3>2. CASE w.op = "add"
      BY <1>1, <1>3, <2>2, <3>1, <3>2 DEF CallOK, Owned, Kept, netVars
    <3>3. CASE w.op = "update"
      <4>1. status[u] # "OFFLINE" /\ Owned(u)
        BY <1>0, <1>2, <2>2, <3>3 DEF OwnerInv, entryVars
      <4>2. \A s \in Threads : RemovalDue(s, u) => RemovalDue(s, u)'
        BY <1>1, <3>3 DEF RemovalDue
      <4> QED
        BY <1>3, <3>1, <3>3, <4>1, <4>2 DEF Owned, Kept, netVars, Threads
    <3>4. CASE w.op = "remove"
      BY <1>1, <3>1, <3>4 DEF CallOK
    <3> QED
      BY <1>1, <3>2, <3>3, <3>4 DEF Calls
  <2> QED
    BY <2>1, <2>2
<1>8. GameInv'
  <2> SUFFICES ASSUME NEW u \in Users, status'[u] = "IN_GAME"
               PROVE  Engaged(u)'
    BY DEF GameInv
  <2>1. CASE u = w.u /\ status' = [status EXCEPT ![w.u] = w.s]
    <3>1. w.s = "IN_GAME"
      BY <1>0, <1>1, <2>1 DEF TypeOK, Calls
    <3>2. \E m \in rows \ started : u \in Players(m)
      BY <1>1, <2>1, <3>1 DEF CallOK
    <3> QED
      BY <1>0, <1>3, <3>2 DEF Engaged, TypeOK, gameVars, Players
  <2>2. CASE u # w.u \/ UNCHANGED entryVars
    <3>1. status[u] = "IN_GAME" /\ Engaged(u)
      BY <1>0, <1>1, <1>2, <2>2 DEF TypeOK, GameInv, entryVars, Calls
    <3>2. w.u # u \/ w.s = "IN_GAME"
      BY <1>0, <1>1, <1>2, <2>2, <3>1
         DEF entryVars, CallOK, TypeOK, Calls
    <3>3. \A s \in Threads : \A x \in Due(s) :
            x.u = u /\ x.s # "IN_GAME" => x \in Due(s)'
      BY <1>1, <3>2
    <3> QED
      BY <1>3, <3>1, <3>3 DEF Engaged, gameVars, Players
  <2> QED
    BY <1>2, <2>1, <2>2
<1>9. ChallengeInv'
  BY <1>0, <1>3 DEF ChallengeInv, gameVars
<1> QED
  BY <1>4, <1>5, <1>6, <1>7, <1>8, <1>9 DEF Inv

\* Nothing but sending: the calls that are due stay as they are.
LEMMA QuietStep ==
  ASSUME Inv, UNCHANGED <<entryVars, netVars, gameVars>>,
         \A s \in Threads : Due(s)' = Due(s),
         served' = served \/ Due("router") = {}
  PROVE  CallInv' /\ OwnerInv' /\ GameInv' /\ ChallengeInv'
<1>0. TypeOK /\ ThreadInv /\ CallInv /\ OwnerInv /\ GameInv /\ ChallengeInv
  BY DEF Inv
<1>1. CallInv'
  <2>1. \A s \in Threads : \A x \in Due(s)' : CallOK(s, x)'
    BY <1>0 DEF CallInv, CallOK, netVars, gameVars
  <2> QED
    BY <2>1 DEF CallInv
<1>2. OwnerInv'
  <2>1. \A s \in Threads, u \in Users : RemovalDue(s, u)' <=> RemovalDue(s, u)
    BY DEF RemovalDue
  <2> QED
    BY <1>0, <2>1 DEF OwnerInv, Owned, Kept, Threads, entryVars, netVars
<1>3. GameInv'
  BY <1>0 DEF GameInv, Engaged, entryVars, gameVars, Players
<1>4. ChallengeInv'
  BY <1>0 DEF ChallengeInv, gameVars
<1> QED
  BY <1>1, <1>2, <1>3, <1>4

LEMMA TellStep ==
  ASSUME Inv, NEW t \in Threads, Tell(t)
  PROVE  Inv'
<1>0. TypeOK /\ ThreadInv
  BY DEF Inv
<1>1. CallInv' /\ OwnerInv' /\ GameInv' /\ ChallengeInv'
  BY <1>0, SameDue, QuietStep DEF Tell
<1>2. Head(work[t]) \in Calls
  BY <1>0 DEF TypeOK, Tell, ThreadInv, Control
<1>3. TypeOK'
  <2>1. [u |-> Head(work[t]).u,
          s |-> IF status[Head(work[t]).u] = "OFFLINE" THEN "OFFLINE"
                ELSE Head(work[t]).s,
          list |-> NoList,
          to |-> {c \in Viewers : link[c] = "open"}] \in Mails
    BY <1>0, <1>2, LobbyAssumption DEF TypeOK, Mails, Calls, Statuses
  <2> QED
    BY <1>0, <2>1 DEF TypeOK, Tell, entryVars, netVars, gameVars
<1>4. ThreadInv'
  <2>1. Head(work[t]).u # Nobody /\ work[t] # <<>> /\ pc[t] # "idle"
    BY <1>0, <1>2, LobbyAssumption DEF Calls, ThreadInv, Control, Tell
  <2>2. /\ mail'[t].u # Nobody /\ pc'[t] = "send"
        /\ \A s \in Threads \ {t} : pc'[s] = pc[s] /\ mail'[s] = mail[s]
    BY <1>0, <2>1 DEF Tell, TypeOK
  <2>3. \A s \in Threads : Control(s)'
    BY <1>0, <2>1, <2>2 DEF ThreadInv, Control, Tell
  <2>4. \A c \in Conns : pc'[c] # "idle" => link[c] = "lost"
    BY <1>0, <2>1, <2>2 DEF ThreadInv, Threads
  <2> QED
    BY <1>0, <2>3, <2>4 DEF ThreadInv, Tell, netVars
<1> QED
  BY <1>1, <1>3, <1>4 DEF Inv

LEMMA SendStep ==
  ASSUME Inv, NEW t \in Threads, Send(t)
  PROVE  Inv'
<1>0. TypeOK /\ ThreadInv
  BY DEF Inv
<1>1. \A s \in Threads : Due(s)' = Due(s)
  BY <1>0, SameDue
<1>2. CASE Proceed(t) /\ UNCHANGED view
  <2>1. served' = served \/ Due("router") = {}
    <3>1. served' = served \/ (t = "router" /\ work'[t] = <<>>)
      BY <1>0, <1>2 DEF Proceed, TypeOK
    <3>2. t = "router" /\ work'[t] = <<>> => Due(t)' = {}
      BY DEF Due, Todo
    <3> QED
      BY <1>1, <3>1, <3>2
  <2>2. CallInv' /\ OwnerInv' /\ GameInv' /\ ChallengeInv'
    BY <1>1, <2>1, QuietStep DEF Send
  <2>3. work[t] # <<>>
    BY <1>0 DEF Send, ThreadInv, Control
  <2>4. TypeOK'
    BY <1>0, <1>2, <2>3 DEF Send, TypeOK, Proceed, entryVars, netVars, gameVars,
       Mails, NoMail, NoList, Statuses
  <2>5. ThreadInv'
    BY <1>0, <1>2, <2>3 DEF Send, ThreadInv, Control, Proceed, TypeOK, netVars
  <2> QED
    BY <2>2, <2>4, <2>5 DEF Inv
<1>3. CASE /\ \E c \in mail[t].to :
                /\ mail' = [mail EXCEPT ![t].to = @ \ {c}]
                /\ view' = IF view[c] = NoList THEN view
                           ELSE [view EXCEPT ![c][mail[t].u] = mail[t].s]
           /\ UNCHANGED <<served, pc, work>>
  <2> PICK c \in mail[t].to :
             /\ mail' = [mail EXCEPT ![t].to = @ \ {c}]
             /\ view' = IF view[c] = NoList THEN view
                        ELSE [view EXCEPT ![c][mail[t].u] = mail[t].s]
    BY <1>3
  <2>1. CallInv' /\ OwnerInv' /\ GameInv' /\ ChallengeInv'
    BY <1>1, <1>3, QuietStep DEF Send
  <2>2. mail[t] \in Mails /\ mail[t].u \in Users /\ c \in Conns
    BY <1>0 DEF Send, TypeOK, Mails
  <2>3. [mail[t] EXCEPT !.to = @ \ {c}] \in Mails
    BY <2>2 DEF Mails
  <2>4. mail' \in [Threads -> Mails]
    BY <1>0, <2>3 DEF TypeOK
  <2>5. view' \in [Conns -> Lists \cup {NoList}]
    <3>1. CASE view[c] = NoList
      BY <1>0, <3>1 DEF TypeOK
    <3>2. CASE view[c] # NoList
      <4>1. view[c] \in [Users -> Statuses]
        BY <1>0, <2>2, <3>2 DEF TypeOK, Lists
      <4>2. [view[c] EXCEPT ![mail[t].u] = mail[t].s] \in Lists
        BY <2>2, <4>1 DEF Lists, Mails
      <4> QED
        BY <1>0, <2>2, <3>2, <4>2 DEF TypeOK
    <3> QED
      BY <3>1, <3>2
  <2>6. TypeOK'
    BY <1>0, <1>3, <2>4, <2>5 DEF Send, TypeOK, entryVars, netVars, gameVars
  <2>7. ThreadInv'
    <3>1. \A s \in Threads : mail'[s].u = mail[s].u
      BY <1>0, <2>2 DEF TypeOK, Mails
    <3> QED
      BY <1>0, <1>3, <3>1 DEF Send, ThreadInv, Control, netVars
  <2> QED
    BY <2>1, <2>6, <2>7 DEF Inv
<1> QED
  BY <1>2, <1>3 DEF Send

LEMMA ReadListStep ==
  ASSUME Inv, NEW c \in Conns, ReadList(c)
  PROVE  Inv'
<1>0. TypeOK /\ ThreadInv /\ "router" \in Threads
  BY DEF Inv, Threads
<1>1. work["router"] = <<>>
  BY <1>0 DEF ThreadInv, Control, ReadList
<1>2. \A s \in Threads : Due(s)' = Due(s)
  <2>1. Due("router")' = {} /\ Due("router") = {}
    BY <1>1, NoneDue DEF ReadList, Due, Todo
  <2>2. \A s \in Threads \ {"router"} : pc'[s] = pc[s] /\ work'[s] = work[s]
    BY <1>0 DEF TypeOK, ReadList
  <2>3. \A s \in Threads \ {"router"} : Due(s)' = Due(s)
    BY <2>2, DueStays
  <2> QED
    BY <2>1, <2>3
<1>3. CallInv' /\ OwnerInv' /\ GameInv' /\ ChallengeInv'
  BY <1>0, <1>1, <1>2, NoneDue, QuietStep DEF ReadList
<1>4. [NoMail EXCEPT !.list = status, !.to = {c}] \in Mails
  BY <1>0 DEF TypeOK, Mails, NoMail, Lists, Statuses
<1>5. TypeOK'
  BY <1>0, <1>4 DEF TypeOK, ReadList, entryVars, netVars, gameVars
<1>6. ThreadInv'
  <2>1. [NoMail EXCEPT !.list = status, !.to = {c}].u = Nobody
    BY DEF NoMail
  <2>2. "router" \notin Conns
    BY LobbyAssumption
  <2> QED
    BY <1>0, <1>1, <2>1, <2>2 DEF TypeOK, ThreadInv, Control, ReadList, netVars
<1> QED
  BY <1>3, <1>5, <1>6 DEF Inv

LEMMA SendListStep == Inv /\ SendList => Inv'
<1> SUFFICES ASSUME Inv, SendList
             PROVE  Inv'
  OBVIOUS
<1>0. TypeOK /\ ThreadInv /\ "router" \in Threads
  BY DEF Inv, Threads
<1>1. work["router"] = <<>>
  BY <1>0 DEF ThreadInv, Control, SendList
<1>2. \A s \in Threads : Due(s)' = Due(s)
  <2>1. Due("router")' = {} /\ Due("router") = {}
    BY <1>1, NoneDue DEF SendList, Due, Todo
  <2>2. \A s \in Threads \ {"router"} : pc'[s] = pc[s] /\ work'[s] = work[s]
    BY <1>0 DEF TypeOK, SendList
  <2>3. \A s \in Threads \ {"router"} : Due(s)' = Due(s)
    BY <2>2, DueStays
  <2> QED
    BY <2>1, <2>3
<1>3. CallInv' /\ OwnerInv' /\ GameInv' /\ ChallengeInv'
  BY <1>0, <1>1, <1>2, NoneDue, QuietStep DEF SendList
<1>4. NoMail \in Mails /\ mail["router"].list \in Lists \cup {NoList}
  BY <1>0 DEF TypeOK, Mails, NoMail, Statuses
<1>5. TypeOK'
  BY <1>0, <1>4 DEF TypeOK, SendList, entryVars, netVars, gameVars
<1>6. ThreadInv'
  BY <1>0, <1>1, LobbyAssumption
     DEF TypeOK, ThreadInv, Control, SendList, netVars
<1> QED
  BY <1>3, <1>5, <1>6 DEF Inv

-----------------------------------------------------------------------------
(* Logins, logouts and lost connections.                                   *)

LEMMA LoginStep ==
  ASSUME Inv, NEW c \in Conns, NEW v \in Users, Login(c, v)
  PROVE  Inv'
<1> DEFINE call == AddPlayer(c, v)
<1>0. /\ TypeOK /\ ThreadInv /\ CallInv /\ OwnerInv /\ GameInv /\ ChallengeInv
      /\ "router" \in Threads /\ "router" \notin Conns /\ Conns \subseteq Threads
  BY LobbyAssumption DEF Inv, Threads
<1>1. work["router"] = <<>> /\ Due("router") = {}
  BY <1>0, NoneDue DEF ThreadInv, Control, Login
<1>2. call \in Calls /\ <<call>> \in Seq(Calls) /\ <<call>> # <<>>
  BY DEF AddPlayer, Calls, Statuses
<1>3. Due("router")' = {call} /\ \A s \in Threads \ {"router"} : Due(s)' = Due(s)
  BY <1>0, <1>2, BeginOneDue DEF Login
<1>4. TypeOK'
  BY <1>0, <1>2 DEF TypeOK, Login, Begin, entryVars, gameVars, Links
<1>5. ThreadInv'
  BY <1>0, <1>2 DEF TypeOK, ThreadInv, Control, Login, Begin
<1>6. CallInv'
  <2>1. CallOK("router", call)'
    BY <1>0 DEF CallOK, AddPlayer, Login, TypeOK
  <2>2. \A s \in Threads \ {"router"} : \A x \in Due(s) : CallOK(s, x)'
    BY <1>0 DEF CallInv, CallOK
  <2> QED
    BY <1>3, <2>1, <2>2 DEF CallInv
<1>7. OwnerInv'
  <2> SUFFICES ASSUME NEW u \in Users, status'[u] # "OFFLINE"
               PROVE  Owned(u)'
    BY DEF OwnerInv
  <2>1. Owned(u) /\ UNCHANGED <<status, owner, found>>
    BY <1>0 DEF OwnerInv, Login, entryVars
  <2>2. CASE owner[u] = c
    BY <1>0, <2>1, <2>2 DEF Owned, Kept, Login, TypeOK
  <2>3. CASE owner[u] # c
    <3>1. RemovalDue(owner[u], u)' <=> RemovalDue(owner[u], u)
      BY <1>0, <1>3, <2>1 DEF RemovalDue, Owned
    <3> QED
      BY <1>0, <2>1, <2>3, <3>1 DEF Owned, Kept, Login, TypeOK
  <2> QED
    BY <2>2, <2>3
<1>8. GameInv'
  BY <1>0, <1>1, <1>3 DEF GameInv, Engaged, Login, entryVars, gameVars, Players
<1>9. ChallengeInv'
  BY <1>0 DEF ChallengeInv, Login, gameVars
<1> QED
  BY <1>4, <1>5, <1>6, <1>7, <1>8, <1>9 DEF Inv

LEMMA LogoutStep ==
  ASSUME Inv, NEW c \in Conns, NEW v \in Users, Logout(c, v)
  PROVE  Inv'
<1> DEFINE call == RemovePlayer(v)
<1>0. /\ TypeOK /\ ThreadInv /\ CallInv /\ OwnerInv /\ GameInv /\ ChallengeInv
      /\ "router" \in Threads /\ "router" \notin Conns /\ Conns \subseteq Threads
  BY LobbyAssumption DEF Inv, Threads
<1>1. work["router"] = <<>> /\ Due("router") = {}
  BY <1>0, NoneDue DEF ThreadInv, Control, Logout
<1>2. call \in Calls /\ <<call>> \in Seq(Calls) /\ <<call>> # <<>>
  BY DEF RemovePlayer, Calls, Statuses
<1>3. Due("router")' = {call} /\ \A s \in Threads \ {"router"} : Due(s)' = Due(s)
  BY <1>0, <1>2, BeginOneDue DEF Logout
<1>4. TypeOK'
  BY <1>0, <1>2 DEF TypeOK, Logout, Begin, entryVars, gameVars, Links
<1>5. ThreadInv'
  BY <1>0, <1>2 DEF TypeOK, ThreadInv, Control, Logout, Begin
<1>6. CallInv'
  <2>1. \A x \in {call} : CallOK("router", x)'
    BY <1>0 DEF CallOK, RemovePlayer, Logout, TypeOK
  <2>2. \A s \in Threads \ {"router"} : \A x \in Due(s) : CallOK(s, x)'
    BY <1>0 DEF CallInv, CallOK, Logout, gameVars, Players
  <2> QED
    BY <1>3, <2>1, <2>2 DEF CallInv
<1>7. OwnerInv'
  <2> SUFFICES ASSUME NEW u \in Users, status'[u] # "OFFLINE"
               PROVE  Owned(u)'
    BY DEF OwnerInv
  <2>1. Owned(u) /\ UNCHANGED <<status, owner, user, found>>
    BY <1>0 DEF OwnerInv, Logout, entryVars
  <2>2. RemovalDue(owner[u], u)' <=> RemovalDue(owner[u], u)
    BY <1>0, <1>3, <2>1 DEF RemovalDue, Owned
  <2> QED
    BY <1>0, <2>1, <2>2 DEF Owned, Kept, Logout, TypeOK
<1>8. GameInv'
  BY <1>0, <1>1, <1>3 DEF GameInv, Engaged, Logout, entryVars, gameVars, Players
<1>9. ChallengeInv'
  BY <1>0 DEF ChallengeInv, Logout, gameVars
<1> QED
  BY <1>4, <1>5, <1>6, <1>7, <1>8, <1>9 DEF Inv

\* Nothing of the server changes when a descriptor is used again, but the entry
\* of its old connection may stay now.
LEMMA ReuseStep ==
  ASSUME Inv, NEW c \in Conns, NEW d \in Conns, Reuse(c, d)
  PROVE  Inv'
<1>0. TypeOK /\ ThreadInv /\ CallInv /\ OwnerInv /\ GameInv /\ ChallengeInv
  BY DEF Inv
<1>1. \A s \in Threads : Due(s)' = Due(s)
  BY DEF Due, Todo, Reuse, threadVars
<1>2. \A x \in Conns : found'[x] = x => found[x] = x
  BY <1>0 DEF Reuse, TypeOK
<1>3. TypeOK'
  <2>1. found' \in [Conns -> Conns \cup {Nobody}]
    BY <1>0 DEF TypeOK, Reuse
  <2> QED
    BY <1>0, <2>1 DEF TypeOK, Reuse, entryVars, gameVars, threadVars
<1>4. ThreadInv'
  BY <1>0 DEF ThreadInv, Control, Reuse, threadVars
<1>5. CallInv'
  <2>1. \A s \in Threads : \A x \in Due(s) : CallOK(s, x)'
    BY <1>0 DEF CallInv, CallOK, Reuse, gameVars, threadVars, Players
  <2> QED
    BY <1>1, <2>1 DEF CallInv
<1>6. OwnerInv'
  <2>1. \A s \in Threads, u \in Users : RemovalDue(s, u)' <=> RemovalDue(s, u)
    BY <1>1 DEF RemovalDue
  <2> QED
    BY <1>0, <1>2, <2>1 DEF OwnerInv, Owned, Kept, Threads, Reuse, entryVars
<1>7. GameInv'
  BY <1>0, <1>1 DEF GameInv, Engaged, Reuse, entryVars, gameVars, Players
<1>8. ChallengeInv'
  BY <1>0 DEF ChallengeInv, Reuse, gameVars
<1> QED
  BY <1>3, <1>4, <1>5, <1>6, <1>7, <1>8 DEF Inv

LEMMA GoneStep ==
  ASSUME Inv, NEW c \in Conns, Gone(c)
  PROVE  Inv'
<1>0. /\ TypeOK /\ ThreadInv /\ CallInv /\ OwnerInv /\ GameInv /\ ChallengeInv
      /\ "router" \notin Conns /\ c \in Threads
  BY LobbyAssumption DEF Inv, Threads
<1>1. Due(c) = {}
  BY <1>0, NoneDue DEF ThreadInv, Control, Gone
<1>2. \A s \in Threads : Due(s)' = Due(s)
  BY DEF Due, Todo, Gone, threadVars
<1>3. TypeOK'
  BY <1>0 DEF TypeOK, Gone, entryVars, gameVars, threadVars, Links
<1>4. ThreadInv'
  BY <1>0 DEF TypeOK, ThreadInv, Control, Gone, threadVars
<1>5. CallInv'
  <2>1. \A s \in Threads : \A x \in Due(s) : CallOK(s, x)'
    BY <1>0 DEF CallInv, CallOK, Gone, TypeOK, gameVars, threadVars, Players
  <2> QED
    BY <1>2, <2>1 DEF CallInv
<1>6. OwnerInv'
  <2> SUFFICES ASSUME NEW u \in Users, status'[u] # "OFFLINE"
               PROVE  Owned(u)'
    BY DEF OwnerInv
  <2>1. Owned(u) /\ UNCHANGED <<status, owner, user, found>>
    BY <1>0 DEF OwnerInv, Gone, entryVars
  <2>2. owner[u] = c => ~(user[c] = u /\ found[c] = c)
    BY <1>1, <2>1 DEF Owned, Kept, Gone, RemovalDue
  <2>3. \A s \in Threads : RemovalDue(s, u)' <=> RemovalDue(s, u)
    BY <1>2 DEF RemovalDue
  <2> QED
    BY <1>0, <2>1, <2>2, <2>3 DEF Owned, Kept, Gone, TypeOK, Threads
<1>7. GameInv'
  BY <1>0, <1>2 DEF GameInv, Engaged, Gone, entryVars, gameVars, Players
<1>8. ChallengeInv'
  BY <1>0 DEF ChallengeInv, Gone, gameVars
<1> QED
  BY <1>3, <1>4, <1>5, <1>6, <1>7, <1>8 DEF Inv

CallsOf(w) == {w[i] : i \in 1..Len(w)}
Farewells(ending, v) ==
  {UpdatePlayerStatus(Opponent(m, v), "AVAILABLE") : m \in ending}
    \cup {RemovePlayer(v)}

LEMMA FarewellCalls ==
  ASSUME NEW v \in Users, NEW n \in Nat, NEW ending \in SUBSET Challenges,
         NEW order \in [1..n -> ending],
         \A m \in ending : \E i \in 1..n : order[i] = m
  PROVE  /\ Farewell(order, n, v) \in Seq(Calls)
         /\ Farewell(order, n, v) # <<>>
         /\ CallsOf(Farewell(order, n, v)) = Farewells(ending, v)
<1> DEFINE w == Farewell(order, n, v)
<1> DEFINE Up(m) == UpdatePlayerStatus(Opponent(m, v), "AVAILABLE")
<1> DEFINE first == [i \in 1..n |-> Up(order[i])]
<1>1. \A m \in ending : Up(m) \in Calls
  BY DEF UpdatePlayerStatus, Opponent, Challenges, Calls, Statuses
<1>2. RemovePlayer(v) \in Calls
  BY DEF RemovePlayer, Calls, Statuses
<1>3. first \in Seq(Calls) /\ Len(first) = n
  BY <1>1
<1> HIDE DEF Up
<1>4. w = first \o <<RemovePlayer(v)>>
  BY DEF Up, Farewell
<1>5. \A i \in 1..n : first[i] = Up(order[i])
  OBVIOUS
<1> HIDE DEF first, w
<1>6. /\ w \in Seq(Calls) /\ Len(w) = n + 1 /\ w[n + 1] = RemovePlayer(v)
      /\ \A i \in 1..n : w[i] = first[i]
  <2> DEFINE last == <<RemovePlayer(v)>>
  <2>1. last \in Seq(Calls) /\ Len(last) = 1 /\ last[1] = RemovePlayer(v)
    BY <1>2
  <2> HIDE DEF last
  <2>2. first \o last \in Seq(Calls) /\ Len(first \o last) = n + 1
        /\ (first \o last)[n + 1] = last[1]
        /\ \A i \in 1..n : (first \o last)[i] = first[i]
    <3>1. /\ first \o last \in Seq(Calls) /\ Len(first \o last) = n + 1
          /\ \A i \in 1..n + 1 : (first \o last)[i] =
                                  IF i <= n THEN first[i] ELSE last[i - n]
      <4>1. first \o last \in Seq(Calls)
        BY <1>3, <2>1, ConcatProperties, Zenon
      <4>2. Len(first \o last) = Len(first) + Len(last)
        BY <1>3, <2>1, ConcatProperties, Zenon
      <4>3. \A i \in 1..Len(first) + Len(last) : (first \o last)[i] =
              IF i <= Len(first) THEN first[i] ELSE last[i - Len(first)]
        BY <1>3, <2>1, ConcatProperties, Zenon
      <4> QED
        BY <1>3, <2>1, <4>1, <4>2, <4>3
    <3>2. (first \o last)[n + 1] = last[1]
      <4>1. n + 1 \in 1..n + 1 /\ ~(n + 1 <= n) /\ n + 1 - n = 1
        OBVIOUS
      <4> QED
        BY <3>1, <4>1
    <3>3. \A i \in 1..n : (first \o last)[i] = first[i]
      <4>1. \A i \in 1..n : i \in 1..n + 1 /\ i <= n
        OBVIOUS
      <4> QED
        BY <3>1, <4>1
    <3> QED
      BY <3>1, <3>2, <3>3
  <2> QED
    BY <1>4, <2>1, <2>2 DEF last
<1>7. {w[i] : i \in 1..Len(w)} \subseteq {Up(m) : m \in ending} \cup {RemovePlayer(v)}
  <2> SUFFICES ASSUME NEW i \in 1..n + 1
               PROVE  w[i] \in {Up(m) : m \in ending} \cup {RemovePlayer(v)}
    BY <1>6
  <2>1. CASE i \in 1..n
    BY <1>5, <1>6, <2>1
  <2>2. CASE i = n + 1
    BY <1>6, <2>2
  <2> QED
    BY <2>1, <2>2
<1>8. \A m \in ending : Up(m) \in {w[i] : i \in 1..Len(w)}
  <2> TAKE m \in ending
  <2> PICK i \in 1..n : order[i] = m
    OBVIOUS
  <2>1. i \in 1..Len(w) /\ w[i] = Up(m)
    BY <1>5, <1>6
  <2> QED
    BY <2>1
<1>9. RemovePlayer(v) \in {w[i] : i \in 1..Len(w)}
  <2>1. n + 1 \in 1..Len(w)
    BY <1>6
  <2> QED
    BY <1>6, <2>1
<1>10. {w[i] : i \in 1..Len(w)} = {Up(m) : m \in ending} \cup {RemovePlayer(v)}
  BY <1>7, <1>8, <1>9
<1>11. w # <<>>
  BY <1>6
<1> QED
  BY <1>6, <1>10, <1>11 DEF Up, w, CallsOf, Farewells

\* removeClient finds somebody who is logged in, mostly the connection of the
\* thread itself.
LEMMA DisconnectUserStep ==
  ASSUME Inv, NEW c \in Conns, Disconnect(c),
         found[c] # Nobody, Authenticated(found[c])
  PROVE  Inv'
<1> DEFINE v == user[found[c]]
           ending == {m \in started \ over : v \in Players(m)}
<1>0. /\ TypeOK /\ ThreadInv /\ CallInv /\ OwnerInv /\ GameInv /\ ChallengeInv
      /\ "router" \in Threads /\ "router" \notin Conns /\ Conns \subseteq Threads
  BY LobbyAssumption DEF Inv, Threads
<1>1. /\ v \in Users /\ link[c] \in {"new", "open", "out"} /\ served # c
      /\ found[c] \in Conns
      /\ link' = [link EXCEPT ![c] = "lost"] /\ over' = over \cup ending
      /\ view' = [view EXCEPT ![c] = NoList]
      /\ found' = [x \in Conns |-> IF x # c /\ found[x] = found[c] THEN Nobody
                                   ELSE found[x]]
      /\ UNCHANGED <<entryVars, user, pending, nextId, rows, started, served>>
  BY <1>0 DEF Disconnect, SayGoodbye, Authenticated, ThreadInv, TypeOK
<1>2. ending \in SUBSET Challenges /\ IsFiniteSet(ending)
  <2>1. ending \subseteq rows
    BY <1>0 DEF TypeOK
  <2> QED
    BY <1>0, <2>1, FS_Subset DEF TypeOK, ChallengeInv
<1>3. Cardinality(ending) \in Nat
  BY <1>2, FS_CardinalityType
<1>4. PICK w : /\ w \in Seq(Calls) /\ w # <<>> /\ Begin(c, w)
               /\ CallsOf(w) = Farewells(ending, v)
  <2> PICK order \in [1..Cardinality(ending) -> ending] :
         /\ \A m \in ending : \E i \in DOMAIN order : order[i] = m
         /\ Begin(c, Farewell(order, Cardinality(ending), v))
    BY DEF Disconnect, SayGoodbye
  <2> DEFINE n == Cardinality(ending)
  <2>1. DOMAIN order = 1..n
    OBVIOUS
  <2>2. Begin(c, Farewell(order, n, v))
    OBVIOUS
  <2>3. order \in [1..n -> ending] /\ \A m \in ending : \E i \in 1..n : order[i] = m
    BY <2>1
  <2>4. n \in Nat
    BY <1>3
  <2> HIDE DEF ending, v, n
  <2>5. /\ Farewell(order, n, v) \in Seq(Calls)
        /\ Farewell(order, n, v) # <<>>
        /\ CallsOf(Farewell(order, n, v)) = Farewells(ending, v)
    BY <1>1, <1>2, <2>3, <2>4, FarewellCalls
  <2> QED
    BY <2>2, <2>5
<1> HIDE DEF ending, v
<1>5. /\ Due(c)' = {UpdatePlayerStatus(Opponent(m, v), "AVAILABLE") : m \in ending}
                      \cup {RemovePlayer(v)}
      /\ \A s \in Threads \ {c} : Due(s)' = Due(s)
  BY <1>0, <1>4, BeginDue DEF CallsOf, Farewells
<1>6. Due(c) = {}
  BY <1>0, <1>1, NoneDue DEF ThreadInv, Control
<1>7. TypeOK'
  BY <1>0, <1>1, <1>4 DEF TypeOK, Begin, entryVars, Links, ending
<1>8. ThreadInv'
  BY <1>0, <1>1, <1>4 DEF TypeOK, ThreadInv, Control, Begin
<1>9. CallInv'
  <2>1. \A s \in Threads : \A x \in Due(s) : CallOK(s, x)'
    BY <1>0, <1>1 DEF CallInv, CallOK, TypeOK, Players
  <2>2. \A x \in Due(c)' : CallOK(c, x)'
    BY <1>0, <1>5 DEF CallOK, UpdatePlayerStatus, RemovePlayer
  <2> QED
    BY <1>5, <2>1, <2>2 DEF CallInv
<1>10. OwnerInv'
  <2>0. \A x \in Conns : found'[x] = x => found[x] = x /\ (x = c => v = user[c])
    BY <1>0, <1>1, LobbyAssumption DEF TypeOK, v
  <2> SUFFICES ASSUME NEW u \in Users, status'[u] # "OFFLINE"
               PROVE  Owned(u)'
    BY DEF OwnerInv
  <2>1. Owned(u) /\ UNCHANGED <<status, owner, user>>
    BY <1>0, <1>1 DEF OwnerInv, entryVars
  <2>2. \A s \in Threads : RemovalDue(s, u) => RemovalDue(s, u)'
    BY <1>5, <1>6 DEF RemovalDue
  <2>3. CASE owner[u] = c /\ user[c] = u /\ found'[c] = c
    <3>1. RemovePlayer(v) \in Due(c)' /\ v = u
      BY <1>5, <2>0, <2>3
    <3>2. RemovalDue(c, u)'
      BY <3>1 DEF RemovalDue, RemovePlayer
    <3> QED
      BY <1>0, <1>1, <2>1, <2>3, <3>2 DEF Owned, Kept, TypeOK
  <2>4. CASE owner[u] = c /\ ~(user[c] = u /\ found'[c] = c)
    BY <1>0, <1>1, <2>1, <2>4 DEF Owned, TypeOK
  <2>5. CASE owner[u] # c
    BY <1>0, <1>1, <2>0, <2>1, <2>2, <2>5 DEF Owned, Kept, TypeOK
  <2> QED
    BY <2>3, <2>4, <2>5
<1>11. GameInv'
  <2> SUFFICES ASSUME NEW u \in Users, status'[u] = "IN_GAME"
               PROVE  Engaged(u)'
    BY DEF GameInv
  <2>1. Engaged(u)
    BY <1>0, <1>1 DEF GameInv, entryVars
  <2>2. \A s \in Threads : Due(s) \subseteq Due(s)'
    BY <1>5, <1>6
  <2>3. ASSUME NEW m \in rows \ over, u \in Players(m)
        PROVE  Engaged(u)'
    <3>1. CASE m \in ending
      <4>1. \/ u = v
            \/ UpdatePlayerStatus(Opponent(m, v), "AVAILABLE").u = u
        BY <2>3, <3>1 DEF ending, Players, Opponent, UpdatePlayerStatus
      <4>2. \E x \in Due(c)' : x.u = u /\ x.s # "IN_GAME"
        <5>1. CASE u = v
          <6>1. RemovePlayer(v) \in Due(c)'
            BY <1>5
          <6> QED
            BY <5>1, <6>1 DEF RemovePlayer
        <5>2. CASE UpdatePlayerStatus(Opponent(m, v), "AVAILABLE").u = u
          <6>1. UpdatePlayerStatus(Opponent(m, v), "AVAILABLE") \in Due(c)'
            BY <1>5, <3>1
          <6> QED
            BY <5>2, <6>1 DEF UpdatePlayerStatus
        <5> QED
          BY <4>1, <5>1, <5>2
      <4> QED
        BY <1>0, <4>2 DEF Engaged
    <3>2. CASE m \notin ending
      BY <1>1, <2>3, <3>2 DEF Engaged, Players
    <3> QED
      BY <3>1, <3>2
  <2> QED
    BY <2>1, <2>2, <2>3 DEF Engaged
<1>12. ChallengeInv'
  BY <1>0, <1>1 DEF ChallengeInv
<1> QED
  BY <1>7, <1>8, <1>9, <1>10, <1>11, <1>12 DEF Inv

\* removeClient finds nothing, or somebody who never logged in.
LEMMA DisconnectStrangerStep ==
  ASSUME Inv, NEW c \in Conns, Disconnect(c),
         found[c] = Nobody \/ ~Authenticated(found[c])
  PROVE  Inv'
<1>0. /\ TypeOK /\ ThreadInv /\ CallInv /\ OwnerInv /\ GameInv /\ ChallengeInv
      /\ Conns \subseteq Threads
  BY DEF Inv, Threads
<1>1. /\ link[c] \in {"new", "open", "out"} /\ served # c
      /\ link' = [link EXCEPT ![c] = "lost"]
      /\ view' = [view EXCEPT ![c] = NoList]
      /\ found' = [x \in Conns |-> IF x # c /\ found[x] = found[c] THEN Nobody
                                   ELSE found[x]]
      /\ UNCHANGED <<entryVars, user, gameVars, threadVars>>
  BY DEF Disconnect, gameVars, threadVars
<1>2. \A s \in Threads : Due(s)' = Due(s)
  BY <1>1 DEF Due, Todo, threadVars
<1>3. TypeOK'
  <2>1. found' \in [Conns -> Conns \cup {Nobody}] /\ link' \in [Conns -> Links]
    BY <1>0, <1>1 DEF TypeOK, Links
  <2>2. view' \in [Conns -> Lists \cup {NoList}]
    BY <1>0, <1>1 DEF TypeOK
  <2> QED
    BY <1>0, <1>1, <2>1, <2>2 DEF TypeOK, entryVars, gameVars, threadVars
<1>4. ThreadInv'
  BY <1>0, <1>1 DEF TypeOK, ThreadInv, Control, Authenticated, threadVars
<1>5. CallInv'
  <2>1. \A s \in Threads : \A x \in Due(s) : CallOK(s, x)'
    BY <1>0, <1>1 DEF CallInv, CallOK, TypeOK, gameVars, threadVars, Players
  <2> QED
    BY <1>2, <2>1 DEF CallInv
<1>6. OwnerInv'
  <2> SUFFICES ASSUME NEW u \in Users, status'[u] # "OFFLINE"
               PROVE  Owned(u)'
    BY DEF OwnerInv
  <2>1. Owned(u) /\ UNCHANGED <<status, owner, user>>
    BY <1>0, <1>1 DEF OwnerInv, entryVars
  <2>2. RemovalDue(owner[u], u)' <=> RemovalDue(owner[u], u)
    BY <1>0, <1>2, <2>1 DEF RemovalDue, Owned
  <2>3. CASE owner[u] = c
    <3>1. found'[c] = found[c] /\ link[c] # "new"
      BY <1>0, <1>1, <2>1, <2>3 DEF Owned, TypeOK
    <3>2. found[c] # c
      <4>1. Nobody # c /\ Authenticated(c)
        BY <1>1, <3>1, LobbyAssumption DEF Authenticated
      <4> QED
        BY <4>1
    <3> QED
      BY <1>0, <1>1, <2>1, <2>3, <3>1, <3>2 DEF Owned, TypeOK
  <2>4. CASE owner[u] # c
    <3>1. found'[owner[u]] = owner[u] => found[owner[u]] = owner[u]
      BY <1>0, <1>1, <2>1, LobbyAssumption DEF Owned, TypeOK
    <3> QED
      BY <1>0, <1>1, <2>1, <2>2, <2>4, <3>1 DEF Owned, Kept, TypeOK
  <2> QED
    BY <2>3, <2>4
<1>7. GameInv'
  BY <1>0, <1>1, <1>2 DEF GameInv, Engaged, entryVars, gameVars, Players
<1>8. ChallengeInv'
  BY <1>0, <1>1 DEF ChallengeInv, gameVars
<1> QED
  BY <1>3, <1>4, <1>5, <1>6, <1>7, <1>8 DEF Inv

LEMMA DisconnectStep ==
  ASSUME Inv, NEW c \in Conns, Disconnect(c)
  PROVE  Inv'
BY DisconnectUserStep, DisconnectStrangerStep

-----------------------------------------------------------------------------
(* Challenges and matches.                                                 *)

\* Two calls that are due in thread t, which was at rest, and nothing changed
\* about who is online and what has started: what the other threads have to
\* do stays justified, and so do the entries.
LEMMA OthersStep ==
  ASSUME Inv, NEW t \in Threads, Due(t) = {},
         \A s \in Threads \ {t} : Due(s)' = Due(s),
         UNCHANGED <<entryVars, netVars, started>>, rows \subseteq rows',
         served' = served \/ t = "router"
  PROVE  /\ \A s \in Threads \ {t} : \A x \in Due(s)' : CallOK(s, x)'
         /\ OwnerInv'
<1>0. TypeOK /\ ThreadInv /\ CallInv /\ OwnerInv
  BY DEF Inv
<1>1. ASSUME NEW s \in Threads \ {t}, NEW x \in Due(s)
      PROVE  CallOK(s, x)'
  BY <1>0, <1>1 DEF CallInv, CallOK, netVars, Players
<1>2. OwnerInv'
  <2>1. \A s \in Threads, u \in Users : RemovalDue(s, u) => RemovalDue(s, u)'
    BY DEF RemovalDue
  <2> QED
    BY <1>0, <2>1 DEF OwnerInv, Owned, Kept, Threads, entryVars, netVars
<1> QED
  BY <1>1, <1>2

LEMMA SendChallengeStep ==
  ASSUME Inv, NEW c \in Conns, NEW v \in Users, SendChallenge(c, v)
  PROVE  Inv'
<1> DEFINE ch == [id |-> nextId, from |-> user[c], to |-> v]
<1>0. TypeOK /\ ThreadInv /\ CallInv /\ OwnerInv /\ GameInv /\ ChallengeInv
  BY DEF Inv
<1>1. /\ user[c] \in Users /\ user[c] # v /\ owner[v] \in Conns
      /\ nextId \in 1..MaxChallenge /\ nextId' = nextId + 1 /\ nextId' \in Nat
      /\ pending' = pending \cup {ch} /\ ch \in Challenges
      /\ UNCHANGED <<entryVars, netVars, rows, started, over, threadVars, view>>
  BY <1>0, LobbyAssumption
     DEF SendChallenge, Authenticated, TypeOK, ThreadInv, OwnerInv, Owned, Kept, Challenges
<1>2. \A s \in Threads : Due(s)' = Due(s)
  BY <1>1 DEF Due, Todo, threadVars
<1>3. TypeOK'
  BY <1>0, <1>1, LobbyAssumption DEF TypeOK, entryVars, netVars, threadVars
<1>4. ThreadInv'
  BY <1>0, <1>1 DEF ThreadInv, Control, netVars, threadVars
<1>5. CallInv'
  <2>1. \A s \in Threads : \A x \in Due(s) : CallOK(s, x)'
    BY <1>0, <1>1 DEF CallInv, CallOK, netVars, threadVars, Players
  <2> QED
    BY <1>2, <2>1 DEF CallInv
<1>6. OwnerInv'
  <2>1. \A s \in Threads, u \in Users : RemovalDue(s, u)' <=> RemovalDue(s, u)
    BY <1>2 DEF RemovalDue
  <2> QED
    BY <1>0, <1>1, <2>1 DEF OwnerInv, Owned, Kept, Threads, entryVars, netVars
<1>7. GameInv'
  BY <1>0, <1>1, <1>2 DEF GameInv, Engaged, entryVars, Players
<1>8. ChallengeInv'
  <2>1. \A m \in rows \cup pending : m.id \in Nat /\ m.id < nextId
    BY <1>0 DEF ChallengeInv, TypeOK, Challenges
  <2>2. ch.id = nextId /\ ch.from # ch.to
    BY <1>1
  <2>3. nextId \in Nat /\ nextId < nextId + 1
    BY <1>1
  <2> HIDE DEF ch
  <2>4. \A m \in rows \cup pending : m # ch /\ m.id # ch.id
    BY <2>1, <2>2, <2>3
  <2>5. \A m \in rows' \cup pending' : m.id < nextId' /\ m.from # m.to
    BY <1>0, <1>1, <2>1, <2>2, <2>3 DEF ChallengeInv
  <2>6. \A m, n \in rows' \cup pending' : m.id = n.id => m = n
    BY <1>0, <1>1, <2>4 DEF ChallengeInv
  <2> QED
    BY <1>0, <1>1, <2>4, <2>5, <2>6 DEF ChallengeInv
<1> QED
  BY <1>3, <1>4, <1>5, <1>6, <1>7, <1>8 DEF Inv

LEMMA DeclineStep ==
  ASSUME Inv, NEW c \in Conns, NEW ch \in pending, Decline(c, ch)
  PROVE  Inv'
<1>0. TypeOK /\ ThreadInv /\ CallInv /\ OwnerInv /\ GameInv /\ ChallengeInv
  BY DEF Inv
<1>1. \A s \in Threads : Due(s)' = Due(s)
  BY DEF Due, Todo, Decline, threadVars
<1>2. TypeOK'
  BY <1>0 DEF TypeOK, Decline, entryVars, netVars, threadVars
<1>3. ThreadInv'
  BY <1>0 DEF ThreadInv, Control, Decline, netVars, threadVars
<1>4. CallInv'
  <2>1. \A s \in Threads : \A x \in Due(s) : CallOK(s, x)'
    BY <1>0 DEF CallInv, CallOK, Decline, netVars, threadVars, Players
  <2> QED
    BY <1>1, <2>1 DEF CallInv
<1>5. OwnerInv'
  <2>1. \A s \in Threads, u \in Users : RemovalDue(s, u)' <=> RemovalDue(s, u)
    BY <1>1 DEF RemovalDue
  <2> QED
    BY <1>0, <2>1 DEF OwnerInv, Owned, Kept, Threads, Decline, entryVars, netVars
<1>6. GameInv'
  BY <1>0, <1>1 DEF GameInv, Engaged, Decline, entryVars, Players
<1>7. ChallengeInv'
  BY <1>0 DEF ChallengeInv, Decline
<1> QED
  BY <1>2, <1>3, <1>4, <1>5, <1>6, <1>7 DEF Inv

\* The match of an accepted challenge has not started, and the calls that make
\* its players IN_GAME are made before it can.
LEMMA AcceptStep ==
  ASSUME Inv, NEW c \in Conns, NEW ch \in pending, Accept(c, ch)
  PROVE  Inv'
<1> DEFINE x == UpdatePlayerStatus(ch.from, "IN_GAME")
           y == UpdatePlayerStatus(ch.to, "IN_GAME")
<1>0. /\ TypeOK /\ ThreadInv /\ CallInv /\ OwnerInv /\ GameInv /\ ChallengeInv
      /\ "router" \in Threads /\ "router" \notin Conns /\ Conns \subseteq Threads
  BY LobbyAssumption DEF Inv, Threads
<1>1. work["router"] = <<>> /\ Due("router") = {}
  BY <1>0, NoneDue DEF ThreadInv, Control, Accept
<1>2. ch \in Challenges /\ ch.from \in Users /\ ch.to \in Users
  BY <1>0 DEF TypeOK, Challenges
<1>3. /\ x \in Calls /\ x.op = "update" /\ x.u = ch.from /\ x.s = "IN_GAME"
      /\ y \in Calls /\ y.op = "update" /\ y.u = ch.to /\ y.s = "IN_GAME"
  BY <1>2 DEF UpdatePlayerStatus, Calls, Statuses
<1>4. /\ pending' = pending \ {ch} /\ rows' = rows \cup {ch} /\ served' = c
      /\ Begin("router", <<x, y>>)
      /\ UNCHANGED <<entryVars, netVars, nextId, started, over, view>>
  BY DEF Accept
<1> HIDE DEF x, y
<1>5. Due("router")' = {x, y} /\ \A s \in Threads \ {"router"} : Due(s)' = Due(s)
  BY <1>0, <1>3, <1>4, BeginTwoDue
<1>6. TypeOK'
  BY <1>0, <1>2, <1>3, <1>4 DEF TypeOK, Begin, entryVars, netVars
<1>7. ThreadInv'
  BY <1>0, <1>3, <1>4 DEF TypeOK, ThreadInv, Control, Begin, netVars
<1>8. /\ \A s \in Threads \ {"router"} : \A z \in Due(s)' : CallOK(s, z)'
      /\ OwnerInv'
  BY <1>0, <1>1, <1>4, <1>5, OthersStep
<1>9. CallInv'
  <2>1. ch \in rows' \ started'
    BY <1>0, <1>4 DEF TypeOK, ChallengeInv
  <2>2. \A z \in Due("router")' : CallOK("router", z)'
    BY <1>3, <1>5, <2>1 DEF CallOK, Players
  <2> QED
    BY <1>8, <2>2 DEF CallInv
<1>10. GameInv'
  <2>1. \A s \in Threads : Due(s) \subseteq Due(s)'
    BY <1>1, <1>5
  <2> QED
    BY <1>0, <1>4, <2>1 DEF GameInv, Engaged, entryVars, Players
<1>11. ChallengeInv'
  <2>1. IsFiniteSet(rows')
    BY <1>0, <1>4, FS_AddElement DEF ChallengeInv
  <2> QED
    BY <1>0, <1>4, <2>1 DEF ChallengeInv
<1> QED
  BY <1>6, <1>7, <1>8, <1>9, <1>10, <1>11 DEF Inv

\* Only the router may have IN_GAME calls due, and it is at rest.
LEMMA StartMatchStep ==
  ASSUME Inv, NEW c \in Conns, NEW m \in rows, StartMatch(c, m)
  PROVE  Inv'
<1>0. /\ TypeOK /\ ThreadInv /\ CallInv /\ OwnerInv /\ GameInv /\ ChallengeInv
      /\ "router" \in Threads
  BY DEF Inv, Threads
<1>1. Due("router") = {}
  BY <1>0, NoneDue DEF ThreadInv, Control, StartMatch
<1>2. \A s \in Threads : Due(s)' = Due(s)
  BY DEF Due, Todo, StartMatch, threadVars
<1>3. TypeOK'
  BY <1>0 DEF TypeOK, StartMatch, entryVars, netVars, threadVars
<1>4. ThreadInv'
  BY <1>0 DEF ThreadInv, Control, StartMatch, netVars, threadVars
<1>5. CallInv'
  <2>1. \A s \in Threads : \A x \in Due(s) : x.s # "IN_GAME"
    BY <1>0, <1>1 DEF CallInv, CallOK
  <2>2. \A s \in Threads : \A x \in Due(s) : CallOK(s, x)'
    BY <1>0, <2>1 DEF CallInv, CallOK, StartMatch, netVars, threadVars
  <2> QED
    BY <1>2, <2>2 DEF CallInv
<1>6. OwnerInv'
  <2>1. \A s \in Threads, u \in Users : RemovalDue(s, u)' <=> RemovalDue(s, u)
    BY <1>2 DEF RemovalDue
  <2> QED
    BY <1>0, <2>1 DEF OwnerInv, Owned, Kept, Threads, StartMatch, entryVars, netVars
<1>7. GameInv'
  BY <1>0, <1>2 DEF GameInv, Engaged, StartMatch, entryVars, Players
<1>8. ChallengeInv'
  BY <1>0 DEF ChallengeInv, StartMatch
<1> QED
  BY <1>3, <1>4, <1>5, <1>6, <1>7, <1>8 DEF Inv

\* The match that ends may be the one that keeps a player IN_GAME, and then a
\* call that makes the player AVAILABLE is due.
LEMMA EndMatchStep ==
  ASSUME Inv, NEW c \in Conns, NEW t \in {"router", "timer"}, NEW m \in started,
         EndMatch(t, c, m)
  PROVE  Inv'
<1> DEFINE x == UpdatePlayerStatus(m.from, "AVAILABLE")
           y == UpdatePlayerStatus(m.to, "AVAILABLE")
<1>0. /\ TypeOK /\ ThreadInv /\ CallInv /\ OwnerInv /\ GameInv /\ ChallengeInv
      /\ t \in Threads /\ t \notin Conns /\ Conns \subseteq Threads
  BY LobbyAssumption DEF Inv, Threads
<1>1. work[t] = <<>> /\ Due(t) = {}
  BY <1>0, NoneDue DEF ThreadInv, Control, EndMatch
<1>2. m \in rows /\ m.from \in Users /\ m.to \in Users
  BY <1>0 DEF TypeOK, Challenges
<1>3. /\ x \in Calls /\ x.op = "update" /\ x.u = m.from /\ x.s = "AVAILABLE"
      /\ y \in Calls /\ y.op = "update" /\ y.u = m.to /\ y.s = "AVAILABLE"
  BY <1>2 DEF UpdatePlayerStatus, Calls, Statuses
<1>4. /\ over' = over \cup {m} /\ Begin(t, <<x, y>>)
      /\ served' = served \/ (t = "router" /\ served' = c)
      /\ UNCHANGED <<entryVars, netVars, pending, nextId, rows, started,
                     view>>
  BY DEF EndMatch
<1> HIDE DEF x, y
<1>5. Due(t)' = {x, y} /\ \A s \in Threads \ {t} : Due(s)' = Due(s)
  BY <1>0, <1>3, <1>4, BeginTwoDue
<1>6. TypeOK'
  BY <1>0, <1>3, <1>4 DEF TypeOK, Begin, entryVars, netVars
<1>7. ThreadInv'
  BY <1>0, <1>3, <1>4 DEF TypeOK, ThreadInv, Control, Begin, netVars
<1>8. /\ \A s \in Threads \ {t} : \A z \in Due(s)' : CallOK(s, z)'
      /\ OwnerInv'
  BY <1>0, <1>1, <1>4, <1>5, OthersStep
<1>9. CallInv'
  <2>1. \A z \in Due(t)' : CallOK(t, z)'
    BY <1>3, <1>5 DEF CallOK
  <2> QED
    BY <1>8, <2>1 DEF CallInv
<1>10. GameInv'
  <2> SUFFICES ASSUME NEW u \in Users, status'[u] = "IN_GAME"
               PROVE  Engaged(u)'
    BY DEF GameInv
  <2>1. Engaged(u)
    BY <1>0, <1>4 DEF GameInv, entryVars
  <2>2. \A s \in Threads : Due(s) \subseteq Due(s)'
    BY <1>1, <1>5
  <2>3. CASE u \in Players(m)
    <3>1. \E z \in Due(t)' : z.u = u /\ z.s # "IN_GAME"
      BY <1>3, <1>5, <2>3 DEF Players
    <3> QED
      BY <1>0, <3>1 DEF Engaged
  <2>4. CASE u \notin Players(m)
    BY <1>4, <2>1, <2>2, <2>4 DEF Engaged, Players
  <2> QED
    BY <2>3, <2>4
<1>11. ChallengeInv'
  BY <1>0, <1>4 DEF ChallengeInv
<1> QED
  BY <1>6, <1>7, <1>8, <1>9, <1>10, <1>11 DEF Inv

-----------------------------------------------------------------------------
(* The invariant.                                                          *)

LEMMA InvInit == Init => Inv
<1> SUFFICES ASSUME Init
             PROVE  Inv
  OBVIOUS
<1>1. TypeOK
  <2>1. NoMail \in Mails /\ <<>> \in Seq(Calls)
    BY DEF NoMail, Mails, Statuses
  <2> QED
    BY <2>1, LobbyAssumption DEF Init, TypeOK, Links, Statuses
<1>2. ThreadInv
  BY DEF Init, ThreadInv, Control, Threads
<1>3. \A t \in Threads : Due(t) = {}
  BY NoneDue DEF Init
<1>4. CallInv /\ OwnerInv /\ GameInv
  BY <1>3 DEF Init, CallInv, OwnerInv, GameInv
<1>5. ChallengeInv
  BY FS_EmptySet DEF Init, ChallengeInv
<1> QED
  BY <1>1, <1>2, <1>4, <1>5 DEF Inv

LEMMA InvStutter == Inv /\ UNCHANGED vars => Inv'
<1> SUFFICES ASSUME Inv, UNCHANGED vars
             PROVE  Inv'
  OBVIOUS
<1>0. TypeOK /\ ThreadInv
  BY DEF Inv
<1>1. UNCHANGED <<entryVars, netVars, gameVars, threadVars, view>>
  BY DEF vars
<1>2. \A s \in Threads : Due(s)' = Due(s)
  BY <1>1 DEF Due, Todo, threadVars
<1>3. CallInv' /\ OwnerInv' /\ GameInv' /\ ChallengeInv'
  BY <1>1, <1>2, QuietStep DEF threadVars
<1>4. TypeOK'
  BY <1>0, <1>1 DEF TypeOK, entryVars, netVars, gameVars, threadVars
<1>5. ThreadInv'
  BY <1>0, <1>1 DEF ThreadInv, Control, netVars, threadVars
<1> QED
  BY <1>3, <1>4, <1>5 DEF Inv

LEMMA InvNext == Inv /\ [Next]_vars => Inv'
<1> SUFFICES ASSUME Inv, [Next]_vars
             PROVE  Inv'
  OBVIOUS
<1>1. ASSUME NEW t \in Threads, ThreadStep(t)
      PROVE  Inv'
  BY <1>1, SetStep, TellStep, SendStep DEF ThreadStep
<1>2. CASE SendList
  BY <1>2, SendListStep
<1>3. ASSUME NEW c \in Conns, ReadList(c) \/ Disconnect(c) \/ Gone(c)
      PROVE  Inv'
  BY <1>3, ReadListStep, DisconnectStep, GoneStep
<1>4. ASSUME NEW c \in Conns, NEW u \in Users,
             Login(c, u) \/ Logout(c, u) \/ SendChallenge(c, u)
      PROVE  Inv'
  BY <1>4, LoginStep, LogoutStep, SendChallengeStep
<1>9. ASSUME NEW c \in Conns, NEW d \in Conns, Reuse(c, d)
      PROVE  Inv'
  BY <1>9, ReuseStep
<1>5. ASSUME NEW c \in Conns, NEW ch \in pending, Accept(c, ch) \/ Decline(c, ch)
      PROVE  Inv'
  BY <1>5, AcceptStep, DeclineStep
<1>6. ASSUME NEW c \in Conns, NEW m \in rows, StartMatch(c, m)
      PROVE  Inv'
  BY <1>6, StartMatchStep
<1>7. ASSUME NEW c \in Conns, NEW t \in {"router", "timer"}, NEW m \in started,
             EndMatch(t, c, m)
      PROVE  Inv'
  BY <1>7, EndMatchStep
<1>8. CASE UNCHANGED vars
  BY <1>8, InvStutter
<1> QED
  BY <1>1, <1>2, <1>3, <1>4, <1>5, <1>6, <1>7, <1>8, <1>9 DEF Next

LEMMA InvAlways == Spec => []Inv
BY InvInit, InvNext, PTL DEF Spec

-----------------------------------------------------------------------------
(* The theorems.                                                           *)

\* The maps of PlayerManager and ChallengeManager, and what each thread has
\* still to do, keep their types.
THEOREM TypeCorrect == Spec => []TypeOK
<1>1. Inv => TypeOK
  BY DEF Inv
<1> QED
  BY <1>1, InvAlways, PTL

\* An entry of players_ that holds a pointer to a ClientConnection which is gone
\* was left behind by a later login on that connection as another user, or by a
\* descriptor that was used again too early.  Whatever the order in which
\* logins, logouts, lost connections and the calls they make come, every other
\* entry is removed while its connection is kept alive by its thread.
THEOREM EntriesAlive == Spec => []EntryOwnerAlive
<1>1. Inv => EntryOwnerAlive
  BY DEF Inv, OwnerInv, Owned, Kept, EntryOwnerAlive
<1> QED
  BY <1>1, InvAlways, PTL

\* However often and however late challenges are answered, each makes one match
\* at most, between two different users.
THEOREM ChallengesAcceptedOnce == Spec => []AcceptedOnce
<1>1. Inv => AcceptedOnce
  <2> SUFFICES ASSUME Inv, NEW m \in rows
               PROVE  /\ m.from # m.to
                      /\ \A n \in rows \cup pending :
                           n.id = m.id => n = m /\ n \in rows \ pending
    BY DEF AcceptedOnce
  <2> QED
    BY DEF Inv, ChallengeInv
<1> QED
  BY <1>1, InvAlways, PTL

\* A player is not shown as IN_GAME for ever: when no call of PlayerManager is
\* left to be made, every such player has a match that has not ended, whichever
\* threads ended the others.
THEOREM PlayersInGameHaveMatch == Spec => []InGameHasMatch
<1>1. Inv => InGameHasMatch
  <2> SUFFICES ASSUME Inv, AtRest, NEW u \in Users, status[u] = "IN_GAME"
               PROVE  \E m \in rows \ over : u \in Players(m)
    BY DEF InGameHasMatch
  <2>1. \A t \in Threads : Due(t) = {}
    BY NoneDue DEF Inv, ThreadInv, Control, AtRest
  <2> QED
    BY <2>1 DEF Inv, GameInv, Engaged
<1> QED
  BY <1>1, InvAlways, PTL
=============================================================================
