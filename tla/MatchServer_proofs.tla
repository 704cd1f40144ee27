------------------------- MODULE MatchServer_proofs -------------------------
(***************************************************************************)
(* Proofs about MatchServer, for any number of users, connections, matches *)
(* and match objects: type correctness, that no thread announces the end   *)
(* of one match object twice, that a match which is left alone by the      *)
(* router can be played, that its matches end as in MatchLife, and that    *)
(* its objects are played as in MatchObject.                               *)
(***************************************************************************)
EXTENDS MatchServer, TLAPS

(***************************************************************************)
(* The steps of ending a match, before and after sendMatchEnd.  A cleanup  *)
(* writes the row first.                                                   *)
(***************************************************************************)
Before(t) == pc[t] = "announce" \/ (t \in Conns /\ pc[t] = "record")
After(t) ==
  \/ pc[t] = "erase"
  \/ t \notin Conns /\ pc[t] \in {"record", "free"}

\* An object serves one match, and object numbers are handed out in order.
ObjectsInv ==
  /\ \A m, n \in Matches : active[m] = active[n] /\ active[m] # NoObj => m = n
  /\ \A m \in Matches : active[m] <= created
  /\ \A o \in Objects : o > created => told[o] = {}

\* A thread that ends a match holds an object that was, and if it still is
\* active is, the object of that match.
JobsInv ==
  \A t \in Threads : Before(t) \/ After(t) =>
    /\ job[t].o \in 1..created
    /\ \A m \in Matches : active[m] = job[t].o => m = job[t].m

\* A thread that has announced the end of an object which is still active is
\* on its way to remove it.
ToldInv ==
  /\ \A o \in Objects : \A v \in told[o] :
       (\E m \in Matches : active[m] = o)
         => After(v.by) /\ job[v.by].o = o
  /\ \A t \in Threads : Before(t) => \A v \in told[job[t].o] : v.by # t

\* ShipPlacement leaves room for the object that CheckReady may create.
RoomInv == pc["router"] = "check" => created < MaxObj

\* The thread of a connection runs no cleanup before the connection is lost.
LinkInv == \A c \in Conns : link[c] \in {"new", "open", "out"} => pc[c] = "idle"

EndInv == TypeOK /\ RoomInv /\ LinkInv /\ ObjectsInv /\ JobsInv /\ ToldInv

Playable(m) ==
  /\ heap[active[m]].live
  /\ heap[active[m]].turn \in Players(m)
  /\ \A u \in Players(m) : heap[active[m]].afloat[u] > 0

\* The router is starting this match or ending it.
Working(m) ==
  /\ pc["router"] \in {"start", "announce", "record", "free", "erase"}
  /\ job["router"].m = m

\* Only the match the router is working on may be unplayable.
PlayInv == \A m \in Matches : active[m] # NoObj => Playable(m) \/ Working(m)

-----------------------------------------------------------------------------
(* Type correctness.                                                       *)

LEMMA ConstantFacts ==
  /\ NoObj \in 0..MaxObj
  /\ NoJob \in Jobs
  /\ Fresh \in MatchStates
  /\ "router" \in Threads /\ "timer" \in Threads /\ Conns \subseteq Threads
  /\ \A m \in Matches : Players(m) \subseteq Users
  /\ \A m \in Matches, u \in UserOrNobody : Other(m, u) \in UserOrNobody
  /\ Nobody \in UserOrNobody /\ Users \subseteq UserOrNobody
BY ConstantsAssumption
   DEF NoObj, NoJob, Jobs, Fresh, UserOrNobody, Threads, Players, Other, Reasons,
       MatchStates

\* Case analysis on a step.
LEMMA NextCases ==
  ASSUME Next
  PROVE  \/ \E c \in Conns, u \in Users : Login(c, u)
         \/ \E c \in Conns : Logout(c)
         \/ \E c \in Conns, m \in Matches :
              \/ AcceptChallenge(c, m) \/ ShipPlacement(c, m) \/ MoveMiss(c, m)
              \/ MoveHit(c, m) \/ Resign(c, m) \/ AcceptDraw(c, m)
         \/ CheckReady \/ StartMatch
         \/ \E o \in Objects : TurnExpires(o)
         \/ TimerScan \/ TimerNext
         \/ \E c \in Conns : \/ Disconnect(c) \/ CleanupScan(c)
                             \/ CleanupNext(c) \/ RemovePlayer(c)
         \/ \E t \in Threads : \/ Announce(t) \/ Record(t) \/ Free(t)
                               \/ Erase(t) \/ Unready(t)
BY DEF Next, RouterStep, TimerStep, CleanupStep, EndStep

\* Init gives every variable a value of its type.
LEMMA InitType == Init => TypeOK
<1> SUFFICES ASSUME Init PROVE TypeOK
  OBVIOUS
<1> USE ConstantFacts, ConstantsAssumption DEF Init
<1>1. heap \in [Objects -> MatchStates]
  OBVIOUS
<1>2. row \in [Matches -> Rows]
  BY DEF Rows
<1>3. job \in [Threads -> Jobs]
  OBVIOUS
<1>4. user \in [Conns -> UserOrNobody]
  OBVIOUS
<1> QED
  BY <1>1, <1>2, <1>3, <1>4 DEF TypeOK, Steps, NoObj, Statuses, Links

\* The locals and the program counter of a thread keep their types.
LEMMA GotoType ==
  ASSUME TypeOK, NEW t, NEW s \in Steps, Goto(t, s)
  PROVE  pc' \in [Threads -> Steps]
<1>1. pc \in [Threads -> Steps]
  BY DEF TypeOK
<1> QED
  BY <1>1 DEF Goto

LEMMA FinishType ==
  ASSUME TypeOK, NEW t, NEW s \in Steps, Finish(t, s)
  PROVE  pc' \in [Threads -> Steps] /\ job' \in [Threads -> Jobs]
<1>1. job \in [Threads -> Jobs] /\ NoJob \in Jobs
  BY ConstantFacts DEF TypeOK
<1>2. job' = [job EXCEPT ![t] = NoJob] /\ Goto(t, s)
  BY DEF Finish
<1> QED
  BY <1>1, <1>2, GotoType

LEMMA JobUpdateType ==
  ASSUME TypeOK, NEW t, NEW j \in Jobs, job' = [job EXCEPT ![t] = j]
  PROVE  job' \in [Threads -> Jobs]
<1>1. job \in [Threads -> Jobs]
  BY DEF TypeOK
<1> QED
  BY <1>1

\* Steps that only move a thread, and those that finish with a match.
LEMMA StepNames ==
  \A s \in {"idle", "check", "start", "scan", "next", "announce", "record",
            "free", "erase", "unready"} : s \in Steps
BY DEF Steps

\* The steps that end a match keep the types, whoever takes them.
LEMMA EndStepType ==
  ASSUME TypeOK, NEW t \in Threads,
         Announce(t) \/ Record(t) \/ Free(t) \/ Erase(t) \/ Unready(t)
  PROVE  TypeOK'
<1> USE ConstantFacts
<1>j. /\ job[t] \in Jobs /\ job[t].m \in Matches
      /\ job[t].winner \in UserOrNobody /\ job[t].reason \in Reasons
  BY DEF TypeOK, Jobs
<1>1. CASE Announce(t)
  <2>1. [m |-> job[t].m, by |-> t, winner |-> job[t].winner,
         reason |-> job[t].reason] \in Verdicts
    BY <1>j DEF Verdicts
  <2>2. told' \in [Objects -> SUBSET Verdicts]
    BY <1>1, <2>1 DEF Announce, TypeOK
  <2>3. pc' \in [Threads -> Steps]
    BY <1>1, GotoType, StepNames DEF Announce
  <2> QED
    BY <1>1, <2>2, <2>3 DEF Announce, TypeOK, dbVars, mapVars, netVars, past
<1>2. CASE Record(t)
  <2>1. row \in [Matches -> Rows]
    BY DEF TypeOK
  <2>2. row' \in [Matches -> Rows]
    <3>1. CASE job[t].winner \in Users
      <4>1. [status |-> "completed", winner |-> job[t].winner] \in Rows
        BY <1>j DEF Rows
      <4> QED
        BY <1>2, <2>1, <3>1, <4>1 DEF Record
    <3>2. CASE job[t].winner \notin Users
      BY <1>2, <2>1, <3>2 DEF Record
    <3> QED
      BY <3>1, <3>2
  <2>3. pc' \in [Threads -> Steps]
    BY <1>2, GotoType, StepNames DEF Record
  <2> QED
    BY <1>2, <2>2, <2>3 DEF Record, TypeOK, mapVars, netVars, past
<1>3. CASE Free(t)
  <2>1. \A us : WithStatus(us, "AVAILABLE") \in [Users -> Statuses]
    BY DEF WithStatus, TypeOK, Statuses
  <2>2. status' \in [Users -> Statuses]
    BY <1>3, <2>1 DEF Free
  <2>3. pc' \in [Threads -> Steps] /\ job' \in [Threads -> Jobs]
    <3>1. CASE t \in Conns
      BY <1>3, <3>1, FinishType, StepNames DEF Free
    <3>2. CASE t \notin Conns
      <4>1. Goto(t, "erase") /\ UNCHANGED job
        BY <1>3, <3>2 DEF Free
      <4> QED
        BY <4>1, GotoType, StepNames DEF TypeOK
    <3> QED
      BY <3>1, <3>2
  <2> QED
    BY <1>3, <2>2, <2>3 DEF Free, TypeOK, dbVars, mapVars, netVars, past
<1>4. CASE Erase(t)
  <2>1. pc' \in [Threads -> Steps]
    BY <1>4, GotoType, StepNames DEF Erase
  <2>2. active' \in [Matches -> 0..MaxObj]
    BY <1>4 DEF Erase, TypeOK
  <2> QED
    BY <1>4, <2>1, <2>2 DEF Erase, TypeOK, dbVars, netVars, past
<1>5. CASE Unready(t)
  <2>1. pc' \in [Threads -> Steps] /\ job' \in [Threads -> Jobs]
    <3>1. CASE t \in Conns
      <4>1. Goto(t, "free") /\ UNCHANGED job
        BY <1>5, <3>1 DEF Unready
      <4> QED
        BY <4>1, GotoType, StepNames DEF TypeOK
    <3>2. CASE t \notin Conns
      BY <1>5, <3>2, FinishType, StepNames DEF Unready
    <3> QED
      BY <3>1, <3>2
  <2>2. ready' \in [Matches -> SUBSET Users]
    BY <1>5 DEF Unready, TypeOK
  <2> QED
    BY <1>5, <2>1, <2>2 DEF Unready, TypeOK, dbVars, netVars, past
<1> QED
  BY <1>1, <1>2, <1>3, <1>4, <1>5

\* The router takes a verdict about the object of an active match.
LEMMA RouterEndsType ==
  ASSUME TypeOK, NEW c \in Conns, NEW m \in Matches, NEW w \in UserOrNobody,
         NEW r \in Reasons, RouterEnds(c, m, w, r)
  PROVE  pc' \in [Threads -> Steps] /\ job' \in [Threads -> Jobs]
<1>1. active[m] \in 0..MaxObj
  BY DEF TypeOK
<1>2. [c |-> c, m |-> m, o |-> active[m], winner |-> w, reason |-> r] \in Jobs
  BY <1>1 DEF Jobs
<1>3. Goto("router", "announce")
  BY DEF RouterEnds
<1>4. job' = [job EXCEPT !["router"] =
        [c |-> c, m |-> m, o |-> active[m], winner |-> w, reason |-> r]]
  BY DEF RouterEnds
<1> QED
  BY <1>2, <1>3, <1>4, GotoType, StepNames, JobUpdateType

\* A match object may be replaced by any other one.
LEMMA HeapUpdateType ==
  ASSUME TypeOK, NEW o \in Objects, NEW r \in MatchStates,
         heap' = [heap EXCEPT ![o] = r]
  PROVE  heap' \in [Objects -> MatchStates]
<1>1. heap \in [Objects -> MatchStates]
  BY DEF TypeOK
<1> QED
  BY <1>1

\* A request reaches an object of the heap, and its sender is a user.
LEMMA RequestFacts ==
  ASSUME TypeOK, NEW c \in Conns, NEW m \in Matches, Request(c, m)
  PROVE  /\ active[m] \in Objects
         /\ heap[active[m]] \in MatchStates
         /\ user[c] \in Users
         /\ Other(m, user[c]) \in Players(m) /\ Other(m, user[c]) \in Users
         /\ pc["router"] = "idle"
<1>1. active[m] \in 0..MaxObj /\ heap \in [Objects -> MatchStates]
  BY DEF TypeOK
<1>2. active[m] \in Objects
  BY <1>1, ConstantsAssumption DEF Request, Objects, NoObj
<1>3. user[c] \in Users
  BY DEF Request, Online, TypeOK, UserOrNobody
<1>4. Other(m, user[c]) \in Players(m)
  BY DEF Players, Other
<1> QED
  BY <1>1, <1>2, <1>3, <1>4, ConstantFacts DEF Request

\* Every step keeps every variable within its type.
LEMMA StepType == TypeOK /\ RoomInv /\ [Next]_vars => TypeOK'
<1> SUFFICES ASSUME TypeOK, RoomInv, [Next]_vars PROVE TypeOK'
  OBVIOUS
<1> USE ConstantFacts
<1>1. ASSUME NEW c \in Conns, NEW u \in Users, Login(c, u) PROVE TypeOK'
  <2>1. user' \in [Conns -> UserOrNobody]
    BY <1>1 DEF Login, TypeOK
  <2>2. link' \in [Conns -> Links] /\ status' \in [Users -> Statuses]
    BY <1>1 DEF Login, TypeOK, Links, Statuses
  <2> QED
    BY <1>1, <2>1, <2>2 DEF Login, TypeOK, dbVars, mapVars, past
<1>1a. ASSUME NEW c \in Conns, Logout(c) PROVE TypeOK'
  <2>1. link' \in [Conns -> Links] /\ status' \in [Users -> Statuses]
    BY <1>1a DEF Logout, TypeOK, Links, Statuses
  <2> QED
    BY <1>1a, <2>1 DEF Logout, TypeOK, dbVars, mapVars, past
<1>2. ASSUME NEW c \in Conns, NEW m \in Matches, AcceptChallenge(c, m)
      PROVE  TypeOK'
  <2>1. row \in [Matches -> Rows]
    BY DEF TypeOK
  <2>2. row' \in [Matches -> Rows]
    BY <1>2, <2>1 DEF AcceptChallenge, Rows
  <2>3. status' \in [Users -> Statuses]
    BY <1>2 DEF AcceptChallenge, WithStatus, TypeOK, Statuses
  <2> QED
    BY <1>2, <2>2, <2>3 DEF AcceptChallenge, TypeOK, mapVars, netVars, past
<1>3. ASSUME NEW c \in Conns, NEW m \in Matches, ShipPlacement(c, m)
      PROVE  TypeOK'
  <2>1. [NoJob EXCEPT !.c = c, !.m = m] \in Jobs
    BY DEF Jobs
  <2>2. user[c] \in Users
    BY <1>3 DEF ShipPlacement
  <2>3. pc' \in [Threads -> Steps] /\ job' \in [Threads -> Jobs]
    BY <1>3, <2>1, GotoType, JobUpdateType, StepNames DEF ShipPlacement
  <2>4. placed' \in [Matches -> SUBSET Users] /\ ready' \in [Matches -> SUBSET Users]
    BY <1>3, <2>2 DEF ShipPlacement, TypeOK
  <2> QED
    BY <1>3, <2>3, <2>4 DEF ShipPlacement, TypeOK, netVars, past
<1>4. ASSUME NEW c \in Conns, NEW m \in Matches, MoveMiss(c, m) PROVE TypeOK'
  <2> DEFINE o == active[m]
             r == [heap[o] EXCEPT !.turn = Other(m, heap[o].turn), !.late = FALSE]
  <2>1. o \in Objects /\ heap[o] \in MatchStates
    BY <1>4, RequestFacts DEF MoveMiss
  <2>2. Other(m, heap[o].turn) \in UserOrNobody
    BY <2>1 DEF MatchStates
  <2>3. r \in MatchStates
    BY <2>1, <2>2 DEF MatchStates
  <2>4. heap' = [heap EXCEPT ![o] = r]
    BY <1>4 DEF MoveMiss
  <2>5. heap' \in [Objects -> MatchStates]
    BY <2>1, <2>3, <2>4, HeapUpdateType
  <2> QED
    BY <1>4, <2>5 DEF MoveMiss, TypeOK, dbVars, mapVars, netVars, past
<1>5. ASSUME NEW c \in Conns, NEW m \in Matches, MoveHit(c, m) PROVE TypeOK'
  <2> DEFINE o == active[m]
             target == Other(m, user[c])
             sunk == [heap[o] EXCEPT !.afloat[target] = 0, !.live = FALSE]
             hit == [heap[o] EXCEPT !.afloat[target] = @ - 1]
  <2>1. /\ o \in Objects /\ heap[o] \in MatchStates
        /\ target \in Users /\ user[c] \in UserOrNobody
    BY <1>5, RequestFacts DEF MoveHit
  <2>2. heap[o].afloat[target] \in 0..Fleet /\ heap[o].afloat[target] > 0
    BY <1>5, <2>1 DEF MoveHit, MatchStates
  <2>3. heap[o].afloat[target] - 1 \in 0..Fleet /\ 0 \in 0..Fleet
    BY <2>2, ConstantsAssumption
  <2>4. sunk \in MatchStates /\ hit \in MatchStates
    BY <2>1, <2>3 DEF MatchStates
  <2>5. heap' \in [Objects -> MatchStates]
    <3>1. heap' = [heap EXCEPT ![o] = sunk] \/ heap' = [heap EXCEPT ![o] = hit]
      BY <1>5 DEF MoveHit
    <3> QED
      BY <2>1, <2>4, <3>1, HeapUpdateType
  <2>6. pc' \in [Threads -> Steps] /\ job' \in [Threads -> Jobs]
    <3>1. RouterEnds(c, m, user[c], "normal") \/ UNCHANGED <<pc, job>>
      BY <1>5 DEF MoveHit
    <3>2. "normal" \in Reasons
      BY DEF Reasons
    <3> QED
      BY <2>1, <3>1, <3>2, RouterEndsType DEF TypeOK
  <2> QED
    BY <1>5, <2>5, <2>6 DEF MoveHit, TypeOK, dbVars, mapVars, netVars, past
<1>6. ASSUME NEW c \in Conns, NEW m \in Matches,
             Resign(c, m) \/ AcceptDraw(c, m)
      PROVE  TypeOK'
  <2>1. user[c] \in UserOrNobody
    BY <1>6 DEF TypeOK
  <2>2. \E w \in UserOrNobody, r \in Reasons : RouterEnds(c, m, w, r)
    BY <1>6, <2>1 DEF Resign, AcceptDraw, Reasons
  <2>3. pc' \in [Threads -> Steps] /\ job' \in [Threads -> Jobs]
    BY <2>2, RouterEndsType
  <2>4. resigned' \in [Matches -> SUBSET Users] /\ UNCHANGED overdue
    BY <1>6, RequestFacts DEF Resign, AcceptDraw, TypeOK, past
  <2> QED
    BY <1>6, <2>3, <2>4 DEF Resign, AcceptDraw, TypeOK, dbVars, mapVars, netVars
<1>7. CASE CheckReady
  <2>1. created' \in 0..MaxObj /\ active' \in [Matches -> 0..MaxObj]
        /\ pc' \in [Threads -> Steps] /\ job' \in [Threads -> Jobs]
    <3> DEFINE m == job["router"].m
    <3>1. CASE Players(m) \subseteq ready[m]
      <4>1. /\ created' = created + 1
            /\ active' = [active EXCEPT ![m] = created + 1]
            /\ Goto("router", "start") /\ UNCHANGED job
        BY <1>7, <3>1 DEF CheckReady
      <4>2. created + 1 \in 0..MaxObj
        BY <1>7, ConstantsAssumption DEF CheckReady, RoomInv, TypeOK
      <4>3. pc' \in [Threads -> Steps]
        BY <4>1, GotoType, StepNames
      <4> QED
        BY <4>1, <4>2, <4>3 DEF TypeOK
    <3>2. CASE ~(Players(m) \subseteq ready[m])
      <4>1. Finish("router", "idle") /\ UNCHANGED <<created, active>>
        BY <1>7, <3>2 DEF CheckReady
      <4> QED
        BY <4>1, FinishType, StepNames DEF TypeOK
    <3> QED
      BY <3>1, <3>2
  <2> QED
    BY <1>7, <2>1 DEF CheckReady, TypeOK, dbVars, netVars, past
<1>8. CASE StartMatch
  <2> DEFINE m == job["router"].m
             o == active[m]
  <2>1. m \in Matches /\ o \in 0..MaxObj
    BY DEF TypeOK, Jobs
  <2>2. \A u \in Players(m) :
          [Fresh EXCEPT !.live = TRUE, !.turn = u] \in MatchStates
    BY <2>1 DEF MatchStates
  <2>3. heap' \in [Objects -> MatchStates]
    <3>1. CASE o = NoObj
      BY <1>8, <3>1 DEF StartMatch, TypeOK
    <3>2. CASE o # NoObj
      <4>1. o \in Objects
        BY <2>1, <3>2, ConstantsAssumption DEF Objects, NoObj
      <4>2. PICK u \in Players(m) :
              heap' = [heap EXCEPT ![o] = [Fresh EXCEPT !.live = TRUE, !.turn = u]]
        BY <1>8, <3>2 DEF StartMatch
      <4> QED
        BY <2>2, <4>1, <4>2, HeapUpdateType
    <3> QED
      BY <3>1, <3>2
  <2>4. pc' \in [Threads -> Steps] /\ job' \in [Threads -> Jobs]
    BY <1>8, FinishType, StepNames DEF StartMatch
  <2> QED
    BY <1>8, <2>3, <2>4 DEF StartMatch, TypeOK, dbVars, mapVars, netVars, past
<1>9. ASSUME NEW o \in Objects, TurnExpires(o) PROVE TypeOK'
  <2>1. heap' = [heap EXCEPT ![o] = [heap[o] EXCEPT !.late = TRUE]]
    BY <1>9 DEF TurnExpires
  <2>2. heap[o] \in MatchStates
    BY DEF TypeOK
  <2>3. [heap[o] EXCEPT !.late = TRUE] \in MatchStates
    BY <2>2 DEF MatchStates
  <2>4. heap' \in [Objects -> MatchStates]
    BY <2>1, <2>3, HeapUpdateType
  <2>5. overdue' \in SUBSET Matches
    BY <1>9 DEF TurnExpires, TypeOK
  <2> QED
    BY <1>9, <2>4, <2>5 DEF TurnExpires, TypeOK, dbVars, mapVars, netVars
<1>10. CASE TimerScan
  <2>1. pc' \in [Threads -> Steps]
    BY <1>10, GotoType, StepNames DEF TimerScan
  <2>2. todo' \in [Threads -> SUBSET Matches]
    BY <1>10 DEF TimerScan, TypeOK
  <2> QED
    BY <1>10, <2>1, <2>2 DEF TimerScan, TypeOK, dbVars, mapVars, netVars, past
<1>11. CASE TimerNext
  <2> PICK m \in todo["timer"] :
        /\ todo' = [todo EXCEPT !["timer"] = @ \ {m}]
        /\ IF active[m] = NoObj
            THEN /\ Goto("timer", IF todo'["timer"] = {} THEN "idle" ELSE "next")
                 /\ UNCHANGED job
            ELSE /\ Goto("timer", "announce")
                 /\ job' = [job EXCEPT !["timer"] =
                      [c |-> Nobody, m |-> m, o |-> active[m],
                       winner |-> Other(m, heap[active[m]].turn),
                       reason |-> "timeout"]]
    BY <1>11 DEF TimerNext
  <2>1. m \in Matches /\ active[m] \in 0..MaxObj
    BY DEF TypeOK
  <2>2. todo' \in [Threads -> SUBSET Matches]
    BY DEF TypeOK
  <2>3. pc' \in [Threads -> Steps] /\ job' \in [Threads -> Jobs]
    <3>1. CASE active[m] = NoObj
      BY <3>1, GotoType, StepNames DEF TypeOK
    <3>2. CASE active[m] # NoObj
      <4>1. heap[active[m]] \in MatchStates
        BY <2>1, <3>2, ConstantsAssumption DEF TypeOK, Objects, NoObj
      <4>2. Other(m, heap[active[m]].turn) \in UserOrNobody
        BY <2>1, <4>1 DEF MatchStates
      <4>3. [c |-> Nobody, m |-> m, o |-> active[m],
             winner |-> Other(m, heap[active[m]].turn), reason |-> "timeout"]
               \in Jobs
        BY <2>1, <4>2 DEF Jobs, Reasons
      <4> QED
        BY <3>2, <4>3, GotoType, StepNames, JobUpdateType
    <3> QED
      BY <3>1, <3>2
  <2> QED
    BY <1>11, <2>2, <2>3 DEF TimerNext, TypeOK, dbVars, mapVars, netVars, past
<1>12. ASSUME NEW c \in Conns, Disconnect(c) \/ CleanupScan(c) PROVE TypeOK'
  <2>1. pc' \in [Threads -> Steps]
    BY <1>12, GotoType, StepNames DEF Disconnect, CleanupScan
  <2>2. link' \in [Conns -> Links]
    BY <1>12 DEF Disconnect, CleanupScan, TypeOK, Links, netVars
  <2> QED
    BY <1>12, <2>1, <2>2
       DEF Disconnect, CleanupScan, TypeOK, dbVars, mapVars, netVars, past
<1>13. ASSUME NEW c \in Conns, CleanupNext(c) PROVE TypeOK'
  <2> PICK m \in todo[c] :
        /\ todo' = [todo EXCEPT ![c] = @ \ {m}]
        /\ IF active[m] = NoObj
            THEN UNCHANGED <<pc, job>>
            ELSE /\ Goto(c, "record")
                 /\ job' = [job EXCEPT ![c] =
                      [c |-> Nobody, m |-> m, o |-> active[m],
                       winner |-> Other(m, user[c]), reason |-> "disconnect"]]
    BY <1>13 DEF CleanupNext
  <2>1. /\ m \in Matches /\ active[m] \in 0..MaxObj
        /\ Other(m, user[c]) \in UserOrNobody
    BY DEF TypeOK
  <2>2. [c |-> Nobody, m |-> m, o |-> active[m],
         winner |-> Other(m, user[c]), reason |-> "disconnect"] \in Jobs
    BY <2>1 DEF Jobs, Reasons
  <2>3. todo' \in [Threads -> SUBSET Matches]
    BY DEF TypeOK
  <2>4. pc' \in [Threads -> Steps] /\ job' \in [Threads -> Jobs]
    BY <2>2, GotoType, StepNames, JobUpdateType DEF TypeOK
  <2> QED
    BY <1>13, <2>3, <2>4 DEF CleanupNext, TypeOK, dbVars, mapVars, netVars, past
<1>14. ASSUME NEW c \in Conns, RemovePlayer(c) PROVE TypeOK'
  <2>1. pc' \in [Threads -> Steps]
    BY <1>14, GotoType, StepNames DEF RemovePlayer
  <2>2. status' \in [Users -> Statuses] /\ link' \in [Conns -> Links]
    BY <1>14 DEF RemovePlayer, TypeOK, Statuses, Links
  <2> QED
    BY <1>14, <2>1, <2>2 DEF RemovePlayer, TypeOK, dbVars, mapVars, past
<1>15. CASE UNCHANGED vars
  BY <1>15 DEF TypeOK, vars, dbVars, mapVars, netVars, past
<1> QED
  BY <1>1, <1>1a, <1>2, <1>3, <1>4, <1>5, <1>6, <1>7, <1>8, <1>9, <1>10, <1>11,
     <1>12, <1>13, <1>14, <1>15, EndStepType, NextCases

-----------------------------------------------------------------------------
(* The steps around an end: who moves, and what stays.                     *)

\* A step of thread t leaves the counter and the locals of the others alone.
OnlyMoves(t) ==
  \A u \in Threads \ {t} : pc'[u] = pc[u] /\ job'[u] = job[u]

LEMMA GotoMoves ==
  ASSUME TypeOK, NEW t \in Threads, NEW s, Goto(t, s)
  PROVE  pc'[t] = s /\ \A u \in Threads \ {t} : pc'[u] = pc[u]
<1>1. pc \in [Threads -> Steps]
  BY DEF TypeOK
<1> QED
  BY <1>1 DEF Goto

LEMMA FinishMoves ==
  ASSUME TypeOK, NEW t \in Threads, NEW s, Finish(t, s)
  PROVE  pc'[t] = s /\ OnlyMoves(t)
<1>1. job \in [Threads -> Jobs]
  BY DEF TypeOK
<1>2. Goto(t, s) /\ job' = [job EXCEPT ![t] = NoJob]
  BY DEF Finish
<1> QED
  BY <1>1, <1>2, GotoMoves DEF OnlyMoves

LEMMA TakeMoves ==
  ASSUME TypeOK, NEW t \in Threads, NEW s, NEW j,
         Goto(t, s), job' = [job EXCEPT ![t] = j]
  PROVE  pc'[t] = s /\ job'[t] = j /\ OnlyMoves(t)
<1>1. job \in [Threads -> Jobs]
  BY DEF TypeOK
<1> QED
  BY <1>1, GotoMoves DEF OnlyMoves

LEMMA WalkMoves ==
  ASSUME TypeOK, NEW t \in Threads, NEW s, Goto(t, s), UNCHANGED job
  PROVE  pc'[t] = s /\ job'[t] = job[t] /\ OnlyMoves(t)
BY GotoMoves DEF OnlyMoves

\* The router, the timer and the connections are different threads.
LEMMA ThreadFacts ==
  /\ "router" \notin Conns /\ "timer" \notin Conns
  /\ "router" \in Threads /\ "timer" \in Threads /\ Conns \subseteq Threads
BY ConstantsAssumption DEF Threads

\* Who announced a verdict is a thread.
LEMMA ToldFacts ==
  ASSUME TypeOK, NEW o \in Objects, NEW v \in told[o]
  PROVE  v.by \in Threads
<1>1. v \in Verdicts
  BY DEF TypeOK
<1> QED
  BY <1>1 DEF Verdicts

\* A thread that is not ending a match moves on without starting to end one.
LEMMA QuietStep ==
  ASSUME EndInv, NEW t \in Threads, OnlyMoves(t),
         UNCHANGED <<active, created, told>>,
         ~Before(t), ~After(t), ~Before(t)', ~After(t)'
  PROVE  ObjectsInv' /\ JobsInv' /\ ToldInv'
<1>1. ObjectsInv'
  BY DEF EndInv, ObjectsInv
<1>2. \A u \in Threads \ {t} : /\ Before(u)' <=> Before(u)
                              /\ After(u)' <=> After(u)
                              /\ job'[u] = job[u]
  BY DEF OnlyMoves, Before, After
<1>3. JobsInv'
  BY <1>2 DEF EndInv, JobsInv, OnlyMoves, Before, After
<1>4. ToldInv'
  BY <1>2, ToldFacts DEF EndInv, ToldInv, OnlyMoves, Before, After
<1> QED
  BY <1>1, <1>3, <1>4

\* A thread takes up the end of an active match.
LEMMA TakeStep ==
  ASSUME EndInv, NEW t \in Threads, NEW m \in Matches, OnlyMoves(t),
         UNCHANGED <<active, created, told>>, active[m] # NoObj,
         job'[t].o = active[m], job'[t].m = m,
         ~Before(t), ~After(t), ~After(t)'
  PROVE  ObjectsInv' /\ JobsInv' /\ ToldInv'
<1>0. active[m] \in Objects /\ active[m] \in 1..created
  BY ConstantsAssumption DEF EndInv, TypeOK, ObjectsInv, Objects, NoObj
<1>1. ObjectsInv'
  BY DEF EndInv, ObjectsInv
<1>2. \A u \in Threads \ {t} : /\ Before(u)' <=> Before(u)
                              /\ After(u)' <=> After(u)
                              /\ job'[u] = job[u]
  BY DEF OnlyMoves, Before, After
<1>3. JobsInv'
  BY <1>0, <1>2 DEF EndInv, JobsInv, ObjectsInv, OnlyMoves, Before, After
<1>4. \A v \in told[active[m]] : v.by # t
  BY <1>0 DEF EndInv, ToldInv
<1>5. ToldInv'
  BY <1>2, <1>4, ToldFacts DEF EndInv, ToldInv, OnlyMoves, Before, After
<1> QED
  BY <1>1, <1>3, <1>5

\* A cleanup that has written the row is about to announce the end.
LEMMA BeforeStep ==
  ASSUME EndInv, NEW t \in Threads, OnlyMoves(t),
         UNCHANGED <<active, created, told>>,
         job'[t] = job[t], Before(t), ~After(t), Before(t)', ~After(t)'
  PROVE  ObjectsInv' /\ JobsInv' /\ ToldInv'
<1>1. ObjectsInv'
  BY DEF EndInv, ObjectsInv
<1>2. \A u \in Threads : /\ Before(u)' <=> Before(u)
                        /\ After(u)' <=> After(u)
                        /\ job'[u] = job[u]
  BY DEF OnlyMoves, Before, After
<1>3. JobsInv'
  BY <1>2 DEF EndInv, JobsInv, OnlyMoves, Before, After
<1>4. ToldInv'
  BY <1>2, ToldFacts DEF EndInv, ToldInv, OnlyMoves, Before, After
<1> QED
  BY <1>1, <1>3, <1>4

\* A thread that has announced the end moves on, still with the object.
LEMMA AfterStep ==
  ASSUME EndInv, NEW t \in Threads, OnlyMoves(t),
         UNCHANGED <<active, created, told>>,
         job'[t] = job[t], ~Before(t), After(t), ~Before(t)', After(t)'
  PROVE  ObjectsInv' /\ JobsInv' /\ ToldInv'
<1>1. ObjectsInv'
  BY DEF EndInv, ObjectsInv
<1>2. \A u \in Threads : /\ Before(u)' <=> Before(u)
                        /\ After(u)' <=> After(u)
                        /\ job'[u] = job[u]
  BY DEF OnlyMoves, Before, After
<1>3. JobsInv'
  BY <1>2 DEF EndInv, JobsInv, OnlyMoves, Before, After
<1>4. ToldInv'
  BY <1>2, ToldFacts DEF EndInv, ToldInv, OnlyMoves, Before, After
<1> QED
  BY <1>1, <1>3, <1>4

\* The object of a thread that ends a match exists.
LEMMA BusyObject ==
  ASSUME EndInv, NEW t \in Threads, Before(t) \/ After(t)
  PROVE  job[t].o \in 1..created /\ job[t].o \in Objects
<1>1. job[t].o \in 1..created
  BY DEF EndInv, JobsInv
<1>2. created \in 0..MaxObj
  BY DEF EndInv, TypeOK
<1> QED
  BY <1>1, <1>2, ConstantsAssumption DEF Objects

LEMMA AnnounceStep ==
  ASSUME EndInv, NEW t \in Threads, Announce(t)
  PROVE  ObjectsInv' /\ JobsInv' /\ ToldInv'
<1> DEFINE o == job[t].o
           v == [m |-> job[t].m, by |-> t,
                 winner |-> job[t].winner, reason |-> job[t].reason]
<1>0. TypeOK
  BY DEF EndInv
<1>1. Before(t) /\ ~After(t)
  BY <1>0, ThreadFacts DEF Announce, Before, After
<1>2. o \in 1..created /\ o \in Objects
  BY <1>1, BusyObject
<1>3. /\ told'[o] = told[o] \cup {v}
      /\ \A p \in Objects \ {o} : told'[p] = told[p]
  <2>1. told \in [Objects -> SUBSET Verdicts]
    BY <1>0 DEF TypeOK
  <2>2. told' = [told EXCEPT ![o] = @ \cup {v}]
    BY DEF Announce
  <2> QED
    BY <1>2, <2>1, <2>2
<1>4. /\ pc'[t] = (IF t \in Conns THEN "erase" ELSE "record")
      /\ OnlyMoves(t) /\ job' = job /\ active' = active /\ created' = created
  BY <1>0, WalkMoves DEF Announce, mapVars
<1>5. /\ After(t)' /\ ~Before(t)'
      /\ \A u \in Threads \ {t} : (Before(u)' <=> Before(u)) /\ (After(u)' <=> After(u))
  BY <1>4 DEF OnlyMoves, Before, After
<1>6. ObjectsInv'
  <2>1. created \in Nat /\ ~(o > created)
    BY <1>0, <1>2, ConstantsAssumption DEF TypeOK
  <2>2. \A p \in Objects : p > created => told'[p] = told[p]
    BY <1>3, <2>1
  <2> QED
    BY <1>4, <2>2 DEF EndInv, ObjectsInv
<1>7. JobsInv'
  BY <1>1, <1>4, <1>5 DEF EndInv, JobsInv, OnlyMoves, Before, After
<1>8. \A p \in Objects : \A w \in told'[p] :
        w \in told[p] \/ (p = o /\ w = v)
  BY <1>3
<1>9. ToldInv'
  <2>1. ASSUME NEW p \in Objects, NEW w \in told'[p], \E m \in Matches : active[m] = p
        PROVE  After(w.by)' /\ job[w.by].o = p
    <3>1. CASE w \in told[p]
      <4>1. After(w.by) /\ job[w.by].o = p /\ w.by \in Threads
        BY <1>0, <2>1, <3>1, ToldFacts DEF EndInv, ToldInv
      <4> QED
        BY <1>1, <1>5, <4>1
    <3>2. CASE p = o /\ w = v
      BY <1>5, <3>2
    <3> QED
      BY <1>8, <2>1, <3>1, <3>2
  <2>2. ASSUME NEW u \in Threads, Before(u)', NEW w \in told'[job[u].o]
        PROVE  w.by # u
    <3>1. u # t /\ Before(u)
      BY <1>5, <2>2
    <3>2. job[u].o \in Objects
      BY <3>1, BusyObject
    <3>3. CASE w \in told[job[u].o]
      BY <3>1, <3>3 DEF EndInv, ToldInv
    <3>4. CASE w = v
      BY <3>1, <3>4
    <3> QED
      BY <1>8, <2>2, <3>2, <3>3, <3>4
  <2> QED
    BY <1>4, <2>1, <2>2 DEF ToldInv, OnlyMoves, Before, After
<1> QED
  BY <1>6, <1>7, <1>9

LEMMA EraseStep ==
  ASSUME EndInv, NEW t \in Threads, Erase(t)
  PROVE  ObjectsInv' /\ JobsInv' /\ ToldInv'
<1> DEFINE m == job[t].m
           o == job[t].o
<1>0. TypeOK
  BY DEF EndInv
<1>1. After(t) /\ ~Before(t)
  BY DEF Erase, Before, After
<1>2. /\ active'[m] = NoObj
      /\ \A n \in Matches \ {m} : active'[n] = active[n]
  <2>1. active \in [Matches -> 0..MaxObj] /\ m \in Matches
    BY <1>0 DEF TypeOK, Jobs
  <2>2. active' = [active EXCEPT ![m] = NoObj]
    BY DEF Erase
  <2> QED
    BY <2>1, <2>2
<1>3. /\ pc'[t] = "unready" /\ OnlyMoves(t) /\ job'[t] = job[t]
      /\ UNCHANGED <<created, told>>
  BY <1>0, WalkMoves DEF Erase
<1>4. created \in Nat
  BY <1>0, ConstantsAssumption DEF TypeOK
<1>5. ObjectsInv'
  BY <1>2, <1>3, <1>4 DEF EndInv, ObjectsInv, NoObj
<1>6. \A n \in Matches, p \in Objects : active'[n] = p => active[n] = p
  BY <1>2, ConstantsAssumption DEF NoObj, Objects
<1>7. JobsInv'
  <2> SUFFICES ASSUME NEW u \in Threads, Before(u)' \/ After(u)'
               PROVE  /\ job'[u].o \in 1..created'
                      /\ \A n \in Matches : active'[n] = job'[u].o => n = job'[u].m
    BY DEF JobsInv
  <2>1. u # t
    BY <1>3 DEF Before, After
  <2>2. (Before(u) \/ After(u)) /\ job'[u] = job[u]
    BY <1>3, <2>1 DEF Before, After, OnlyMoves
  <2>3. job[u].o \in 1..created /\ job[u].o \in Objects
    BY <2>2, BusyObject
  <2>4. \A n \in Matches : active[n] = job[u].o => n = job[u].m
    BY <2>2 DEF EndInv, JobsInv
  <2> QED
    BY <1>3, <1>6, <2>2, <2>3, <2>4
<1>8. ToldInv'
  <2>1. ASSUME NEW p \in Objects, NEW w \in told[p],
               NEW n \in Matches, active'[n] = p
        PROVE  After(w.by)' /\ job'[w.by].o = p
    <3>1. active[n] = p /\ n # m
      BY <1>2, <1>6, <2>1, ConstantsAssumption DEF NoObj, Objects
    <3>2. After(w.by) /\ job[w.by].o = p /\ w.by \in Threads
      BY <1>0, <3>1, ToldFacts DEF EndInv, ToldInv
    <3>3. w.by # t
      BY <1>1, <3>1, <3>2 DEF EndInv, JobsInv
    <3> QED
      BY <1>3, <3>2, <3>3 DEF OnlyMoves, After
  <2>2. ASSUME NEW u \in Threads, Before(u)', NEW w \in told[job'[u].o]
        PROVE  w.by # u
    <3>1. u # t
      BY <1>3, <2>2 DEF Before
    <3>2. Before(u) /\ job'[u] = job[u]
      BY <1>3, <2>2, <3>1 DEF Before, OnlyMoves
    <3> QED
      BY <2>2, <3>2 DEF EndInv, ToldInv
  <2> QED
    BY <1>3, <2>1, <2>2 DEF ToldInv
<1> QED
  BY <1>5, <1>7, <1>8

LEMMA CreateStep ==
  ASSUME EndInv, CheckReady
  PROVE  ObjectsInv' /\ JobsInv' /\ ToldInv'
<1> DEFINE m == job["router"].m
<1> USE ThreadFacts
<1>0. TypeOK /\ m \in Matches
  BY DEF EndInv, TypeOK, Jobs
<1>1. ~Before("router") /\ ~After("router") /\ told' = told
  BY DEF CheckReady, Before, After
<1>2. CASE ~(Players(m) \subseteq ready[m])
  <2>1. Finish("router", "idle") /\ UNCHANGED <<created, active>>
    BY <1>2 DEF CheckReady
  <2>2. pc'["router"] = "idle" /\ OnlyMoves("router")
    BY <1>0, <2>1, FinishMoves
  <2>3. ~Before("router")' /\ ~After("router")'
    BY <2>2 DEF Before, After
  <2> QED
    BY <1>1, <2>1, <2>2, <2>3, QuietStep
<1>3. CASE Players(m) \subseteq ready[m]
  <2>1. /\ created' = created + 1
        /\ active' = [active EXCEPT ![m] = created + 1]
        /\ Goto("router", "start") /\ UNCHANGED job
    BY <1>3 DEF CheckReady
  <2>2. pc'["router"] = "start" /\ OnlyMoves("router")
    BY <1>0, <2>1, WalkMoves
  <2>3. created \in Nat /\ active \in [Matches -> 0..MaxObj]
    BY <1>0, ConstantsAssumption DEF TypeOK
  <2>4. /\ active'[m] = created + 1
        /\ \A n \in Matches \ {m} : active'[n] = active[n]
    BY <1>0, <2>1, <2>3
  <2>5. \A n \in Matches : active[n] <= created
    BY DEF EndInv, ObjectsInv
  <2>6. ObjectsInv'
    <3>1. \A k, n \in Matches : active'[k] = active'[n] /\ active'[k] # NoObj => k = n
      BY <2>3, <2>4, <2>5 DEF EndInv, ObjectsInv
    <3>2. \A n \in Matches : active'[n] <= created'
      BY <2>1, <2>3, <2>4, <2>5
    <3>3. \A p \in Objects : p > created' => told'[p] = {}
      BY <1>1, <2>1, <2>3, ConstantsAssumption DEF EndInv, ObjectsInv, Objects
    <3> QED
      BY <3>1, <3>2, <3>3 DEF ObjectsInv
  <2>7. JobsInv'
    <3> SUFFICES ASSUME NEW u \in Threads, Before(u)' \/ After(u)'
                 PROVE  /\ job'[u].o \in 1..created'
                        /\ \A n \in Matches : active'[n] = job'[u].o => n = job'[u].m
      BY DEF JobsInv
    <3>1. u # "router"
      BY <2>2 DEF Before, After
    <3>2. (Before(u) \/ After(u)) /\ job'[u] = job[u]
      BY <2>2, <3>1 DEF Before, After, OnlyMoves
    <3>3. job[u].o \in 1..created
      BY <3>2, BusyObject
    <3>4. \A n \in Matches : active[n] = job[u].o => n = job[u].m
      BY <3>2 DEF EndInv, JobsInv
    <3> QED
      BY <2>1, <2>3, <2>4, <3>2, <3>3, <3>4
  <2>8. ToldInv'
    <3>1. ASSUME NEW p \in Objects, NEW w \in told[p],
                 NEW n \in Matches, active'[n] = p
          PROVE  After(w.by)' /\ job'[w.by].o = p
      <4>1. p \in Nat /\ p <= created
        <5>1. ~(p > created) /\ p \in Nat
          BY <3>1, ConstantsAssumption DEF EndInv, ObjectsInv, Objects
        <5> QED
          BY <2>3, <5>1
      <4>2. active[n] = p
        BY <2>3, <2>4, <3>1, <4>1 DEF Objects
      <4>3. After(w.by) /\ job[w.by].o = p /\ w.by \in Threads
        BY <1>0, <4>2, ToldFacts DEF EndInv, ToldInv
      <4>4. w.by # "router"
        BY <1>1, <4>3
      <4> QED
        BY <2>2, <4>3, <4>4 DEF OnlyMoves, After
    <3>2. ASSUME NEW u \in Threads, Before(u)', NEW w \in told[job'[u].o]
          PROVE  w.by # u
      <4>1. Before(u) /\ job'[u] = job[u]
        BY <2>2, <3>2 DEF Before, OnlyMoves
      <4> QED
        BY <3>2, <4>1 DEF EndInv, ToldInv
    <3> QED
      BY <1>1, <3>1, <3>2 DEF ToldInv
  <2> QED
    BY <2>6, <2>7, <2>8
<1> QED
  BY <1>2, <1>3

\* Nothing an end depends on changes.
LEMMA IdleStep ==
  ASSUME EndInv, UNCHANGED <<active, created, told, pc, job>>
  PROVE  ObjectsInv' /\ JobsInv' /\ ToldInv'
BY DEF EndInv, ObjectsInv, JobsInv, ToldInv, Before, After

\* Every step keeps the part of the invariant that is about ends.
LEMMA StepEnd == EndInv /\ [Next]_vars => ObjectsInv' /\ JobsInv' /\ ToldInv'
<1> SUFFICES ASSUME EndInv, [Next]_vars PROVE ObjectsInv' /\ JobsInv' /\ ToldInv'
  OBVIOUS
<1> DEFINE Goal == ObjectsInv' /\ JobsInv' /\ ToldInv'
<1> USE ThreadFacts
<1>0. TypeOK
  BY DEF EndInv
<1>1. ASSUME NEW c \in Conns, NEW u \in Users, Login(c, u) PROVE Goal
  BY <1>1, IdleStep DEF Login, mapVars
<1>1a. ASSUME NEW c \in Conns, Logout(c) PROVE Goal
  BY <1>1a, IdleStep DEF Logout, mapVars
<1>2. ASSUME NEW c \in Conns, NEW m \in Matches,
             AcceptChallenge(c, m) \/ MoveMiss(c, m)
      PROVE  Goal
  BY <1>2, IdleStep DEF AcceptChallenge, MoveMiss, mapVars
<1>3. ASSUME NEW c \in Conns, NEW m \in Matches, ShipPlacement(c, m) PROVE Goal
  <2>1. pc["router"] = "idle" /\ UNCHANGED <<active, created, told>>
    BY <1>3 DEF ShipPlacement
  <2>2. pc'["router"] = "check" /\ OnlyMoves("router")
    BY <1>0, <1>3, TakeMoves DEF ShipPlacement
  <2> QED
    BY <2>1, <2>2, QuietStep DEF Before, After
<1>4. ASSUME NEW c \in Conns, NEW m \in Matches, NEW w, NEW r,
             Request(c, m), RouterEnds(c, m, w, r),
             UNCHANGED <<active, created, told>>
      PROVE  Goal
  <2> DEFINE j == [c |-> c, m |-> m, o |-> active[m], winner |-> w, reason |-> r]
  <2>1. pc["router"] = "idle" /\ active[m] # NoObj
    BY <1>4 DEF Request
  <2>2. pc'["router"] = "announce" /\ job'["router"] = j /\ OnlyMoves("router")
    BY <1>0, <1>4, TakeMoves DEF RouterEnds
  <2> QED
    BY <1>4, <2>1, <2>2, TakeStep DEF Before, After
<1>5. ASSUME NEW c \in Conns, NEW m \in Matches, MoveHit(c, m) PROVE Goal
  <2>1. Request(c, m) /\ UNCHANGED <<active, created, told>>
    BY <1>5 DEF MoveHit, mapVars
  <2>2. RouterEnds(c, m, user[c], "normal") \/ UNCHANGED <<pc, job>>
    BY <1>5 DEF MoveHit
  <2> QED
    BY <1>4, <2>1, <2>2, IdleStep
<1>6. ASSUME NEW c \in Conns, NEW m \in Matches,
             Resign(c, m) \/ AcceptDraw(c, m)
      PROVE  Goal
  BY <1>4, <1>6 DEF Resign, AcceptDraw, mapVars
<1>7. CASE StartMatch
  <2>1. pc["router"] = "start" /\ UNCHANGED <<active, created, told>>
    BY <1>7 DEF StartMatch, mapVars
  <2>2. pc'["router"] = "idle" /\ OnlyMoves("router")
    BY <1>0, <1>7, FinishMoves DEF StartMatch
  <2> QED
    BY <2>1, <2>2, QuietStep DEF Before, After
<1>8. ASSUME NEW o \in Objects, TurnExpires(o) PROVE Goal
  BY <1>8, IdleStep DEF TurnExpires, mapVars
<1>9. CASE TimerScan
  <2>1. pc["timer"] = "idle" /\ UNCHANGED <<active, created, told>>
    BY <1>9 DEF TimerScan, mapVars
  <2>2. pc'["timer"] = "next" /\ OnlyMoves("timer")
    BY <1>0, <1>9, WalkMoves DEF TimerScan
  <2> QED
    BY <2>1, <2>2, QuietStep DEF Before, After
<1>10. CASE TimerNext
  <2> PICK m \in todo["timer"] :
        IF active[m] = NoObj
          THEN /\ Goto("timer", IF todo'["timer"] = {} THEN "idle" ELSE "next")
               /\ UNCHANGED job
          ELSE /\ Goto("timer", "announce")
               /\ job' = [job EXCEPT !["timer"] =
                    [c |-> Nobody, m |-> m, o |-> active[m],
                     winner |-> Other(m, heap[active[m]].turn),
                     reason |-> "timeout"]]
    BY <1>10 DEF TimerNext
  <2>1. m \in Matches
    BY <1>0 DEF TypeOK
  <2>2. pc["timer"] = "next" /\ UNCHANGED <<active, created, told>>
    BY <1>10 DEF TimerNext, mapVars
  <2>3. CASE active[m] = NoObj
    <3>1. pc'["timer"] \in {"idle", "next"} /\ OnlyMoves("timer")
      BY <1>0, <2>3, WalkMoves
    <3> QED
      BY <2>2, <3>1, QuietStep DEF Before, After
  <2>4. CASE active[m] # NoObj
    <3> DEFINE j == [c |-> Nobody, m |-> m, o |-> active[m],
                     winner |-> Other(m, heap[active[m]].turn),
                     reason |-> "timeout"]
    <3>1. pc'["timer"] = "announce" /\ job'["timer"] = j /\ OnlyMoves("timer")
      BY <1>0, <2>4, TakeMoves
    <3> QED
      BY <2>1, <2>2, <2>4, <3>1, TakeStep DEF Before, After
  <2> QED
    BY <2>3, <2>4
<1>11. ASSUME NEW c \in Conns, Disconnect(c) PROVE Goal
  <2>1. pc[c] = "idle" /\ UNCHANGED <<active, created, told>>
    BY <1>11 DEF Disconnect, EndInv, LinkInv, mapVars
  <2>2. pc'[c] = "scan" /\ OnlyMoves(c)
    BY <1>0, <1>11, WalkMoves DEF Disconnect
  <2> QED
    BY <2>1, <2>2, QuietStep DEF Before, After
<1>12. ASSUME NEW c \in Conns, CleanupScan(c) PROVE Goal
  <2>1. pc[c] = "scan" /\ UNCHANGED <<active, created, told>>
    BY <1>12 DEF CleanupScan, mapVars
  <2>2. pc'[c] = "next" /\ OnlyMoves(c)
    BY <1>0, <1>12, WalkMoves DEF CleanupScan
  <2> QED
    BY <2>1, <2>2, QuietStep DEF Before, After
<1>13. ASSUME NEW c \in Conns, CleanupNext(c) PROVE Goal
  <2> PICK m \in todo[c] :
        IF active[m] = NoObj
          THEN UNCHANGED <<pc, job>>
          ELSE /\ Goto(c, "record")
               /\ job' = [job EXCEPT ![c] =
                    [c |-> Nobody, m |-> m, o |-> active[m],
                     winner |-> Other(m, user[c]), reason |-> "disconnect"]]
    BY <1>13 DEF CleanupNext
  <2>1. m \in Matches
    BY <1>0 DEF TypeOK
  <2>2. pc[c] = "next" /\ UNCHANGED <<active, created, told>>
    BY <1>13 DEF CleanupNext, mapVars
  <2>3. CASE active[m] = NoObj
    BY <2>2, <2>3, IdleStep
  <2>4. CASE active[m] # NoObj
    <3> DEFINE j == [c |-> Nobody, m |-> m, o |-> active[m],
                     winner |-> Other(m, user[c]), reason |-> "disconnect"]
    <3>1. pc'[c] = "record" /\ job'[c] = j /\ OnlyMoves(c)
      BY <1>0, <2>4, TakeMoves
    <3> QED
      BY <2>1, <2>2, <2>4, <3>1, TakeStep DEF Before, After
  <2> QED
    BY <2>3, <2>4
<1>14. ASSUME NEW c \in Conns, RemovePlayer(c) PROVE Goal
  <2>1. pc[c] = "next" /\ UNCHANGED <<active, created, told>>
    BY <1>14 DEF RemovePlayer, mapVars
  <2>2. pc'[c] = "idle" /\ OnlyMoves(c)
    BY <1>0, <1>14, WalkMoves DEF RemovePlayer
  <2> QED
    BY <2>1, <2>2, QuietStep DEF Before, After
<1>15. ASSUME NEW t \in Threads, Record(t) PROVE Goal
  <2>1. pc[t] = "record" /\ UNCHANGED <<active, created, told>>
    BY <1>15 DEF Record, mapVars
  <2>2. /\ pc'[t] = (IF t \in Conns THEN "announce" ELSE "free")
        /\ OnlyMoves(t) /\ job'[t] = job[t]
    BY <1>0, <1>15, WalkMoves DEF Record
  <2>3. CASE t \in Conns
    BY <2>1, <2>2, <2>3, BeforeStep DEF Before, After
  <2>4. CASE t \notin Conns
    BY <2>1, <2>2, <2>4, AfterStep DEF Before, After
  <2> QED
    BY <2>3, <2>4
<1>16. ASSUME NEW t \in Threads, Free(t) PROVE Goal
  <2>1. pc[t] = "free" /\ UNCHANGED <<active, created, told>>
    BY <1>16 DEF Free, mapVars
  <2>2. CASE t \in Conns
    <3>1. pc'[t] = "next" /\ OnlyMoves(t)
      BY <1>0, <1>16, <2>2, FinishMoves DEF Free
    <3> QED
      BY <2>1, <2>2, <3>1, QuietStep DEF Before, After
  <2>3. CASE t \notin Conns
    <3>1. pc'[t] = "erase" /\ OnlyMoves(t) /\ job'[t] = job[t]
      BY <1>0, <1>16, <2>3, WalkMoves DEF Free
    <3> QED
      BY <2>1, <2>3, <3>1, AfterStep DEF Before, After
  <2> QED
    BY <2>2, <2>3
<1>17. ASSUME NEW t \in Threads, Unready(t) PROVE Goal
  <2>1. pc[t] = "unready" /\ UNCHANGED <<active, created, told>>
    BY <1>17 DEF Unready
  <2>2. CASE t \in Conns
    <3>1. pc'[t] = "free" /\ OnlyMoves(t)
      BY <1>0, <1>17, <2>2, WalkMoves DEF Unready
    <3> QED
      BY <2>1, <2>2, <3>1, QuietStep DEF Before, After
  <2>3. CASE t \notin Conns
    <3>1. pc'[t] \in {"idle", "next"} /\ OnlyMoves(t)
      BY <1>0, <1>17, <2>3, FinishMoves DEF Unready
    <3> QED
      BY <2>1, <2>3, <3>1, QuietStep DEF Before, After
  <2> QED
    BY <2>2, <2>3
<1>18. CASE UNCHANGED vars
  BY <1>18, IdleStep DEF vars, mapVars
<1> QED
  BY <1>1, <1>1a, <1>2, <1>3, <1>5, <1>6, <1>7, <1>8, <1>9, <1>10, <1>11, <1>12,
     <1>13, <1>14, <1>15, <1>16, <1>17, <1>18, AnnounceStep, EraseStep, CreateStep,
     NextCases

\* Room for one more object when the router looks at ready_players_.
LEMMA StepRoom == EndInv /\ [Next]_vars => RoomInv'
<1> SUFFICES ASSUME EndInv, [Next]_vars, pc'["router"] = "check"
             PROVE  created' < MaxObj
  BY DEF RoomInv
<1> USE ThreadFacts
<1>0. TypeOK /\ pc \in [Threads -> Steps]
  BY DEF EndInv, TypeOK
<1>1. ASSUME NEW t \in Threads, NEW s, Goto(t, s), s # "check"
      PROVE  pc["router"] = "check"
  BY <1>0, <1>1, GotoMoves
<1>2. CASE \E c \in Conns, m \in Matches : ShipPlacement(c, m)
  BY <1>2 DEF ShipPlacement
<1>3. CASE pc["router"] = "check" /\ created' = created
  BY <1>3 DEF EndInv, RoomInv
<1>4. CASE UNCHANGED vars
  BY <1>3, <1>4 DEF vars, mapVars
<1>5. ASSUME NEW c \in Conns, NEW m \in Matches,
             MoveMiss(c, m) \/ MoveHit(c, m) \/ Resign(c, m) \/ AcceptDraw(c, m)
      PROVE  FALSE
  <2>1. pc["router"] = "idle" /\ (pc' = pc \/ Goto("router", "announce"))
    BY <1>5 DEF MoveMiss, MoveHit, Resign, AcceptDraw, Request, RouterEnds
  <2> QED
    BY <1>1, <2>1
<1>6. ~CheckReady /\ ~StartMatch
  <2>1. ASSUME CheckReady PROVE FALSE
    <3>1. Goto("router", "start") \/ Goto("router", "idle")
      BY <2>1 DEF CheckReady, Finish
    <3> QED
      BY <1>0, <3>1, GotoMoves
  <2>2. ASSUME StartMatch PROVE FALSE
    <3>1. Goto("router", "idle")
      BY <2>2 DEF StartMatch, Finish
    <3> QED
      BY <1>0, <3>1, GotoMoves
  <2> QED
    BY <2>1, <2>2
<1>7. ASSUME NEW c \in Conns, NEW u \in Users, Login(c, u) PROVE FALSE
  BY <1>7 DEF Login
<1>7a. ASSUME NEW c \in Conns, Logout(c) PROVE FALSE
  BY <1>7a DEF Logout
<1>8. ASSUME NEW c \in Conns, NEW m \in Matches, AcceptChallenge(c, m) PROVE FALSE
  BY <1>8 DEF AcceptChallenge
<1>9. ASSUME NEW o \in Objects, TurnExpires(o)
      PROVE  pc["router"] = "check" /\ created' = created
  BY <1>9 DEF TurnExpires, mapVars
<1>10. ASSUME TimerScan \/ TimerNext
       PROVE  pc["router"] = "check" /\ created' = created
  <2>1. \E s : Goto("timer", s)
    BY <1>10 DEF TimerScan, TimerNext
  <2>2. created' = created
    BY <1>10 DEF TimerScan, TimerNext, mapVars
  <2> QED
    BY <1>0, <2>1, <2>2, GotoMoves
<1>11. ASSUME NEW c \in Conns,
              Disconnect(c) \/ CleanupScan(c) \/ CleanupNext(c) \/ RemovePlayer(c)
       PROVE  pc["router"] = "check" /\ created' = created
  <2>1. pc' = pc \/ \E s : Goto(c, s)
    BY <1>11 DEF Disconnect, CleanupScan, CleanupNext, RemovePlayer
  <2>2. created' = created
    BY <1>11 DEF Disconnect, CleanupScan, CleanupNext, RemovePlayer, mapVars
  <2> QED
    BY <1>0, <2>1, <2>2, GotoMoves
<1>12. ASSUME NEW t \in Threads,
              Announce(t) \/ Record(t) \/ Free(t) \/ Erase(t) \/ Unready(t)
       PROVE  pc["router"] = "check" /\ created' = created
  <2>1. \E s : Goto(t, s) /\ s # "check"
    BY <1>12 DEF Announce, Record, Free, Erase, Unready, Finish
  <2>2. created' = created
    BY <1>12 DEF Announce, Record, Free, Erase, Unready, mapVars
  <2> QED
    BY <1>1, <2>1, <2>2
<1> QED
  BY <1>2, <1>3, <1>4, <1>5, <1>6, <1>7, <1>7a, <1>8, <1>9, <1>10, <1>11, <1>12,
     NextCases

\* No cleanup starts while the connection is open.
LEMMA StepLink == EndInv /\ [Next]_vars => LinkInv'
<1> SUFFICES ASSUME EndInv, [Next]_vars, NEW d \in Conns,
                    link'[d] \in {"new", "open", "out"}
             PROVE  pc'[d] = "idle"
  BY DEF LinkInv
<1> USE ThreadFacts
<1>0. TypeOK /\ link \in [Conns -> Links]
  BY DEF EndInv, TypeOK
<1>1. link[d] \in {"new", "open", "out"} => pc[d] = "idle"
  BY DEF EndInv, LinkInv
\* A step of another thread.
<1>2. ASSUME NEW t \in Threads, t # d, (\E s : Goto(t, s)) \/ pc' = pc, link' = link
      PROVE  pc'[d] = "idle"
  BY <1>0, <1>1, <1>2, GotoMoves
\* A step of the cleanup itself.
<1>3. ASSUME pc[d] # "idle", link' = link PROVE FALSE
  BY <1>1, <1>3
<1>4. ASSUME NEW c \in Conns, NEW u \in Users, Login(c, u) PROVE pc'[d] = "idle"
  BY <1>0, <1>1, <1>4 DEF Login
<1>4a. ASSUME NEW c \in Conns, Logout(c) PROVE pc'[d] = "idle"
  BY <1>0, <1>1, <1>4a DEF Logout, Online
<1>5. ASSUME NEW c \in Conns, NEW m \in Matches,
             \/ AcceptChallenge(c, m) \/ ShipPlacement(c, m) \/ MoveMiss(c, m)
             \/ MoveHit(c, m) \/ Resign(c, m) \/ AcceptDraw(c, m)
      PROVE  pc'[d] = "idle"
  <2>1. (\E s : Goto("router", s)) \/ pc' = pc
    BY <1>5 DEF AcceptChallenge, ShipPlacement, MoveMiss, MoveHit, Resign,
                AcceptDraw, RouterEnds
  <2>2. link' = link
    BY <1>5 DEF AcceptChallenge, ShipPlacement, MoveMiss, MoveHit, Resign,
                AcceptDraw, netVars
  <2> QED
    BY <1>2, <2>1, <2>2
<1>6. ASSUME CheckReady \/ StartMatch PROVE pc'[d] = "idle"
  <2>1. \E s : Goto("router", s)
    BY <1>6 DEF CheckReady, StartMatch, Finish
  <2>2. link' = link
    BY <1>6 DEF CheckReady, StartMatch, netVars
  <2> QED
    BY <1>2, <2>1, <2>2
<1>7. ASSUME NEW o \in Objects, TurnExpires(o) PROVE pc'[d] = "idle"
  BY <1>1, <1>7 DEF TurnExpires, netVars
<1>8. ASSUME TimerScan \/ TimerNext PROVE pc'[d] = "idle"
  <2>1. \E s : Goto("timer", s)
    BY <1>8 DEF TimerScan, TimerNext
  <2>2. link' = link
    BY <1>8 DEF TimerScan, TimerNext, netVars
  <2> QED
    BY <1>2, <2>1, <2>2
<1>9. ASSUME NEW c \in Conns, Disconnect(c) \/ RemovePlayer(c) PROVE pc'[d] = "idle"
  <2>1. \E s : Goto(c, s)
    BY <1>9 DEF Disconnect, RemovePlayer
  <2>2. \E l \in {"lost", "gone"} : link' = [link EXCEPT ![c] = l]
    BY <1>9 DEF Disconnect, RemovePlayer
  <2>3. c # d /\ link'[d] = link[d]
    BY <1>0, <2>2
  <2> QED
    BY <1>0, <1>1, <2>1, <2>3, GotoMoves
<1>10. ASSUME NEW c \in Conns, CleanupScan(c) \/ CleanupNext(c) PROVE pc'[d] = "idle"
  <2>1. pc' = pc \/ \E s : Goto(c, s)
    BY <1>10 DEF CleanupScan, CleanupNext
  <2>2. link' = link /\ pc[c] # "idle"
    BY <1>10 DEF CleanupScan, CleanupNext, netVars
  <2> QED
    BY <1>2, <1>3, <2>1, <2>2
<1>11. ASSUME NEW t \in Threads,
              Announce(t) \/ Record(t) \/ Free(t) \/ Erase(t) \/ Unready(t)
       PROVE  pc'[d] = "idle"
  <2>1. \E s : Goto(t, s)
    BY <1>11 DEF Announce, Record, Free, Erase, Unready, Finish
  <2>2. link' = link /\ pc[t] # "idle"
    BY <1>11 DEF Announce, Record, Free, Erase, Unready, netVars
  <2> QED
    BY <1>2, <1>3, <2>1, <2>2
<1>12. CASE UNCHANGED vars
  BY <1>1, <1>12 DEF vars, netVars
<1> QED
  BY <1>4, <1>4a, <1>5, <1>6, <1>7, <1>8, <1>9, <1>10, <1>11, <1>12, NextCases

LEMMA InitEnd == Init => EndInv
<1> SUFFICES ASSUME Init PROVE EndInv
  OBVIOUS
<1>1. TypeOK
  BY InitType
<1>2. \A t \in Threads : ~Before(t) /\ ~After(t)
  BY DEF Init, Before, After
<1>3. ObjectsInv
  BY DEF Init, ObjectsInv, NoObj
<1>4. JobsInv /\ ToldInv
  BY <1>2 DEF JobsInv, ToldInv, Init
<1>5. RoomInv /\ LinkInv
  BY ThreadFacts DEF Init, RoomInv, LinkInv
<1> QED
  BY <1>1, <1>3, <1>4, <1>5 DEF EndInv

LEMMA StepEndInv == EndInv /\ [Next]_vars => EndInv'
BY StepType, StepEnd, StepRoom, StepLink DEF EndInv

LEMMA EndInvAlways == Spec => []EndInv
BY InitEnd, StepEndInv, PTL DEF Spec

\* Every variable keeps its type, however many users, connections, matches
\* and match objects there are.
THEOREM TypeCorrect == Spec => []TypeOK
<1>1. EndInv => TypeOK
  BY DEF EndInv
<1> QED
  BY <1>1, EndInvAlways, PTL

\* The router, the timer and any number of cleanups may be ending the same
\* match at the same time, and a new object may replace the old one between
\* their steps: still none of them announces the end of one object twice.
THEOREM EndsOncePerThread == Spec => []NoSecondEnd
<1>1. EndInv => NoSecondEnd
  BY DEF EndInv, ToldInv, Before, NoSecondEnd
<1> QED
  BY <1>1, EndInvAlways, PTL

-----------------------------------------------------------------------------
(* A match the router leaves alone can be played.                          *)

\* Matches are only dropped, and the router does not let go of one that is
\* still active.
LEMMA KeepPlay ==
  ASSUME PlayInv, heap' = heap,
         \A n \in Matches : active'[n] \in {active[n], NoObj},
         \A n \in Matches : active'[n] # NoObj /\ Working(n) => Working(n)'
  PROVE  PlayInv'
<1> SUFFICES ASSUME NEW n \in Matches, active'[n] # NoObj
             PROVE  Playable(n)' \/ Working(n)'
  BY DEF PlayInv
<1>1. active'[n] = active[n]
  OBVIOUS
<1>2. Playable(n) \/ Working(n)
  BY <1>1 DEF PlayInv
<1>3. Playable(n) => Playable(n)'
  BY <1>1 DEF Playable
<1> QED
  BY <1>2, <1>3

\* One object changes, into one that can be played.
LEMMA ReplacePlay ==
  ASSUME EndInv, PlayInv, active' = active,
         NEW m \in Matches, active[m] # NoObj, NEW r \in MatchStates,
         heap' = [heap EXCEPT ![active[m]] = r],
         r.live, r.turn \in Players(m), \A u \in Players(m) : r.afloat[u] > 0,
         \A n \in Matches \ {m} : Working(n) => Working(n)'
  PROVE  PlayInv'
<1>1. active \in [Matches -> 0..MaxObj] /\ heap \in [Objects -> MatchStates]
  BY DEF EndInv, TypeOK
<1>2. active[m] \in Objects
  BY <1>1, ConstantsAssumption DEF Objects, NoObj
<1> SUFFICES ASSUME NEW n \in Matches, active[n] # NoObj
             PROVE  Playable(n)' \/ Working(n)'
  BY DEF PlayInv
<1>3. CASE n = m
  <2>1. heap'[active'[m]] = r
    BY <1>1, <1>2
  <2> QED
    BY <1>3, <2>1 DEF Playable
<1>4. CASE n # m
  <2>1. active[n] # active[m]
    BY <1>4 DEF EndInv, ObjectsInv
  <2>2. heap'[active'[n]] = heap[active[n]]
    BY <1>1, <2>1
  <2>3. Playable(n) \/ Working(n)
    BY DEF PlayInv
  <2>4. Playable(n) => Playable(n)'
    BY <2>2 DEF Playable
  <2> QED
    BY <1>4, <2>3, <2>4
<1> QED
  BY <1>3, <1>4

LEMMA StepPlay == EndInv /\ PlayInv /\ [Next]_vars => PlayInv'
<1> SUFFICES ASSUME EndInv, PlayInv, [Next]_vars PROVE PlayInv'
  OBVIOUS
<1> USE ThreadFacts
<1>0. TypeOK /\ active \in [Matches -> 0..MaxObj] /\ heap \in [Objects -> MatchStates]
  BY DEF EndInv, TypeOK
\* No match is with the router while it is idle.
<1>1. pc["router"] = "idle" => \A n \in Matches : ~Working(n)
  BY DEF Working
\* Steps of another thread that touch neither objects nor active_matches_.
<1>2. ASSUME heap' = heap, active' = active,
             (pc' = pc /\ job' = job)
               \/ \E t \in Threads \ {"router"} : OnlyMoves(t)
      PROVE  PlayInv'
  <2>1. \A n \in Matches : Working(n) => Working(n)'
    BY <1>2 DEF Working, OnlyMoves
  <2> QED
    BY <1>2, <2>1, KeepPlay
\* Steps of a router that works on no match.
<1>3. ASSUME heap' = heap, active' = active, \A n \in Matches : ~Working(n)
      PROVE  PlayInv'
  BY <1>3, KeepPlay
<1>4. ASSUME NEW c \in Conns, NEW u \in Users, Login(c, u) PROVE PlayInv'
  BY <1>2, <1>4 DEF Login, mapVars
<1>4a. ASSUME NEW c \in Conns, Logout(c) PROVE PlayInv'
  BY <1>2, <1>4a DEF Logout, mapVars
<1>5. ASSUME NEW c \in Conns, NEW m \in Matches,
             AcceptChallenge(c, m) \/ ShipPlacement(c, m)
      PROVE  PlayInv'
  BY <1>1, <1>3, <1>5 DEF AcceptChallenge, ShipPlacement, mapVars
<1>6. ASSUME NEW c \in Conns, NEW m \in Matches, Resign(c, m) \/ AcceptDraw(c, m)
      PROVE  PlayInv'
  BY <1>1, <1>3, <1>6 DEF Resign, AcceptDraw, Request, mapVars
<1>7. ASSUME NEW c \in Conns, NEW m \in Matches, MoveMiss(c, m) PROVE PlayInv'
  <2> DEFINE o == active[m]
             r == [heap[o] EXCEPT !.turn = Other(m, heap[o].turn), !.late = FALSE]
  <2>1. /\ o \in Objects /\ heap[o] \in MatchStates /\ o # NoObj
        /\ Other(m, user[c]) \in Players(m) /\ Other(m, user[c]) \in Users
    BY <1>0, <1>7, RequestFacts DEF MoveMiss, Request
  <2>2. Playable(m)
    BY <1>1, <1>7, <2>1 DEF MoveMiss, Request, PlayInv
  <2>3. heap[o].turn = user[c] /\ heap' = [heap EXCEPT ![o] = r] /\ active' = active
    BY <1>7 DEF MoveMiss, mapVars
  <2>4. r \in MatchStates /\ r.live = heap[o].live /\ r.afloat = heap[o].afloat
        /\ r.turn = Other(m, user[c])
    BY <2>1, <2>3 DEF MatchStates, UserOrNobody
  <2>5. \A n \in Matches : ~Working(n)
    BY <1>1, <1>7 DEF MoveMiss, Request
  <2> HIDE DEF r
  <2> QED
    BY <2>1, <2>2, <2>3, <2>4, <2>5, ReplacePlay DEF Playable
<1>8. ASSUME NEW c \in Conns, NEW m \in Matches, MoveHit(c, m) PROVE PlayInv'
  <2> DEFINE o == active[m]
             target == Other(m, user[c])
             hit == [heap[o] EXCEPT !.afloat[target] = @ - 1]
  <2>1. /\ o \in Objects /\ heap[o] \in MatchStates /\ o # NoObj
        /\ target \in Players(m) /\ target \in Users
        /\ heap[o].afloat \in [Users -> 0..Fleet]
    BY <1>0, <1>8, RequestFacts DEF MoveHit, Request, MatchStates
  <2>2. Playable(m) /\ active' = active
    BY <1>1, <1>8, <2>1 DEF MoveHit, Request, PlayInv, mapVars
  <2>3. \A n \in Matches : ~Working(n)
    BY <1>1, <1>8 DEF MoveHit, Request
  <2>4. CASE heap[o].afloat[target] # 1
    <3>1. heap' = [heap EXCEPT ![o] = hit]
      BY <1>8, <2>4 DEF MoveHit
    <3>2. heap[o].afloat[target] \in 0..Fleet /\ heap[o].afloat[target] > 1
      BY <2>1, <2>2, <2>4 DEF Playable
    <3>3. hit.afloat = [heap[o].afloat EXCEPT ![target] = @ - 1]
          /\ hit.live = heap[o].live /\ hit.turn = heap[o].turn
      BY <2>1 DEF MatchStates
    <3>4. heap[o].afloat[target] - 1 \in 0..Fleet /\ heap[o].afloat[target] - 1 > 0
      BY <3>2, ConstantsAssumption
    <3>5. hit \in MatchStates
      BY <2>1, <3>4 DEF MatchStates
    <3>6. \A u \in Players(m) : hit.afloat[u] > 0
      BY <1>0, <2>1, <2>2, <3>3, <3>4, ConstantFacts DEF Playable
    <3> HIDE DEF hit
    <3> QED
      BY <2>1, <2>2, <2>3, <3>1, <3>3, <3>5, <3>6, ReplacePlay DEF Playable
  <2>5. CASE heap[o].afloat[target] = 1
    <3> DEFINE j == [c |-> c, m |-> m, o |-> active[m], winner |-> user[c],
                     reason |-> "normal"]
    <3>1. Goto("router", "announce") /\ job' = [job EXCEPT !["router"] = j]
      BY <1>8, <2>5 DEF MoveHit, RouterEnds
    <3>2. pc'["router"] = "announce" /\ job'["router"] = j
      BY <1>0, <3>1, TakeMoves
    <3>3. Working(m)'
      BY <3>2 DEF Working
    <3>4. \A p \in Objects \ {o} : heap'[p] = heap[p]
      <4>1. heap' = [heap EXCEPT ![o].afloat[target] = 0, ![o].live = FALSE]
        BY <1>8, <2>5 DEF MoveHit
      <4> QED
        BY <1>0, <4>1
    <3>5. ASSUME NEW n \in Matches, n # m, active'[n] # NoObj PROVE Playable(n)'
      <4>1. active[n] # o /\ active[n] \in Objects
        BY <1>0, <2>1, <2>2, <3>5, ConstantsAssumption
           DEF EndInv, ObjectsInv, Objects, NoObj
      <4>2. Playable(n)
        BY <2>2, <2>3, <3>5 DEF PlayInv
      <4> QED
        BY <2>2, <3>4, <4>1, <4>2 DEF Playable
    <3> QED
      BY <3>3, <3>5 DEF PlayInv
  <2> QED
    BY <2>4, <2>5
<1>9. CASE CheckReady
  <2>0. PICK m \in Matches : m = job["router"].m
    BY <1>0 DEF TypeOK, Jobs
  <2>1. \A n \in Matches : ~Working(n)
    BY <1>9 DEF CheckReady, Working
  <2>2. CASE ~(Players(m) \subseteq ready[m])
    BY <1>3, <1>9, <2>0, <2>1, <2>2 DEF CheckReady
  <2>3. CASE Players(m) \subseteq ready[m]
    <3>1. /\ active' = [active EXCEPT ![m] = created + 1]
          /\ Goto("router", "start") /\ UNCHANGED job /\ heap' = heap
      BY <1>9, <2>0, <2>3 DEF CheckReady
    <3>2. Working(m)'
      BY <1>0, <2>0, <3>1, WalkMoves DEF Working
    <3>3. \A n \in Matches \ {m} : active'[n] = active[n]
      BY <1>0, <3>1
    <3>4. \A n \in Matches \ {m} : active'[n] # NoObj => Playable(n)'
      BY <2>1, <3>1, <3>3 DEF PlayInv, Playable
    <3> QED
      BY <3>2, <3>4 DEF PlayInv
  <2> QED
    BY <2>2, <2>3
<1>10. CASE StartMatch
  <2> DEFINE m == job["router"].m
             o == active[m]
  <2>1. m \in Matches /\ active' = active /\ pc["router"] = "start"
    BY <1>0, <1>10 DEF TypeOK, Jobs, StartMatch, mapVars
  <2>2. \A n \in Matches \ {m} : ~Working(n)
    BY DEF Working
  <2>3. CASE o = NoObj
    <3>1. heap' = heap
      BY <1>10, <2>3 DEF StartMatch
    <3>2. \A n \in Matches : active'[n] # NoObj => ~Working(n)
      BY <2>1, <2>2, <2>3
    <3> QED
      BY <2>1, <3>1, <3>2, KeepPlay
  <2>4. CASE o # NoObj
    <3>1. PICK u \in Players(m) :
            heap' = [heap EXCEPT ![o] = [Fresh EXCEPT !.live = TRUE, !.turn = u]]
      BY <1>10, <2>4 DEF StartMatch
    <3> DEFINE r == [Fresh EXCEPT !.live = TRUE, !.turn = u]
    <3>2. u \in Users
      BY <2>1, <3>1, ConstantFacts
    <3>3. /\ r \in MatchStates /\ r.live /\ r.turn = u
          /\ \A v \in Players(m) : r.afloat[v] > 0
      <4>1. \A v \in Users : Fresh.afloat[v] = Fleet
        BY DEF Fresh
      <4>2. u \in UserOrNobody /\ Fresh \in MatchStates
        BY <3>2, ConstantFacts
      <4>3. r \in MatchStates
        BY <4>2 DEF MatchStates
      <4>4. r.live /\ r.turn = u /\ r.afloat = Fresh.afloat
        BY <4>2 DEF MatchStates
      <4> QED
        BY <2>1, <4>1, <4>3, <4>4, ConstantFacts, ConstantsAssumption
    <3> HIDE DEF r
    <3> QED
      BY <2>1, <2>2, <2>4, <3>1, <3>3, ReplacePlay DEF r
  <2> QED
    BY <2>3, <2>4
<1>11. ASSUME NEW o \in Objects, TurnExpires(o) PROVE PlayInv'
  <2> DEFINE r == [heap[o] EXCEPT !.late = TRUE]
  <2>1. heap' = [heap EXCEPT ![o] = r] /\ UNCHANGED <<active, pc, job>>
    BY <1>11 DEF TurnExpires, mapVars
  <2>2. heap[o] \in MatchStates
    BY <1>0
  <2>3. r.live = heap[o].live /\ r.turn = heap[o].turn /\ r.afloat = heap[o].afloat
    BY <2>2 DEF MatchStates
  <2>4. \A n \in Matches : active[n] # NoObj => active[n] \in Objects
    BY <1>0, ConstantsAssumption DEF Objects, NoObj
  <2>5. \A n \in Matches : active[n] # NoObj =>
          /\ heap'[active[n]].live = heap[active[n]].live
          /\ heap'[active[n]].turn = heap[active[n]].turn
          /\ heap'[active[n]].afloat = heap[active[n]].afloat
    <3> HIDE DEF r
    <3> QED
      BY <1>0, <2>1, <2>3, <2>4
  <2> QED
    BY <2>1, <2>5 DEF PlayInv, Playable, Working
<1>12. CASE TimerScan \/ TimerNext
  <2>1. heap' = heap /\ active' = active
    BY <1>12 DEF TimerScan, TimerNext, mapVars
  <2>2. OnlyMoves("timer")
    BY <1>0, <1>12, WalkMoves, TakeMoves DEF TimerScan, TimerNext
  <2> QED
    BY <1>2, <2>1, <2>2
<1>13. ASSUME NEW c \in Conns,
              Disconnect(c) \/ CleanupScan(c) \/ CleanupNext(c) \/ RemovePlayer(c)
       PROVE  PlayInv'
  <2>1. heap' = heap /\ active' = active
    BY <1>13 DEF Disconnect, CleanupScan, CleanupNext, RemovePlayer, mapVars
  <2>2. (pc' = pc /\ job' = job) \/ OnlyMoves(c)
    BY <1>0, <1>13, WalkMoves, TakeMoves
       DEF Disconnect, CleanupScan, CleanupNext, RemovePlayer
  <2> QED
    BY <1>2, <2>1, <2>2
<1>14. ASSUME NEW t \in Threads, Announce(t) \/ Record(t) \/ Free(t) PROVE PlayInv'
  <2>1. heap' = heap /\ active' = active
    BY <1>14 DEF Announce, Record, Free, mapVars
  <2>2. CASE t = "router"
    <3>1. job' = job /\ \E s \in {"record", "free", "erase"} : Goto(t, s)
      BY <1>14, <2>2 DEF Announce, Record, Free
    <3>2. pc'["router"] \in {"record", "free", "erase"}
      BY <1>0, <2>2, <3>1, GotoMoves
    <3>3. \A n \in Matches : Working(n) => Working(n)'
      BY <3>1, <3>2 DEF Working
    <3> QED
      BY <2>1, <3>3, KeepPlay
  <2>3. CASE t # "router"
    <3>1. \E s : Finish(t, s) \/ (Goto(t, s) /\ UNCHANGED job)
      BY <1>14 DEF Announce, Record, Free
    <3>2. OnlyMoves(t)
      BY <1>0, <3>1, FinishMoves, WalkMoves
    <3> QED
      BY <1>2, <2>1, <2>3, <3>2
  <2> QED
    BY <2>2, <2>3
<1>15. ASSUME NEW t \in Threads, Erase(t) PROVE PlayInv'
  <2> DEFINE m == job[t].m
  <2>1. /\ active' = [active EXCEPT ![m] = NoObj] /\ heap' = heap
        /\ Goto(t, "unready") /\ UNCHANGED job
    BY <1>15 DEF Erase
  <2>2. m \in Matches
    BY <1>0 DEF TypeOK, Jobs
  <2>3. active'[m] = NoObj /\ \A n \in Matches : active'[n] \in {active[n], NoObj}
    BY <1>0, <2>1, <2>2
  <2>4. OnlyMoves(t)
    BY <1>0, <2>1, WalkMoves
  <2>5. \A n \in Matches : active'[n] # NoObj /\ Working(n) => Working(n)'
    BY <2>1, <2>3, <2>4 DEF Working, OnlyMoves
  <2> QED
    BY <2>1, <2>3, <2>5, KeepPlay
<1>16. ASSUME NEW t \in Threads, Unready(t) PROVE PlayInv'
  <2>1. heap' = heap /\ active' = active /\ pc[t] = "unready"
    BY <1>16 DEF Unready
  <2>2. CASE t = "router"
    BY <1>3, <2>1, <2>2 DEF Working
  <2>3. CASE t # "router"
    <3>1. \E s : Finish(t, s) \/ (Goto(t, s) /\ UNCHANGED job)
      BY <1>16 DEF Unready
    <3>2. OnlyMoves(t)
      BY <1>0, <3>1, FinishMoves, WalkMoves
    <3> QED
      BY <1>2, <2>1, <2>3, <3>2
  <2> QED
    BY <2>2, <2>3
<1>17. CASE UNCHANGED vars
  BY <1>2, <1>17 DEF vars, mapVars
<1> QED
  BY <1>4, <1>4a, <1>5, <1>6, <1>7, <1>8, <1>9, <1>10, <1>11, <1>12, <1>13, <1>14,
     <1>15, <1>16, <1>17, NextCases

\* Whatever matches there are and whoever is ending them, while the router is
\* idle every match in active_matches_ is active, has the turn of one of its
\* players, and both of its fleets have something afloat.
THEOREM RestingPlayable == Spec => []RestingMatchesPlayable
<1>1. Init => EndInv /\ PlayInv
  BY InitEnd DEF Init, PlayInv
<1>2. EndInv /\ PlayInv /\ [Next]_vars => EndInv' /\ PlayInv'
  BY StepEndInv, StepPlay
<1>3. PlayInv => RestingMatchesPlayable
  BY DEF PlayInv, Playable, Working, RestingMatchesPlayable
<1> QED
  BY <1>1, <1>2, <1>3, PTL DEF Spec

-----------------------------------------------------------------------------
(***************************************************************************)
(* How matches end: the verdicts are ones the match supports, the winner   *)
(* that is recorded is one the players are told, players get free, no      *)
(* match goes away silently, and all of this together implements           *)
(* MatchLife.                                                              *)
(***************************************************************************)

\* A thread is between the choice of a match and its removal.
Ending(t) == Before(t) \/ After(t)

\* A thread on its way to remove a match has announced its verdict.
AnnouncedInv ==
  \A t \in Threads : After(t) => VerdictOf(t) \in told[job[t].o]

\* Objects are fresh until they are created.
FreshInv == \A o \in Objects : o > created => heap[o] = Fresh

Cleaning == {"next", "record", "announce", "erase", "unready", "free"}

\* A cleanup deals with matches of its user only.
CleanupInv ==
  \A c \in Conns :
    /\ \A m \in todo[c] : pc[c] \in Cleaning /\ user[c] \in Players(m)
    /\ pc[c] \in Cleaning \ {"next"} => user[c] \in Players(job[c].m)

\* A turn that runs out, and one that the timer has seen run out, is noted.
LateInv ==
  /\ \A m \in Matches : TimedOut(m) => m \in overdue
  /\ todo["timer"] \subseteq overdue

\* VerdictsJustified of one verdict, and that only a move ends a match
\* normally.
Justified(o, v) ==
  /\ v.reason = "draw" <=> v.winner = Nobody
  /\ v.winner # Nobody => v.winner \in Players(v.m)
  /\ v.reason = "normal" => /\ v.by = "router"
                            /\ heap[o].afloat[Other(v.m, v.winner)] = 0
                            /\ heap[o].afloat[v.winner] > 0
                            /\ ~heap[o].live
  /\ v.reason = "disconnect" =>
       \E c \in Conns : /\ link[c] \in {"lost", "gone"}
                        /\ user[c] = Other(v.m, v.winner)
  /\ v.reason = "resign" => \E u \in resigned[v.m] : v.winner = Other(v.m, u)
  /\ v.reason = "timeout" => v.m \in overdue

Supported(t) == Justified(job[t].o, VerdictOf(t))

\* Verdicts are justified from the time they are reached.
VerdictInv ==
  /\ \A o \in Objects : \A v \in told[o] : Justified(o, v)
  /\ \A t \in Threads : Before(t) => Supported(t)

\* A player has a match that goes on, or a thread that will set him free.
Engaged(u) ==
  \/ \E m \in Matches : u \in Players(m) /\ row[m].status = "waiting"
  \/ \E t \in Threads \ Conns : pc[t] = "free" /\ u \in Players(job[t].m)
  \/ \E c \in Conns : /\ pc[c] \in {"announce", "erase", "unready", "free"}
                      /\ u \in Players(job[c].m)
  \/ \E c \in Conns : user[c] = u /\ pc[c] \in Cleaning

FreedInv == \A u \in Users : status[u] = "IN_GAME" => Engaged(u)

\* Where clients place their ships once, an object has been created only if
\* both have, so that no second one is created for a match, and the thread
\* that ends a match removes the object it took.
OnceInv ==
  /\ \A m \in Matches : ready[m] \subseteq placed[m]
  /\ \A m \in Matches : active[m] # NoObj => Players(m) \subseteq placed[m]
  /\ \A t \in Threads : Ending(t) =>
       /\ Players(job[t].m) \subseteq placed[job[t].m]
       /\ active[job[t].m] \in {NoObj, job[t].o}
  /\ pc["router"] = "check" =>
       /\ active[job["router"].m] = NoObj
       /\ \A t \in Threads : Ending(t) => job[t].m # job["router"].m

\* ... and so the players of an object that is gone were told a verdict.
OverInv ==
  \A o \in 1..created : (\A m \in Matches : active[m] # o) => told[o] # {}

-----------------------------------------------------------------------------
(* What each action does to the program counters and the locals.           *)

Walks(t, s) == pc'[t] = s /\ job'[t] = job[t] /\ OnlyMoves(t)
Takes(t, s, j) == pc'[t] = s /\ job'[t] = j /\ OnlyMoves(t)
Leaves(t, s) == pc'[t] = s /\ job'[t] = NoJob /\ OnlyMoves(t)

LEMMA Leaving ==
  ASSUME TypeOK, NEW t \in Threads, NEW s, Finish(t, s)
  PROVE  Leaves(t, s)
<1>1. job \in [Threads -> Jobs]
  BY DEF TypeOK
<1> QED
  BY <1>1, FinishMoves DEF Finish, Leaves

LEMMA Walking ==
  ASSUME TypeOK, NEW t \in Threads, NEW s, Goto(t, s), UNCHANGED job
  PROVE  Walks(t, s)
BY WalkMoves DEF Walks

LEMMA Taking ==
  ASSUME TypeOK, NEW t \in Threads, NEW s, NEW j, Goto(t, s),
         job' = [job EXCEPT ![t] = j]
  PROVE  Takes(t, s, j)
BY TakeMoves DEF Takes

\* The job of a thread that took up an active match.
JobOf(c, m, w, r) == [c |-> c, m |-> m, o |-> active[m], winner |-> w, reason |-> r]

LEMMA RouterMoves ==
  ASSUME TypeOK, NEW c, NEW m, NEW w, NEW r, RouterEnds(c, m, w, r)
  PROVE  Takes("router", "announce", JobOf(c, m, w, r))
BY ThreadFacts, Taking DEF RouterEnds, JobOf

LEMMA ShipPlacementMoves ==
  ASSUME TypeOK, NEW c, NEW m, ShipPlacement(c, m)
  PROVE  Takes("router", "check", [NoJob EXCEPT !.c = c, !.m = m])
BY ThreadFacts, Taking DEF ShipPlacement

LEMMA CheckReadyMoves ==
  ASSUME TypeOK, CheckReady
  PROVE  LET m == job["router"].m IN
         \/ /\ Players(m) \subseteq ready[m]
            /\ created' = created + 1
            /\ active' = [active EXCEPT ![m] = created + 1]
            /\ Walks("router", "start")
         \/ UNCHANGED <<active, created>> /\ Leaves("router", "idle")
BY ThreadFacts, Walking, Leaving DEF CheckReady

LEMMA StartMatchMoves ==
  ASSUME TypeOK, StartMatch
  PROVE  Leaves("router", "idle")
BY ThreadFacts, Leaving DEF StartMatch

LEMMA TimerScanMoves ==
  ASSUME TypeOK, TimerScan
  PROVE  Walks("timer", "next")
BY ThreadFacts, Walking DEF TimerScan

LEMMA TimerNextMoves ==
  ASSUME TypeOK, TimerNext
  PROVE  \/ Walks("timer", "idle") \/ Walks("timer", "next")
         \/ \E m \in Matches \cap todo["timer"] :
              /\ active[m] # NoObj
              /\ Takes("timer", "announce",
                       JobOf(Nobody, m, Other(m, heap[active[m]].turn), "timeout"))
<1> PICK m \in todo["timer"] :
      IF active[m] = NoObj
        THEN /\ Goto("timer", IF todo'["timer"] = {} THEN "idle" ELSE "next")
             /\ UNCHANGED job
        ELSE /\ Goto("timer", "announce")
             /\ job' = [job EXCEPT !["timer"] =
                  [c |-> Nobody, m |-> m, o |-> active[m],
                   winner |-> Other(m, heap[active[m]].turn),
                   reason |-> "timeout"]]
  BY DEF TimerNext
<1>1. m \in Matches
  BY ThreadFacts DEF TypeOK
<1>2. CASE active[m] = NoObj
  BY <1>2, ThreadFacts, Walking
<1>3. CASE active[m] # NoObj
  BY <1>1, <1>3, ThreadFacts, Taking DEF JobOf
<1> QED
  BY <1>2, <1>3

LEMMA DisconnectMoves ==
  ASSUME TypeOK, NEW c \in Conns, Disconnect(c)
  PROVE  Walks(c, "scan")
BY ThreadFacts, Walking DEF Disconnect

LEMMA CleanupScanMoves ==
  ASSUME TypeOK, NEW c \in Conns, CleanupScan(c)
  PROVE  Walks(c, "next")
BY ThreadFacts, Walking DEF CleanupScan

LEMMA CleanupNextMoves ==
  ASSUME TypeOK, NEW c \in Conns, CleanupNext(c)
  PROVE  \/ UNCHANGED <<pc, job>>
         \/ \E m \in todo[c] :
              /\ m \in Matches /\ active[m] # NoObj
              /\ Takes(c, "record",
                       JobOf(Nobody, m, Other(m, user[c]), "disconnect"))
<1> PICK m \in todo[c] :
      IF active[m] = NoObj
        THEN UNCHANGED <<pc, job>>
        ELSE /\ Goto(c, "record")
             /\ job' = [job EXCEPT ![c] =
                  [c |-> Nobody, m |-> m, o |-> active[m],
                   winner |-> Other(m, user[c]), reason |-> "disconnect"]]
  BY DEF CleanupNext
<1>1. m \in Matches
  BY ThreadFacts DEF TypeOK
<1> QED
  BY <1>1, ThreadFacts, Taking DEF JobOf

LEMMA RemovePlayerMoves ==
  ASSUME TypeOK, NEW c \in Conns, RemovePlayer(c)
  PROVE  Walks(c, "idle")
BY ThreadFacts, Walking DEF RemovePlayer

LEMMA AnnounceMoves ==
  ASSUME TypeOK, NEW t \in Threads, Announce(t)
  PROVE  Walks(t, IF t \in Conns THEN "erase" ELSE "record")
BY Walking DEF Announce

LEMMA RecordMoves ==
  ASSUME TypeOK, NEW t \in Threads, Record(t)
  PROVE  Walks(t, IF t \in Conns THEN "announce" ELSE "free")
BY Walking DEF Record

LEMMA FreeMoves ==
  ASSUME TypeOK, NEW t \in Threads, Free(t)
  PROVE  IF t \in Conns THEN Leaves(t, "next") ELSE Walks(t, "erase")
BY Walking, Leaving DEF Free

LEMMA EraseMoves ==
  ASSUME TypeOK, NEW t \in Threads, Erase(t)
  PROVE  Walks(t, "unready")
BY Walking DEF Erase

LEMMA UnreadyMoves ==
  ASSUME TypeOK, NEW t \in Threads, Unready(t)
  PROVE  \/ t \in Conns /\ Walks(t, "free")
         \/ t \notin Conns /\ (Leaves(t, "idle") \/ Leaves(t, "next"))
BY Walking, Leaving DEF Unready

-----------------------------------------------------------------------------
(* Verdicts are announced before the match is removed.                     *)

LEMMA KeepAnnounced ==
  ASSUME EndInv, AnnouncedInv, NEW t \in Threads, OnlyMoves(t),
         \A o \in Objects : told[o] \subseteq told'[o],
         After(t)' => After(t) /\ job'[t] = job[t]
  PROVE  AnnouncedInv'
<1> SUFFICES ASSUME NEW u \in Threads, After(u)'
             PROVE  (VerdictOf(u) \in told[job[u].o])'
  BY DEF AnnouncedInv
<1>1. After(u) /\ job'[u] = job[u]
  BY DEF OnlyMoves, After
<1>2. job[u].o \in Objects /\ VerdictOf(u) \in told[job[u].o]
  BY <1>1, BusyObject DEF AnnouncedInv
<1> QED
  BY <1>1, <1>2 DEF VerdictOf

LEMMA StillAnnounced ==
  ASSUME EndInv, AnnouncedInv, UNCHANGED <<pc, job, told>>
  PROVE  AnnouncedInv'
BY DEF AnnouncedInv, After, VerdictOf

LEMMA StepAnnounced == EndInv /\ AnnouncedInv /\ [Next]_vars => AnnouncedInv'
<1> SUFFICES ASSUME EndInv, AnnouncedInv, [Next]_vars PROVE AnnouncedInv'
  OBVIOUS
<1> USE ThreadFacts
<1>0. TypeOK
  BY DEF EndInv
<1>1. ASSUME NEW c \in Conns, NEW u \in Users, Login(c, u) PROVE AnnouncedInv'
  BY <1>1, StillAnnounced DEF Login
<1>2. ASSUME NEW c \in Conns, Logout(c) PROVE AnnouncedInv'
  BY <1>2, StillAnnounced DEF Logout
<1>3. ASSUME NEW c \in Conns, NEW m \in Matches, AcceptChallenge(c, m)
      PROVE  AnnouncedInv'
  BY <1>3, StillAnnounced DEF AcceptChallenge
<1>4. ASSUME NEW c \in Conns, NEW m \in Matches, ShipPlacement(c, m)
      PROVE  AnnouncedInv'
  BY <1>0, <1>4, ShipPlacementMoves, KeepAnnounced
     DEF ShipPlacement, Takes, After
<1>5. ASSUME NEW c \in Conns, NEW m \in Matches, MoveMiss(c, m)
      PROVE  AnnouncedInv'
  BY <1>5, StillAnnounced DEF MoveMiss
<1>6. ASSUME NEW c \in Conns, NEW m \in Matches, MoveHit(c, m)
      PROVE  AnnouncedInv'
  <2>1. CASE RouterEnds(c, m, user[c], "normal")
    BY <1>0, <1>6, <2>1, RouterMoves, KeepAnnounced DEF MoveHit, Takes, After
  <2>2. CASE UNCHANGED <<pc, job>>
    BY <1>6, <2>2, StillAnnounced DEF MoveHit
  <2> QED
    BY <1>6, <2>1, <2>2 DEF MoveHit
<1>7. ASSUME NEW c \in Conns, NEW m \in Matches, Resign(c, m)
      PROVE  AnnouncedInv'
  BY <1>0, <1>7, RouterMoves, KeepAnnounced DEF Resign, Takes, After
<1>8. ASSUME NEW c \in Conns, NEW m \in Matches, AcceptDraw(c, m)
      PROVE  AnnouncedInv'
  BY <1>0, <1>8, RouterMoves, KeepAnnounced DEF AcceptDraw, Takes, After
<1>9. CASE CheckReady
  BY <1>0, <1>9, CheckReadyMoves, KeepAnnounced
     DEF CheckReady, Walks, Leaves, After
<1>10. CASE StartMatch
  BY <1>0, <1>10, StartMatchMoves, KeepAnnounced DEF StartMatch, Leaves, After
<1>11. ASSUME NEW o \in Objects, TurnExpires(o) PROVE AnnouncedInv'
  BY <1>11, StillAnnounced DEF TurnExpires
<1>12. CASE TimerScan
  BY <1>0, <1>12, TimerScanMoves, KeepAnnounced DEF TimerScan, Walks, After
<1>13. CASE TimerNext
  BY <1>0, <1>13, TimerNextMoves, KeepAnnounced
     DEF TimerNext, Walks, Takes, After
<1>14. ASSUME NEW c \in Conns, Disconnect(c) PROVE AnnouncedInv'
  BY <1>0, <1>14, DisconnectMoves, KeepAnnounced DEF Disconnect, Walks, After
<1>15. ASSUME NEW c \in Conns, CleanupScan(c) PROVE AnnouncedInv'
  BY <1>0, <1>15, CleanupScanMoves, KeepAnnounced DEF CleanupScan, Walks, After
<1>16. ASSUME NEW c \in Conns, CleanupNext(c) PROVE AnnouncedInv'
  <2>1. CASE UNCHANGED <<pc, job>>
    BY <1>16, <2>1, StillAnnounced DEF CleanupNext
  <2>2. CASE ~UNCHANGED <<pc, job>>
    BY <1>0, <1>16, <2>2, CleanupNextMoves, KeepAnnounced
       DEF CleanupNext, Takes, After
  <2> QED
    BY <2>1, <2>2
<1>17. ASSUME NEW c \in Conns, RemovePlayer(c) PROVE AnnouncedInv'
  BY <1>0, <1>17, RemovePlayerMoves, KeepAnnounced
     DEF RemovePlayer, Walks, After
<1>18. ASSUME NEW t \in Threads, Announce(t) PROVE AnnouncedInv'
  <2>1. /\ told' = [told EXCEPT ![job[t].o] = @ \cup {VerdictOf(t)}]
        /\ told \in [Objects -> SUBSET Verdicts]
        /\ Before(t)
    BY <1>0, <1>18 DEF Announce, VerdictOf, Before, TypeOK
  <2>2. job[t].o \in Objects
    BY <2>1, BusyObject
  <2>3. /\ VerdictOf(t) \in told'[job[t].o]
        /\ \A o \in Objects : told[o] \subseteq told'[o]
    BY <2>1, <2>2
  <2>4. Walks(t, IF t \in Conns THEN "erase" ELSE "record")
    BY <1>0, <1>18, AnnounceMoves
  <2> SUFFICES ASSUME NEW u \in Threads, After(u)'
               PROVE  (VerdictOf(u) \in told[job[u].o])'
    BY DEF AnnouncedInv
  <2>5. CASE u = t
    BY <2>3, <2>4, <2>5 DEF Walks, VerdictOf
  <2>6. CASE u # t
    <3>1. After(u) /\ job'[u] = job[u]
      BY <2>4, <2>6 DEF Walks, OnlyMoves, After
    <3>2. job[u].o \in Objects /\ VerdictOf(u) \in told[job[u].o]
      BY <3>1, BusyObject DEF AnnouncedInv
    <3> QED
      BY <2>3, <3>1, <3>2 DEF VerdictOf
  <2> QED
    BY <2>5, <2>6
<1>19. ASSUME NEW t \in Threads, Record(t) PROVE AnnouncedInv'
  BY <1>0, <1>19, RecordMoves, KeepAnnounced DEF Record, Walks, After
<1>20. ASSUME NEW t \in Threads, Free(t) PROVE AnnouncedInv'
  BY <1>0, <1>20, FreeMoves, KeepAnnounced DEF Free, Walks, Leaves, After
<1>21. ASSUME NEW t \in Threads, Erase(t) PROVE AnnouncedInv'
  BY <1>0, <1>21, EraseMoves, KeepAnnounced DEF Erase, Walks, After
<1>22. ASSUME NEW t \in Threads, Unready(t) PROVE AnnouncedInv'
  BY <1>0, <1>22, UnreadyMoves, KeepAnnounced DEF Unready, Walks, Leaves, After
<1>23. CASE UNCHANGED vars
  BY <1>23, StillAnnounced DEF vars
<1> QED
  BY <1>1, <1>2, <1>3, <1>4, <1>5, <1>6, <1>7, <1>8, <1>9, <1>10, <1>11, <1>12,
     <1>13, <1>14, <1>15, <1>16, <1>17, <1>18, <1>19, <1>20, <1>21, <1>22,
     <1>23, NextCases

-----------------------------------------------------------------------------
(* Objects before their creation, and what cleanups work on.               *)

LEMMA StepFresh == EndInv /\ FreshInv /\ [Next]_vars => FreshInv'
<1> SUFFICES ASSUME EndInv, FreshInv, [Next]_vars PROVE FreshInv'
  OBVIOUS
<1> USE ThreadFacts
<1>0. TypeOK
  BY DEF EndInv
<1>t. /\ heap \in [Objects -> MatchStates] /\ created \in Nat
      /\ active \in [Matches -> 0..MaxObj] /\ job["router"].m \in Matches
      /\ \A m \in Matches : active[m] <= created
  BY DEF TypeOK, Jobs, EndInv, ObjectsInv
<1>1. ASSUME NEW c \in Conns, NEW u \in Users, Login(c, u) PROVE FreshInv'
  BY <1>1 DEF Login, FreshInv, mapVars
<1>2. ASSUME NEW c \in Conns, Logout(c) PROVE FreshInv'
  BY <1>2 DEF Logout, FreshInv, mapVars
<1>3. ASSUME NEW c \in Conns, NEW m \in Matches, AcceptChallenge(c, m)
      PROVE  FreshInv'
  BY <1>3 DEF AcceptChallenge, FreshInv, mapVars
<1>4. ASSUME NEW c \in Conns, NEW m \in Matches, ShipPlacement(c, m)
      PROVE  FreshInv'
  BY <1>4 DEF ShipPlacement, FreshInv
<1>5. ASSUME NEW c \in Conns, NEW m \in Matches, MoveMiss(c, m) PROVE FreshInv'
  BY <1>t, <1>5 DEF MoveMiss, FreshInv, mapVars
<1>6. ASSUME NEW c \in Conns, NEW m \in Matches, MoveHit(c, m) PROVE FreshInv'
  <2>1. \A o \in Objects : o # active[m] => heap'[o] = heap[o]
    BY <1>t, <1>6 DEF MoveHit
  <2> QED
    BY <1>t, <1>6 DEF MoveHit, FreshInv, mapVars
<1>7. ASSUME NEW c \in Conns, NEW m \in Matches, Resign(c, m) PROVE FreshInv'
  BY <1>7 DEF Resign, FreshInv, mapVars
<1>8. ASSUME NEW c \in Conns, NEW m \in Matches, AcceptDraw(c, m)
      PROVE  FreshInv'
  BY <1>8 DEF AcceptDraw, FreshInv, mapVars
<1>9. CASE CheckReady
  BY <1>t, <1>9 DEF CheckReady, FreshInv, Objects
<1>10. CASE StartMatch
  <2>1. \A o \in Objects : o # active[job["router"].m] => heap'[o] = heap[o]
    BY <1>t, <1>10 DEF StartMatch
  <2>2. UNCHANGED created
    BY <1>10 DEF StartMatch, mapVars
  <2> QED
    BY <1>t, <2>1, <2>2 DEF FreshInv
<1>11. ASSUME NEW o \in Objects, TurnExpires(o) PROVE FreshInv'
  BY <1>t, <1>11 DEF TurnExpires, FreshInv, mapVars, Objects
<1>12. CASE TimerScan
  BY <1>12 DEF TimerScan, FreshInv, mapVars
<1>13. CASE TimerNext
  BY <1>13 DEF TimerNext, FreshInv, mapVars
<1>14. ASSUME NEW c \in Conns, Disconnect(c) PROVE FreshInv'
  BY <1>14 DEF Disconnect, FreshInv, mapVars
<1>15. ASSUME NEW c \in Conns, CleanupScan(c) PROVE FreshInv'
  BY <1>15 DEF CleanupScan, FreshInv, mapVars
<1>16. ASSUME NEW c \in Conns, CleanupNext(c) PROVE FreshInv'
  BY <1>16 DEF CleanupNext, FreshInv, mapVars
<1>17. ASSUME NEW c \in Conns, RemovePlayer(c) PROVE FreshInv'
  BY <1>17 DEF RemovePlayer, FreshInv, mapVars
<1>18. ASSUME NEW t \in Threads, Announce(t) PROVE FreshInv'
  BY <1>18 DEF Announce, FreshInv, mapVars
<1>19. ASSUME NEW t \in Threads, Record(t) PROVE FreshInv'
  BY <1>19 DEF Record, FreshInv, mapVars
<1>20. ASSUME NEW t \in Threads, Free(t) PROVE FreshInv'
  BY <1>20 DEF Free, FreshInv, mapVars
<1>21. ASSUME NEW t \in Threads, Erase(t) PROVE FreshInv'
  BY <1>21 DEF Erase, FreshInv
<1>22. ASSUME NEW t \in Threads, Unready(t) PROVE FreshInv'
  BY <1>22 DEF Unready, FreshInv
<1>23. CASE UNCHANGED vars
  BY <1>23 DEF vars, mapVars, FreshInv
<1> QED
  BY <1>1, <1>2, <1>3, <1>4, <1>5, <1>6, <1>7, <1>8, <1>9, <1>10, <1>11, <1>12,
     <1>13, <1>14, <1>15, <1>16, <1>17, <1>18, <1>19, <1>20, <1>21, <1>22,
     <1>23, NextCases

LEMMA StepCleanup == EndInv /\ CleanupInv /\ [Next]_vars => CleanupInv'
<1> SUFFICES ASSUME EndInv, CleanupInv, [Next]_vars PROVE CleanupInv'
  OBVIOUS
<1> USE ThreadFacts
<1>0. TypeOK
  BY DEF EndInv
<1>t. /\ todo \in [Threads -> SUBSET Matches]
      /\ user \in [Conns -> UserOrNobody]
      /\ link \in [Conns -> Links]
      /\ \A c \in Conns : pc[c] # "idle" => link[c] \in {"lost", "gone"}
  BY DEF TypeOK, Links, EndInv, LinkInv
<1>1. ASSUME NEW c \in Conns, NEW u \in Users, Login(c, u) PROVE CleanupInv'
  BY <1>t, <1>1 DEF Login, CleanupInv, Cleaning
<1>2. ASSUME NEW c \in Conns, Logout(c) PROVE CleanupInv'
  BY <1>2 DEF Logout, CleanupInv
<1>3. ASSUME NEW c \in Conns, NEW m \in Matches, AcceptChallenge(c, m)
      PROVE  CleanupInv'
  BY <1>3 DEF AcceptChallenge, CleanupInv, netVars
<1>4. ASSUME NEW c \in Conns, NEW m \in Matches, ShipPlacement(c, m)
      PROVE  CleanupInv'
  BY <1>0, <1>4, ShipPlacementMoves
     DEF ShipPlacement, CleanupInv, netVars, Takes, OnlyMoves
<1>5. ASSUME NEW c \in Conns, NEW m \in Matches, MoveMiss(c, m)
      PROVE  CleanupInv'
  BY <1>5 DEF MoveMiss, CleanupInv, netVars
<1>6. ASSUME NEW c \in Conns, NEW m \in Matches, MoveHit(c, m)
      PROVE  CleanupInv'
  <2>1. CASE RouterEnds(c, m, user[c], "normal")
    BY <1>0, <1>6, RouterMoves
       DEF MoveHit, netVars, CleanupInv, Takes, OnlyMoves
  <2>2. CASE UNCHANGED <<pc, job>>
    BY <1>6, <2>2 DEF MoveHit, netVars, CleanupInv
  <2> QED
    BY <2>1, <2>2, <1>6 DEF MoveHit
<1>7. ASSUME NEW c \in Conns, NEW m \in Matches, Resign(c, m) PROVE CleanupInv'
  BY <1>0, <1>7, RouterMoves DEF Resign, CleanupInv, netVars, Takes, OnlyMoves
<1>8. ASSUME NEW c \in Conns, NEW m \in Matches, AcceptDraw(c, m)
      PROVE  CleanupInv'
  BY <1>0, <1>8, RouterMoves
     DEF AcceptDraw, CleanupInv, netVars, Takes, OnlyMoves
<1>9. CASE CheckReady
  BY <1>0, <1>9, CheckReadyMoves
     DEF CheckReady, CleanupInv, netVars, Walks, Leaves, OnlyMoves
<1>10. CASE StartMatch
  BY <1>0, <1>10, StartMatchMoves
     DEF StartMatch, CleanupInv, netVars, Leaves, OnlyMoves
<1>11. ASSUME NEW o \in Objects, TurnExpires(o) PROVE CleanupInv'
  BY <1>11 DEF TurnExpires, CleanupInv, netVars
<1>12. CASE TimerScan
  BY <1>0, <1>12, TimerScanMoves
     DEF TimerScan, CleanupInv, netVars, Walks, OnlyMoves
<1>13. CASE TimerNext
  BY <1>0, <1>t, <1>13, TimerNextMoves
     DEF TimerNext, CleanupInv, netVars, Walks, Takes, OnlyMoves
<1>14. ASSUME NEW c \in Conns, Disconnect(c) PROVE CleanupInv'
  BY <1>0, <1>t, <1>14, DisconnectMoves
     DEF Disconnect, CleanupInv, Cleaning, Walks, OnlyMoves
<1>15. ASSUME NEW c \in Conns, CleanupScan(c) PROVE CleanupInv'
  BY <1>0, <1>15, CleanupScanMoves
     DEF CleanupScan, CleanupInv, Cleaning, netVars, Walks, OnlyMoves
<1>16. ASSUME NEW c \in Conns, CleanupNext(c) PROVE CleanupInv'
  <2>1. CASE UNCHANGED <<pc, job>>
    BY <1>16, <2>1 DEF CleanupNext, CleanupInv, netVars
  <2>2. CASE ~UNCHANGED <<pc, job>>
    <3>1. PICK m \in todo[c] :
            Takes(c, "record", JobOf(Nobody, m, Other(m, user[c]), "disconnect"))
      BY <1>0, <1>16, <2>2, CleanupNextMoves
    <3>2. pc'[c] = "record" /\ job'[c].m = m /\ OnlyMoves(c)
      BY <3>1 DEF Takes, JobOf
    <3>3. \A d \in Conns : todo'[d] \subseteq todo[d]
      BY <1>16 DEF CleanupNext
    <3>4. UNCHANGED user
      BY <1>16 DEF CleanupNext, netVars
    <3> QED
      BY <3>2, <3>3, <3>4 DEF CleanupInv, Cleaning, OnlyMoves
  <2> QED
    BY <2>1, <2>2
<1>17. ASSUME NEW c \in Conns, RemovePlayer(c) PROVE CleanupInv'
  BY <1>0, <1>17, RemovePlayerMoves
     DEF RemovePlayer, CleanupInv, Cleaning, Walks, OnlyMoves
<1>18. ASSUME NEW t \in Threads, Announce(t) PROVE CleanupInv'
  BY <1>0, <1>18, AnnounceMoves
     DEF Announce, CleanupInv, Cleaning, netVars, Walks, OnlyMoves
<1>19. ASSUME NEW t \in Threads, Record(t) PROVE CleanupInv'
  BY <1>0, <1>19, RecordMoves
     DEF Record, CleanupInv, Cleaning, netVars, Walks, OnlyMoves
<1>20. ASSUME NEW t \in Threads, Free(t) PROVE CleanupInv'
  BY <1>0, <1>20, FreeMoves
     DEF Free, CleanupInv, Cleaning, netVars, Walks, Leaves, OnlyMoves
<1>21. ASSUME NEW t \in Threads, Erase(t) PROVE CleanupInv'
  BY <1>0, <1>21, EraseMoves
     DEF Erase, CleanupInv, Cleaning, netVars, Walks, OnlyMoves
<1>22. ASSUME NEW t \in Threads, Unready(t) PROVE CleanupInv'
  BY <1>0, <1>22, UnreadyMoves
     DEF Unready, CleanupInv, Cleaning, netVars, Walks, Leaves, OnlyMoves
<1>23. CASE UNCHANGED vars
  BY <1>23 DEF vars, netVars, CleanupInv
<1> QED
  BY <1>1, <1>2, <1>3, <1>4, <1>5, <1>6, <1>7, <1>8, <1>9, <1>10, <1>11, <1>12,
     <1>13, <1>14, <1>15, <1>16, <1>17, <1>18, <1>19, <1>20, <1>21, <1>22,
     <1>23, NextCases

-----------------------------------------------------------------------------
(* Turns that run out are noted.                                           *)

\* Nothing is struck off the histories.
LEMMA PastStays ==
  ASSUME TypeOK, [Next]_vars
  PROVE  /\ \A m \in Matches : resigned[m] \subseteq resigned'[m]
         /\ overdue \subseteq overdue'
<1>1. CASE UNCHANGED past
  BY <1>1 DEF past
<1>2. ASSUME NEW c \in Conns, NEW m \in Matches, Resign(c, m)
      PROVE  /\ \A n \in Matches : resigned[n] \subseteq resigned'[n]
             /\ overdue \subseteq overdue'
  BY <1>2 DEF Resign, TypeOK
<1>3. ASSUME NEW o \in Objects, TurnExpires(o)
      PROVE  /\ \A n \in Matches : resigned[n] \subseteq resigned'[n]
             /\ overdue \subseteq overdue'
  BY <1>3 DEF TurnExpires
<1>4. ASSUME NEW c \in Conns, \/ \E u \in Users : Login(c, u)
                              \/ Logout(c) \/ Disconnect(c) \/ CleanupScan(c)
                              \/ CleanupNext(c) \/ RemovePlayer(c)
      PROVE  UNCHANGED past
  BY <1>4
     DEF Login, Logout, Disconnect, CleanupScan, CleanupNext, RemovePlayer
<1>5. ASSUME NEW c \in Conns, NEW m \in Matches,
             \/ AcceptChallenge(c, m) \/ ShipPlacement(c, m) \/ MoveMiss(c, m)
             \/ MoveHit(c, m) \/ AcceptDraw(c, m)
      PROVE  UNCHANGED past
  BY <1>5 DEF AcceptChallenge, ShipPlacement, MoveMiss, MoveHit, AcceptDraw
<1>6. CASE CheckReady \/ StartMatch \/ TimerScan \/ TimerNext \/ UNCHANGED vars
  BY <1>1, <1>6 DEF CheckReady, StartMatch, TimerScan, TimerNext, vars
<1>7. ASSUME NEW t \in Threads,
             Announce(t) \/ Record(t) \/ Free(t) \/ Erase(t) \/ Unready(t)
      PROVE  UNCHANGED past
  BY <1>7 DEF Announce, Record, Free, Erase, Unready
<1> QED
  BY <1>1, <1>2, <1>3, <1>4, <1>5, <1>6, <1>7, NextCases

\* No turn runs out but by TurnExpires, and the timer collects nothing else.
LEMMA KeepLate ==
  ASSUME LateInv, overdue \subseteq overdue',
         \A m \in Matches : TimedOut(m)' => TimedOut(m),
         todo'["timer"] \subseteq todo["timer"]
  PROVE  LateInv'
BY DEF LateInv

\* The objects of active matches stay as they are, or are no longer active.
LEMMA SameObjects ==
  ASSUME NEW m \in Matches, heap' = heap, active'[m] \in {active[m], NoObj}
  PROVE  TimedOut(m)' => TimedOut(m)
BY DEF TimedOut

LEMMA StepLate == EndInv /\ FreshInv /\ LateInv /\ [Next]_vars => LateInv'
<1> SUFFICES ASSUME EndInv, FreshInv, LateInv, [Next]_vars PROVE LateInv'
  OBVIOUS
<1> USE ThreadFacts
<1>0. TypeOK /\ RoomInv
  BY DEF EndInv
<1>t. /\ heap \in [Objects -> MatchStates] /\ created \in Nat
      /\ active \in [Matches -> 0..MaxObj] /\ job["router"].m \in Matches
      /\ todo \in [Threads -> SUBSET Matches]
  BY <1>0 DEF TypeOK, Jobs
<1>p. overdue \subseteq overdue'
  BY <1>0, PastStays
<1>1. CASE UNCHANGED <<heap, active, todo>>
  BY <1>1, <1>p, KeepLate DEF TimedOut
<1>2. ASSUME NEW c \in Conns,
             \/ \E u \in Users : Login(c, u)
             \/ Logout(c) \/ Disconnect(c) \/ RemovePlayer(c)
      PROVE  UNCHANGED <<heap, active, todo>>
  BY <1>2 DEF Login, Logout, Disconnect, RemovePlayer, mapVars
<1>3. ASSUME NEW c \in Conns, NEW m \in Matches,
             \/ AcceptChallenge(c, m) \/ ShipPlacement(c, m)
             \/ Resign(c, m) \/ AcceptDraw(c, m)
      PROVE  UNCHANGED <<heap, active, todo>>
  BY <1>3 DEF AcceptChallenge, ShipPlacement, Resign, AcceptDraw, mapVars
<1>4. ASSUME NEW c \in Conns, NEW m \in Matches, MoveMiss(c, m) PROVE LateInv'
  <2>1. heap' = [heap EXCEPT ![active[m]].turn = Other(m, @),
                             ![active[m]].late = FALSE]
        /\ UNCHANGED <<active, todo>>
    BY <1>4 DEF MoveMiss, mapVars
  <2>2. active[m] \in Objects
    BY <1>0, <1>4, RequestFacts DEF MoveMiss
  <2>3. \A o \in Objects : heap'[o].live = heap[o].live
                          /\ (heap'[o].late => heap[o].late)
    BY <1>t, <2>1, <2>2 DEF MatchStates
  <2>4. \A n \in Matches : active[n] = NoObj \/ active[n] \in Objects
    BY <1>t DEF Objects, NoObj
  <2> QED
    BY <1>p, <2>1, <2>3, <2>4, KeepLate DEF TimedOut
<1>5. ASSUME NEW c \in Conns, NEW m \in Matches, MoveHit(c, m) PROVE LateInv'
  <2> DEFINE w == Other(m, user[c])
  <2>1. /\ \/ heap' = [heap EXCEPT ![active[m]].afloat[w] = 0,
                                   ![active[m]].live = FALSE]
           \/ heap' = [heap EXCEPT ![active[m]].afloat[w] = @ - 1]
        /\ UNCHANGED <<active, todo>>
    BY <1>5 DEF MoveHit, mapVars
  <2>2. active[m] \in Objects
    BY <1>0, <1>5, RequestFacts DEF MoveHit
  <2>3. \A o \in Objects : heap'[o].late = heap[o].late
                          /\ (heap'[o].live => heap[o].live)
    BY <1>t, <2>1, <2>2 DEF MatchStates
  <2>4. \A n \in Matches : active[n] = NoObj \/ active[n] \in Objects
    BY <1>t DEF Objects, NoObj
  <2> QED
    BY <1>p, <2>1, <2>3, <2>4, KeepLate DEF TimedOut
<1>6. CASE CheckReady
  <2> DEFINE m == job["router"].m
  <2>1. CASE UNCHANGED active
    BY <1>1, <1>6, <2>1 DEF CheckReady
  <2>2. CASE active' = [active EXCEPT ![m] = created + 1]
    <3>1. created < MaxObj /\ MaxObj \in Nat
      BY <1>6, <1>0, ConstantsAssumption DEF RoomInv, CheckReady
    <3>2. created + 1 \in Objects /\ created + 1 > created
      BY <1>t, <3>1 DEF Objects
    <3>3. heap[created + 1] = Fresh
      BY <3>2 DEF FreshInv
    <3>4. UNCHANGED <<heap, todo>> /\ active'[m] = created + 1
      BY <1>6, <1>t, <2>2 DEF CheckReady
    <3>5. heap'[active'[m]].live = FALSE
      BY <3>3, <3>4 DEF Fresh
    <3>6. \A n \in Matches : TimedOut(n)' => TimedOut(n)
      BY <1>t, <2>2, <3>4, <3>5 DEF TimedOut
    <3> QED
      BY <1>p, <3>4, <3>6, KeepLate
  <2> QED
    BY <1>0, <1>6, <2>1, <2>2, CheckReadyMoves
<1>7. CASE StartMatch
  <2> DEFINE m == job["router"].m
  <2>1. UNCHANGED <<active, todo>>
    BY <1>7 DEF StartMatch, mapVars
  <2>2. CASE active[m] = NoObj
    BY <1>1, <1>7, <2>1, <2>2 DEF StartMatch
  <2>3. CASE active[m] # NoObj
    <3>1. PICK u : heap' = [heap EXCEPT ![active[m]] =
                              [Fresh EXCEPT !.live = TRUE, !.turn = u]]
      BY <1>7, <2>3 DEF StartMatch
    <3>2. active[m] \in Objects
      BY <1>t, <2>3 DEF Objects, NoObj
    <3>3. [Fresh EXCEPT !.live = TRUE, !.turn = u].late = FALSE
      BY DEF Fresh
    <3>4. ~heap'[active[m]].late
      BY <1>t, <3>1, <3>2, <3>3
    <3>5. \A o \in Objects : o # active[m] => heap'[o] = heap[o]
      BY <1>t, <3>1
    <3>6. \A n \in Matches : active[n] = NoObj \/ active[n] \in Objects
      BY <1>t DEF Objects, NoObj
    <3>7. \A n \in Matches : TimedOut(n)' => TimedOut(n)
      BY <2>1, <3>4, <3>5, <3>6 DEF TimedOut
    <3> QED
      BY <1>p, <2>1, <3>7, KeepLate
  <2> QED
    BY <2>2, <2>3
<1>8. ASSUME NEW o \in Objects, TurnExpires(o) PROVE LateInv'
  <2>1. /\ heap' = [heap EXCEPT ![o].late = TRUE] /\ UNCHANGED <<active, todo>>
        /\ overdue' = overdue \cup {m \in Matches : active[m] = o}
    BY <1>8 DEF TurnExpires, mapVars
  <2>2. ASSUME NEW m \in Matches, TimedOut(m)' PROVE m \in overdue'
    <3>1. CASE active[m] = o
      BY <2>1, <3>1
    <3>2. CASE active[m] # o
      <4>1. active[m] \in Objects
        BY <1>t, <2>1, <2>2 DEF TimedOut, Objects, NoObj
      <4>2. heap'[active[m]] = heap[active[m]]
        BY <1>t, <2>1, <3>2, <4>1
      <4>3. TimedOut(m)
        BY <2>1, <2>2, <4>2 DEF TimedOut
      <4> QED
        BY <1>p, <4>3 DEF LateInv
    <3> QED
      BY <3>1, <3>2
  <2> QED
    BY <1>p, <2>1, <2>2 DEF LateInv
<1>9. CASE TimerScan
  <2>1. UNCHANGED <<heap, active>> /\ todo'["timer"] = {m \in Matches : TimedOut(m)}
    BY <1>9, <1>t DEF TimerScan, mapVars
  <2> QED
    BY <1>p, <2>1 DEF LateInv, TimedOut
<1>10. CASE TimerNext
  <2>1. UNCHANGED <<heap, active>> /\ todo'["timer"] \subseteq todo["timer"]
    BY <1>10, <1>t DEF TimerNext, mapVars
  <2> QED
    BY <1>p, <2>1, KeepLate DEF TimedOut
<1>11. ASSUME NEW c \in Conns, CleanupScan(c) \/ CleanupNext(c) PROVE LateInv'
  <2>1. UNCHANGED <<heap, active>> /\ todo'["timer"] = todo["timer"]
    BY <1>11, <1>t, ConstantsAssumption DEF CleanupScan, CleanupNext, mapVars
  <2> QED
    BY <1>p, <2>1, KeepLate DEF TimedOut
<1>12. ASSUME NEW t \in Threads,
              Announce(t) \/ Record(t) \/ Free(t) \/ Erase(t) \/ Unready(t)
       PROVE  LateInv'
  <2>1. /\ UNCHANGED <<heap, todo>>
        /\ \A m \in Matches : active'[m] \in {active[m], NoObj}
    BY <1>12, <1>t DEF Announce, Record, Free, Erase, Unready, mapVars
  <2> QED
    BY <1>p, <2>1, SameObjects, KeepLate
<1>13. CASE UNCHANGED vars
  BY <1>1, <1>13 DEF vars, mapVars
<1> QED
  BY <1>1, <1>2, <1>3, <1>4, <1>5, <1>6, <1>7, <1>8, <1>9, <1>10, <1>11, <1>12,
     <1>13, NextCases

-----------------------------------------------------------------------------
(* Verdicts are justified.                                                 *)

\* Players are users, and the other player is the other one.
LEMMA PlayerFacts ==
  ASSUME NEW m \in Matches
  PROVE  /\ Nobody \notin Players(m)
         /\ \A u : Other(m, u) \in Players(m)
         /\ \A u \in Players(m) : Other(m, u) # u /\ Other(m, Other(m, u)) = u
BY ConstantsAssumption DEF Players, Other

\* A lost connection stays lost, and keeps its user.
LEMMA LinksStay ==
  ASSUME EndInv, [Next]_vars, NEW c \in Conns, link[c] \in {"lost", "gone"}
  PROVE  link'[c] \in {"lost", "gone"} /\ user'[c] = user[c]
<1> USE ThreadFacts
<1>0. /\ link \in [Conns -> Links] /\ user \in [Conns -> UserOrNobody]
  BY DEF EndInv, TypeOK
<1>1. ASSUME NEW d \in Conns, NEW u \in Users, Login(d, u)
      PROVE  link'[c] = link[c] /\ user'[c] = user[c]
  BY <1>1 DEF Login
<1>2. ASSUME NEW d \in Conns, Logout(d)
      PROVE  link'[c] = link[c] /\ user'[c] = user[c]
  BY <1>2 DEF Logout, Online
<1>3. ASSUME NEW d \in Conns, Disconnect(d) \/ RemovePlayer(d)
      PROVE  link'[c] \in {"lost", "gone"} /\ user'[c] = user[c]
  BY <1>0, <1>3 DEF Disconnect, RemovePlayer
<1>4. CASE UNCHANGED netVars
  BY <1>4 DEF netVars
<1>5. ASSUME NEW d \in Conns, NEW m \in Matches,
             \/ AcceptChallenge(d, m) \/ ShipPlacement(d, m) \/ MoveMiss(d, m)
             \/ MoveHit(d, m) \/ Resign(d, m) \/ AcceptDraw(d, m)
      PROVE  UNCHANGED netVars
  BY <1>5
     DEF AcceptChallenge, ShipPlacement, MoveMiss, MoveHit, Resign, AcceptDraw
<1>6. CASE CheckReady \/ StartMatch \/ TimerScan \/ TimerNext
  BY <1>4, <1>6 DEF CheckReady, StartMatch, TimerScan, TimerNext
<1>7. ASSUME NEW o \in Objects, TurnExpires(o) PROVE UNCHANGED netVars
  BY <1>7 DEF TurnExpires
<1>8. ASSUME NEW d \in Conns, CleanupScan(d) \/ CleanupNext(d)
      PROVE  UNCHANGED netVars
  BY <1>8 DEF CleanupScan, CleanupNext
<1>9. ASSUME NEW t \in Threads,
             Announce(t) \/ Record(t) \/ Free(t) \/ Erase(t) \/ Unready(t)
      PROVE  UNCHANGED netVars
  BY <1>9 DEF Announce, Record, Free, Erase, Unready
<1>10. CASE UNCHANGED vars
  BY <1>4, <1>10 DEF vars
<1> QED
  BY <1>1, <1>2, <1>3, <1>4, <1>5, <1>6, <1>7, <1>8, <1>9, <1>10, NextCases

\* The object of a normal end is not touched again.
Settled(o) ==
  /\ ~heap[o].live
  /\ \/ \E v \in told[o] : v.by = "router"
     \/ Before("router") /\ job["router"].o = o

LEMMA SettledStays ==
  ASSUME EndInv, [Next]_vars, NEW o \in Objects, Settled(o)
  PROVE  heap'[o] = heap[o]
<1> USE ThreadFacts
<1>0. /\ heap \in [Objects -> MatchStates] /\ active \in [Matches -> 0..MaxObj]
      /\ job["router"].m \in Matches
  BY DEF EndInv, TypeOK, Jobs
<1>1. ASSUME NEW c \in Conns, NEW m \in Matches, MoveMiss(c, m)
      PROVE  heap'[o] = heap[o]
  BY <1>0, <1>1 DEF MoveMiss, Settled
<1>2. ASSUME NEW c \in Conns, NEW m \in Matches, MoveHit(c, m)
      PROVE  heap'[o] = heap[o]
  BY <1>0, <1>2 DEF MoveHit, Settled
<1>3. ASSUME NEW p \in Objects, TurnExpires(p) PROVE heap'[o] = heap[o]
  BY <1>3 DEF TurnExpires, Settled
<1>4. CASE StartMatch
  <2>1. ~Before("router") /\ ~After("router")
    BY <1>4 DEF StartMatch, Before, After
  <2>2. active[job["router"].m] # o
    BY <1>0, <2>1 DEF Settled, EndInv, ToldInv
  <2> QED
    BY <1>0, <1>4, <2>2 DEF StartMatch
<1>5. CASE UNCHANGED heap
  BY <1>5
<1>6. ASSUME NEW c \in Conns, NEW m \in Matches,
             \/ AcceptChallenge(c, m) \/ ShipPlacement(c, m)
             \/ Resign(c, m) \/ AcceptDraw(c, m)
      PROVE  UNCHANGED heap
  BY <1>6 DEF AcceptChallenge, ShipPlacement, Resign, AcceptDraw
<1>7. ASSUME NEW c \in Conns, NEW u \in Users, Login(c, u) PROVE UNCHANGED heap
  BY <1>7 DEF Login
<1>8. ASSUME NEW c \in Conns, \/ Logout(c) \/ Disconnect(c) \/ CleanupScan(c)
                              \/ CleanupNext(c) \/ RemovePlayer(c)
      PROVE  UNCHANGED heap
  BY <1>8 DEF Logout, Disconnect, CleanupScan, CleanupNext, RemovePlayer
<1>9. ASSUME NEW t \in Threads,
             Announce(t) \/ Record(t) \/ Free(t) \/ Erase(t) \/ Unready(t)
      PROVE  UNCHANGED heap
  BY <1>9 DEF Announce, Record, Free, Erase, Unready
<1>10. CASE CheckReady \/ TimerScan \/ TimerNext \/ UNCHANGED vars
  BY <1>10 DEF CheckReady, TimerScan, TimerNext, vars
<1> QED
  BY <1>1, <1>2, <1>3, <1>4, <1>6, <1>7, <1>8, <1>9, <1>10, NextCases

\* A verdict that has been reached stays justified.
LEMMA JustifiedStays ==
  ASSUME EndInv, [Next]_vars, NEW o \in Objects, NEW v, Justified(o, v),
         \/ v \in told[o]
         \/ \E t \in Threads : Before(t) /\ job[t].o = o /\ v = VerdictOf(t)
  PROVE  /\ v.reason = "draw" <=> v.winner = Nobody
         /\ v.winner # Nobody => v.winner \in Players(v.m)
         /\ v.reason = "normal" => /\ v.by = "router"
                                   /\ heap'[o].afloat[Other(v.m, v.winner)] = 0
                                   /\ heap'[o].afloat[v.winner] > 0
                                   /\ ~heap'[o].live
         /\ v.reason = "disconnect" =>
              \E c \in Conns : /\ link'[c] \in {"lost", "gone"}
                               /\ user'[c] = Other(v.m, v.winner)
         /\ v.reason = "resign" =>
              \E u \in resigned'[v.m] : v.winner = Other(v.m, u)
         /\ v.reason = "timeout" => v.m \in overdue'
<1>1. v.reason = "normal" => Settled(o)
  BY DEF Justified, Settled, VerdictOf
<1>2. v.reason = "normal" => heap'[o] = heap[o]
  BY <1>1, SettledStays
<1>3. \A c \in Conns : link[c] \in {"lost", "gone"} =>
        link'[c] \in {"lost", "gone"} /\ user'[c] = user[c]
  BY LinksStay
<1>4. v.m \in Matches
  <2>1. told \in [Objects -> SUBSET Verdicts] /\ job \in [Threads -> Jobs]
    BY DEF EndInv, TypeOK
  <2> QED
    BY <2>1 DEF VerdictOf, Verdicts, Jobs
<1>5. resigned[v.m] \subseteq resigned'[v.m] /\ overdue \subseteq overdue'
  BY <1>4, PastStays DEF EndInv
<1> QED
  BY <1>2, <1>3, <1>5 DEF Justified

\* ... and so does that of a thread which keeps its job.
LEMMA SupportedStays ==
  ASSUME EndInv, VerdictInv, [Next]_vars, NEW t \in Threads, Before(t),
         job'[t] = job[t]
  PROVE  Supported(t)'
<1> PICK o \in Objects : o = job[t].o
  BY BusyObject
<1> PICK v : v = VerdictOf(t)
  OBVIOUS
<1>1. Justified(o, v)
  BY DEF VerdictInv, Supported
<1>2. job'[t].o = o /\ VerdictOf(t)' = v
  BY DEF VerdictOf
<1> QED
  BY <1>1, <1>2, JustifiedStays DEF Supported, Justified

LEMMA KeepVerdicts ==
  ASSUME EndInv, VerdictInv, [Next]_vars, NEW t \in Threads, OnlyMoves(t),
         UNCHANGED told,
         Before(t)' => Before(t) /\ job'[t] = job[t]
  PROVE  VerdictInv'
<1>1. ASSUME NEW o \in Objects, NEW v \in told[o] PROVE Justified(o, v)'
  BY JustifiedStays DEF VerdictInv, Justified
<1>2. ASSUME NEW u \in Threads, Before(u)' PROVE Supported(u)'
  <2>1. Before(u) /\ job'[u] = job[u]
    BY <1>2 DEF OnlyMoves, Before
  <2> QED
    BY <2>1, SupportedStays
<1> QED
  BY <1>1, <1>2 DEF VerdictInv

LEMMA StillVerdicts ==
  ASSUME EndInv, VerdictInv, [Next]_vars, UNCHANGED <<pc, job, told>>
  PROVE  VerdictInv'
BY KeepVerdicts, ThreadFacts DEF OnlyMoves, Before

\* A thread reaches a verdict.
LEMMA TakeVerdict ==
  ASSUME EndInv, VerdictInv, [Next]_vars, NEW t \in Threads, OnlyMoves(t),
         UNCHANGED told,
         Supported(t)'
  PROVE  VerdictInv'
<1>1. ASSUME NEW o \in Objects, NEW v \in told[o] PROVE Justified(o, v)'
  BY JustifiedStays DEF VerdictInv, Justified
<1>2. ASSUME NEW u \in Threads, u # t, Before(u)' PROVE Supported(u)'
  <2>1. Before(u) /\ job'[u] = job[u]
    BY <1>2 DEF OnlyMoves, Before
  <2> QED
    BY <2>1, SupportedStays
<1> QED
  BY <1>1, <1>2 DEF VerdictInv

LEMMA StepVerdicts ==
  EndInv /\ PlayInv /\ CleanupInv /\ LateInv /\ VerdictInv /\ [Next]_vars => VerdictInv'
<1> SUFFICES ASSUME EndInv, PlayInv, CleanupInv, LateInv, VerdictInv, [Next]_vars
             PROVE  VerdictInv'
  OBVIOUS
<1> USE ThreadFacts
<1>0. TypeOK
  BY DEF EndInv
<1>1. ASSUME NEW c \in Conns, NEW u \in Users, Login(c, u) PROVE VerdictInv'
  BY <1>1, StillVerdicts DEF Login
<1>2. ASSUME NEW c \in Conns, Logout(c) PROVE VerdictInv'
  BY <1>2, StillVerdicts DEF Logout
<1>3. ASSUME NEW c \in Conns, NEW m \in Matches, AcceptChallenge(c, m)
      PROVE  VerdictInv'
  BY <1>3, StillVerdicts DEF AcceptChallenge
<1>4. ASSUME NEW c \in Conns, NEW m \in Matches, ShipPlacement(c, m)
      PROVE  VerdictInv'
  BY <1>0, <1>4, ShipPlacementMoves, KeepVerdicts
     DEF ShipPlacement, Takes, Before
<1>5. ASSUME NEW c \in Conns, NEW m \in Matches, MoveMiss(c, m)
      PROVE  VerdictInv'
  BY <1>5, StillVerdicts DEF MoveMiss
<1>6. ASSUME NEW c \in Conns, NEW m \in Matches, MoveHit(c, m)
      PROVE  VerdictInv'
  <2> DEFINE o == active[m]
             w == Other(m, user[c])
  <2>1. CASE RouterEnds(c, m, user[c], "normal")
    <3>1. /\ job'["router"] = JobOf(c, m, user[c], "normal")
          /\ OnlyMoves("router")
      BY <1>0, <2>1, RouterMoves DEF Takes
    <3>2. /\ active[m] # NoObj /\ user[c] \in Players(m)
          /\ Playable(m)
      BY <1>6 DEF MoveHit, Request, PlayInv, Playable, Working
    <3>3. /\ heap'[o].afloat[w] = 0 /\ ~heap'[o].live
          /\ heap'[o].afloat[user[c]] = heap[o].afloat[user[c]]
      <4>1. /\ heap' = [heap EXCEPT ![o].afloat[w] = 0, ![o].live = FALSE]
        <5>1. pc["router"] = "idle" /\ pc'["router"] = "announce"
          BY <1>0, <1>6, <2>1, RouterMoves DEF MoveHit, Request, Takes
        <5> QED
          BY <1>6, <5>1 DEF MoveHit
      <4>2. heap \in [Objects -> MatchStates] /\ o \in Objects
        BY <1>0, <3>2 DEF TypeOK, Objects, NoObj
      <4>3. w \in Users /\ w # user[c]
        BY PlayerFacts, ConstantFacts
      <4> QED
        BY <4>1, <4>2, <4>3 DEF MatchStates
    <3>4. heap[o].afloat[user[c]] > 0
      BY <3>2 DEF Playable
    <3>5. UNCHANGED told
      BY <1>6 DEF MoveHit
    <3>6. Supported("router")'
      BY <3>1, <3>2, <3>3, <3>4, PlayerFacts
         DEF Supported, Justified, VerdictOf, JobOf
    <3> QED
      BY <3>1, <3>5, <3>6, TakeVerdict
  <2>2. CASE UNCHANGED <<pc, job>>
    BY <1>6, <2>2, StillVerdicts DEF MoveHit
  <2> QED
    BY <1>6, <2>1, <2>2 DEF MoveHit
<1>7. ASSUME NEW c \in Conns, NEW m \in Matches, Resign(c, m) PROVE VerdictInv'
  <2>1. Takes("router", "announce", JobOf(c, m, Other(m, user[c]), "resign"))
    BY <1>0, <1>7, RouterMoves DEF Resign
  <2>2. user[c] \in resigned'[m]
    BY <1>0, <1>7 DEF Resign, TypeOK
  <2>3. Supported("router")'
    BY <2>1, <2>2, PlayerFacts DEF Takes, Supported, Justified, VerdictOf, JobOf
  <2> QED
    BY <2>1, <2>3, <1>7, TakeVerdict DEF Resign, Takes
<1>8. ASSUME NEW c \in Conns, NEW m \in Matches, AcceptDraw(c, m)
      PROVE  VerdictInv'
  <2>1. Takes("router", "announce", JobOf(c, m, Nobody, "draw"))
    BY <1>0, <1>8, RouterMoves DEF AcceptDraw
  <2> QED
    BY <2>1, <1>8, TakeVerdict
       DEF AcceptDraw, Takes, Supported, Justified, VerdictOf, JobOf
<1>9. CASE CheckReady
  BY <1>0, <1>9, CheckReadyMoves, KeepVerdicts
     DEF CheckReady, Walks, Leaves, Before
<1>10. CASE StartMatch
  BY <1>0, <1>10, StartMatchMoves, KeepVerdicts DEF StartMatch, Leaves, Before
<1>11. ASSUME NEW o \in Objects, TurnExpires(o) PROVE VerdictInv'
  BY <1>11, StillVerdicts DEF TurnExpires
<1>12. CASE TimerScan
  BY <1>0, <1>12, TimerScanMoves, KeepVerdicts DEF TimerScan, Walks, Before
<1>13. CASE TimerNext
  <2>1. UNCHANGED told
    BY <1>13 DEF TimerNext
  <2>2. CASE Walks("timer", "idle") \/ Walks("timer", "next")
    BY <2>1, <2>2, KeepVerdicts DEF Walks, Before
  <2>3. ASSUME NEW m \in Matches \cap todo["timer"],
               Takes("timer", "announce",
                     JobOf(Nobody, m, Other(m, heap[active[m]].turn), "timeout"))
        PROVE  VerdictInv'
    <3>1. m \in overdue'
      BY <1>0, PastStays DEF LateInv
    <3>2. Supported("timer")'
      BY <2>3, <3>1, PlayerFacts
         DEF Takes, Supported, Justified, VerdictOf, JobOf
    <3> QED
      BY <2>1, <2>3, <3>2, TakeVerdict DEF Takes
  <2> QED
    BY <1>0, <1>13, <2>2, <2>3, TimerNextMoves
<1>14. ASSUME NEW c \in Conns, Disconnect(c) PROVE VerdictInv'
  BY <1>0, <1>14, DisconnectMoves, KeepVerdicts DEF Disconnect, Walks, Before
<1>15. ASSUME NEW c \in Conns, CleanupScan(c) PROVE VerdictInv'
  BY <1>0, <1>15, CleanupScanMoves, KeepVerdicts DEF CleanupScan, Walks, Before
<1>16. ASSUME NEW c \in Conns, CleanupNext(c) PROVE VerdictInv'
  <2>1. UNCHANGED told
    BY <1>16 DEF CleanupNext
  <2>2. CASE UNCHANGED <<pc, job>>
    BY <2>1, <2>2, StillVerdicts
  <2>3. ASSUME NEW m \in todo[c], m \in Matches,
               Takes(c, "record", JobOf(Nobody, m, Other(m, user[c]), "disconnect"))
        PROVE  VerdictInv'
    <3>1. link[c] \in {"lost", "gone"}
      BY <1>16 DEF CleanupNext, EndInv, LinkInv, TypeOK, Links
    <3>2. user[c] \in Players(m) /\ UNCHANGED netVars
      BY <1>16 DEF CleanupNext, CleanupInv
    <3>3. Supported(c)'
      BY <2>3, <3>1, <3>2, PlayerFacts
         DEF Takes, Supported, Justified, VerdictOf, JobOf, netVars
    <3> QED
      BY <2>1, <2>3, <3>3, TakeVerdict DEF Takes
  <2> QED
    BY <1>0, <1>16, <2>2, <2>3, CleanupNextMoves
<1>17. ASSUME NEW c \in Conns, RemovePlayer(c) PROVE VerdictInv'
  BY <1>0, <1>17, RemovePlayerMoves, KeepVerdicts
     DEF RemovePlayer, Walks, Before
<1>18. ASSUME NEW t \in Threads, Announce(t) PROVE VerdictInv'
  <2>1. /\ told' = [told EXCEPT ![job[t].o] = @ \cup {VerdictOf(t)}]
        /\ told \in [Objects -> SUBSET Verdicts]
        /\ Before(t)
    BY <1>0, <1>18 DEF Announce, VerdictOf, Before, TypeOK
  <2>2. job[t].o \in Objects /\ Justified(job[t].o, VerdictOf(t))
    BY <2>1, BusyObject DEF VerdictInv, Supported
  <2>3. ASSUME NEW o \in Objects, NEW v \in told'[o] PROVE Justified(o, v)'
    <3>1. CASE v \in told[o]
      BY <3>1, JustifiedStays DEF VerdictInv, Justified
    <3>2. CASE v \notin told[o]
      <4>1. o = job[t].o /\ v = VerdictOf(t)
        BY <2>1, <3>2
      <4> QED
        BY <2>1, <2>2, <4>1, JustifiedStays DEF Justified
    <3> QED
      BY <3>1, <3>2
  <2>4. Walks(t, IF t \in Conns THEN "erase" ELSE "record")
    BY <1>0, <1>18, AnnounceMoves
  <2>5. ASSUME NEW u \in Threads, Before(u)'
        PROVE  Supported(u)'
    <3>1. Before(u) /\ job'[u] = job[u]
      BY <2>4, <2>5 DEF Walks, OnlyMoves, Before
    <3> QED
      BY <3>1, SupportedStays
  <2> QED
    BY <2>3, <2>5 DEF VerdictInv
<1>19. ASSUME NEW t \in Threads, Record(t) PROVE VerdictInv'
  BY <1>0, <1>19, RecordMoves, KeepVerdicts DEF Record, Walks, Before
<1>20. ASSUME NEW t \in Threads, Free(t) PROVE VerdictInv'
  BY <1>0, <1>20, FreeMoves, KeepVerdicts DEF Free, Walks, Leaves, Before
<1>21. ASSUME NEW t \in Threads, Erase(t) PROVE VerdictInv'
  BY <1>0, <1>21, EraseMoves, KeepVerdicts DEF Erase, Walks, Before
<1>22. ASSUME NEW t \in Threads, Unready(t) PROVE VerdictInv'
  BY <1>0, <1>22, UnreadyMoves, KeepVerdicts DEF Unready, Walks, Leaves, Before
<1>23. CASE UNCHANGED vars
  BY <1>23, StillVerdicts DEF vars
<1> QED
  BY <1>1, <1>2, <1>3, <1>4, <1>5, <1>6, <1>7, <1>8, <1>9, <1>10, <1>11, <1>12,
     <1>13, <1>14, <1>15, <1>16, <1>17, <1>18, <1>19, <1>20, <1>21, <1>22,
     <1>23, NextCases

-----------------------------------------------------------------------------
(* The winner that is recorded.                                            *)

\* What RecordedWinnerAnnounced says of one match.
Backed(m) ==
  \/ \E o \in Objects : \E v \in told[o] : v.m = m /\ v.winner = row[m].winner
  \/ \E c \in Conns : /\ pc[c] = "announce" /\ job[c].m = m
                      /\ job[c].winner = row[m].winner

RecordedInv == \A m \in Matches : row[m].status = "completed" => Backed(m)

\* Verdicts are never taken back.
LEMMA ToldStays ==
  ASSUME EndInv, [Next]_vars, NEW o \in Objects
  PROVE  told[o] \subseteq told'[o]
<1>1. told \in [Objects -> SUBSET Verdicts]
  BY DEF EndInv, TypeOK
<1>2. ASSUME NEW t \in Threads, Announce(t) PROVE told[o] \subseteq told'[o]
  BY <1>2 DEF Announce
<1>3. (\A t \in Threads : ~Announce(t)) => UNCHANGED told
  <2> SUFFICES ASSUME \A t \in Threads : ~Announce(t) PROVE UNCHANGED told
    OBVIOUS
  <2>1. ASSUME NEW c \in Conns, NEW u \in Users, Login(c, u)
        PROVE  UNCHANGED told
    BY <2>1 DEF Login
  <2>2. ASSUME NEW c \in Conns, NEW m \in Matches,
               \/ AcceptChallenge(c, m) \/ ShipPlacement(c, m) \/ MoveMiss(c, m)
               \/ MoveHit(c, m) \/ Resign(c, m) \/ AcceptDraw(c, m)
        PROVE  UNCHANGED told
    BY <2>2
       DEF AcceptChallenge, ShipPlacement, MoveMiss, MoveHit, Resign,
           AcceptDraw
  <2>3. ASSUME NEW c \in Conns, \/ Logout(c) \/ Disconnect(c) \/ CleanupScan(c)
                                \/ CleanupNext(c) \/ RemovePlayer(c)
        PROVE  UNCHANGED told
    BY <2>3 DEF Logout, Disconnect, CleanupScan, CleanupNext, RemovePlayer
  <2>4. ASSUME NEW t \in Threads,
               Record(t) \/ Free(t) \/ Erase(t) \/ Unready(t)
        PROVE  UNCHANGED told
    BY <2>4 DEF Record, Free, Erase, Unready
  <2>5. ASSUME NEW p \in Objects, TurnExpires(p) PROVE UNCHANGED told
    BY <2>5 DEF TurnExpires
  <2>6. CASE CheckReady \/ StartMatch \/ TimerScan \/ TimerNext \/ UNCHANGED vars
    BY <2>6 DEF CheckReady, StartMatch, TimerScan, TimerNext, vars
  <2> QED
    BY <2>1, <2>2, <2>3, <2>4, <2>5, <2>6, NextCases
<1> QED
  BY <1>2, <1>3

\* A step other than an announcement backs a row that it does not complete.
LEMMA KeepBacked ==
  ASSUME EndInv, [Next]_vars, NEW m \in Matches, Backed(m), UNCHANGED row,
         \A c \in Conns : pc[c] = "announce" => pc'[c] = "announce" /\ job'[c] = job[c]
  PROVE  Backed(m)'
<1>1. \A o \in Objects : told[o] \subseteq told'[o]
  BY ToldStays
<1> QED
  BY <1>1 DEF Backed

LEMMA KeepRecorded ==
  ASSUME EndInv, RecordedInv, [Next]_vars, NEW t \in Threads, OnlyMoves(t),
         t \in Conns => pc[t] # "announce", UNCHANGED row
  PROVE  RecordedInv'
BY KeepBacked, ThreadFacts DEF OnlyMoves, RecordedInv

LEMMA StillRecorded ==
  ASSUME EndInv, RecordedInv, [Next]_vars, UNCHANGED <<pc, job>>,
         \A m \in Matches : row'[m].status = "completed" => row'[m] = row[m]
  PROVE  RecordedInv'
<1>1. \A o \in Objects : told[o] \subseteq told'[o]
  BY ToldStays
<1>2. ASSUME NEW m \in Matches, Backed(m), row'[m] = row[m] PROVE Backed(m)'
  BY <1>1, <1>2 DEF Backed
<1> QED
  BY <1>2 DEF RecordedInv

LEMMA StepRecorded == EndInv /\ AnnouncedInv /\ RecordedInv /\ [Next]_vars => RecordedInv'
<1> SUFFICES ASSUME EndInv, AnnouncedInv, RecordedInv, [Next]_vars
             PROVE  RecordedInv'
  OBVIOUS
<1> USE ThreadFacts
<1>0. TypeOK
  BY DEF EndInv
<1>1. ASSUME NEW c \in Conns, NEW u \in Users, Login(c, u) PROVE RecordedInv'
  BY <1>1, StillRecorded DEF Login, dbVars
<1>2. ASSUME NEW c \in Conns, Logout(c) PROVE RecordedInv'
  BY <1>2, StillRecorded DEF Logout, dbVars
<1>3. ASSUME NEW c \in Conns, NEW m \in Matches, AcceptChallenge(c, m)
      PROVE  RecordedInv'
  <2>1. row \in [Matches -> Rows]
    BY <1>0 DEF TypeOK
  <2>2. \A n \in Matches : row'[n].status = "completed" => row'[n] = row[n]
    BY <1>3 DEF AcceptChallenge
  <2> QED
    BY <1>3, StillRecorded DEF AcceptChallenge
<1>4. ASSUME NEW c \in Conns, NEW m \in Matches, ShipPlacement(c, m)
      PROVE  RecordedInv'
  BY <1>0, <1>4, ShipPlacementMoves, KeepRecorded DEF ShipPlacement, Takes
<1>5. ASSUME NEW c \in Conns, NEW m \in Matches, MoveMiss(c, m)
      PROVE  RecordedInv'
  BY <1>5, StillRecorded DEF MoveMiss, dbVars
<1>6. ASSUME NEW c \in Conns, NEW m \in Matches, MoveHit(c, m)
      PROVE  RecordedInv'
  <2>1. pc["router"] = "idle" /\ UNCHANGED row
    BY <1>6 DEF MoveHit, Request, dbVars
  <2>2. CASE RouterEnds(c, m, user[c], "normal")
    BY <1>0, <2>1, <2>2, RouterMoves, KeepRecorded DEF Takes
  <2>3. CASE UNCHANGED <<pc, job>>
    BY <2>1, <2>3, StillRecorded
  <2> QED
    BY <1>6, <2>2, <2>3 DEF MoveHit
<1>7. ASSUME NEW c \in Conns, NEW m \in Matches, Resign(c, m)
      PROVE  RecordedInv'
  BY <1>0, <1>7, RouterMoves, KeepRecorded DEF Resign, Takes, dbVars
<1>8. ASSUME NEW c \in Conns, NEW m \in Matches, AcceptDraw(c, m)
      PROVE  RecordedInv'
  BY <1>0, <1>8, RouterMoves, KeepRecorded DEF AcceptDraw, Takes, dbVars
<1>9. CASE CheckReady
  BY <1>0, <1>9, CheckReadyMoves, KeepRecorded
     DEF CheckReady, Walks, Leaves, dbVars
<1>10. CASE StartMatch
  BY <1>0, <1>10, StartMatchMoves, KeepRecorded DEF StartMatch, Leaves, dbVars
<1>11. ASSUME NEW o \in Objects, TurnExpires(o) PROVE RecordedInv'
  BY <1>11, StillRecorded DEF TurnExpires, dbVars
<1>12. CASE TimerScan
  BY <1>0, <1>12, TimerScanMoves, KeepRecorded DEF TimerScan, Walks, dbVars
<1>13. CASE TimerNext
  BY <1>0, <1>13, TimerNextMoves, KeepRecorded
     DEF TimerNext, Walks, Takes, dbVars
<1>14. ASSUME NEW c \in Conns, Disconnect(c) PROVE RecordedInv'
  <2>1. pc[c] = "idle"
    BY <1>14 DEF Disconnect, EndInv, LinkInv
  <2> QED
    BY <1>0, <2>1, <1>14, DisconnectMoves, KeepRecorded
       DEF Disconnect, Walks, dbVars
<1>15. ASSUME NEW c \in Conns, CleanupScan(c) PROVE RecordedInv'
  BY <1>0, <1>15, CleanupScanMoves, KeepRecorded DEF CleanupScan, Walks, dbVars
<1>16. ASSUME NEW c \in Conns, CleanupNext(c) PROVE RecordedInv'
  <2>1. pc[c] = "next" /\ UNCHANGED row
    BY <1>16 DEF CleanupNext, dbVars
  <2>2. CASE UNCHANGED <<pc, job>>
    BY <2>1, <2>2, StillRecorded
  <2>3. CASE ~UNCHANGED <<pc, job>>
    BY <1>0, <1>16, <2>1, <2>3, CleanupNextMoves, KeepRecorded DEF Takes
  <2> QED
    BY <2>2, <2>3
<1>17. ASSUME NEW c \in Conns, RemovePlayer(c) PROVE RecordedInv'
  BY <1>0, <1>17, RemovePlayerMoves, KeepRecorded
     DEF RemovePlayer, Walks, dbVars
<1>18. ASSUME NEW t \in Threads, Announce(t) PROVE RecordedInv'
  <2>1. /\ told' = [told EXCEPT ![job[t].o] = @ \cup {VerdictOf(t)}]
        /\ told \in [Objects -> SUBSET Verdicts]
        /\ Before(t) /\ UNCHANGED row
    BY <1>0, <1>18 DEF Announce, VerdictOf, Before, TypeOK, dbVars
  <2>2. job[t].o \in Objects
    BY <2>1, BusyObject
  <2>3. VerdictOf(t) \in told'[job[t].o]
    BY <2>1, <2>2
  <2>4. OnlyMoves(t)
    BY <1>0, <1>18, AnnounceMoves DEF Walks
  <2> SUFFICES ASSUME NEW m \in Matches, row[m].status = "completed"
               PROVE  Backed(m)'
    BY <2>1 DEF RecordedInv
  <2>5. Backed(m)
    BY DEF RecordedInv
  <2>6. CASE t \in Conns /\ pc[t] = "announce" /\ job[t].m = m
               /\ job[t].winner = row[m].winner
    <3>1. VerdictOf(t).m = m /\ VerdictOf(t).winner = row'[m].winner
      BY <2>1, <2>6 DEF VerdictOf
    <3> QED
      BY <2>2, <2>3, <3>1 DEF Backed
  <2>7. CASE ~(t \in Conns /\ pc[t] = "announce" /\ job[t].m = m
                 /\ job[t].winner = row[m].winner)
    <3>1. \A o \in Objects : told[o] \subseteq told'[o]
      BY ToldStays
    <3> QED
      BY <2>1, <2>4, <2>5, <2>7 DEF Backed, OnlyMoves
  <2> QED
    BY <2>6, <2>7
<1>19. ASSUME NEW t \in Threads, Record(t) PROVE RecordedInv'
  <2>1. /\ row \in [Matches -> Rows] /\ job[t].m \in Matches
        /\ pc[t] = "record"
    BY <1>0, <1>19 DEF TypeOK, Jobs, Record
  <2>2. Walks(t, IF t \in Conns THEN "announce" ELSE "free")
    BY <1>0, <1>19, RecordMoves
  <2>3. \A o \in Objects : told[o] \subseteq told'[o]
    BY ToldStays
  <2> SUFFICES ASSUME NEW m \in Matches, row'[m].status = "completed"
               PROVE  Backed(m)'
    BY DEF RecordedInv
  <2>4. CASE row'[m] = row[m]
    BY <2>2, <2>3, <2>4 DEF RecordedInv, Backed, Walks, OnlyMoves
  <2>5. CASE row'[m] # row[m]
    <3>1. m = job[t].m /\ row'[m].winner = job[t].winner
      BY <2>5, <1>19 DEF Record
    <3>2. CASE t \in Conns
      BY <2>2, <3>1, <3>2 DEF Walks, Backed
    <3>3. CASE t \notin Conns
      <4>1. After(t)
        BY <2>1, <3>3 DEF After
      <4>2. job[t].o \in Objects /\ VerdictOf(t) \in told'[job[t].o]
        BY <4>1, <2>3, BusyObject DEF AnnouncedInv
      <4>3. VerdictOf(t).m = m /\ VerdictOf(t).winner = row'[m].winner
        BY <3>1 DEF VerdictOf
      <4> QED
        BY <4>2, <4>3 DEF Backed
    <3> QED
      BY <3>2, <3>3
  <2> QED
    BY <2>4, <2>5
<1>20. ASSUME NEW t \in Threads, Free(t) PROVE RecordedInv'
  BY <1>0, <1>20, FreeMoves, KeepRecorded DEF Free, Walks, Leaves, dbVars
<1>21. ASSUME NEW t \in Threads, Erase(t) PROVE RecordedInv'
  BY <1>0, <1>21, EraseMoves, KeepRecorded DEF Erase, Walks, dbVars
<1>22. ASSUME NEW t \in Threads, Unready(t) PROVE RecordedInv'
  BY <1>0, <1>22, UnreadyMoves, KeepRecorded DEF Unready, Walks, Leaves, dbVars
<1>23. CASE UNCHANGED vars
  BY <1>23, StillRecorded DEF vars, dbVars
<1> QED
  BY <1>1, <1>2, <1>3, <1>4, <1>5, <1>6, <1>7, <1>8, <1>9, <1>10, <1>11, <1>12,
     <1>13, <1>14, <1>15, <1>16, <1>17, <1>18, <1>19, <1>20, <1>21, <1>22,
     <1>23, NextCases

-----------------------------------------------------------------------------
(* Players become free.                                                    *)

LEMMA KeepEngaged ==
  ASSUME NEW u, Engaged(u), NEW t \in Threads, OnlyMoves(t),
         UNCHANGED <<row, user>>,
         t \notin Conns => pc[t] # "free" \/ u \notin Players(job[t].m),
         t \in Conns => /\ pc[t] \in {"announce", "erase", "unready", "free"} /\ u \in Players(job[t].m) =>
                             \/ pc'[t] \in {"announce", "erase", "unready", "free"} /\ job'[t] = job[t]
                             \/ user[t] = u /\ pc'[t] \in Cleaning
                        /\ pc[t] \in Cleaning /\ user[t] = u => pc'[t] \in Cleaning
  PROVE  Engaged(u)'
BY ThreadFacts DEF Engaged, OnlyMoves, Cleaning

LEMMA StillEngaged ==
  ASSUME NEW u, Engaged(u), UNCHANGED <<row, user, pc, job>>
  PROVE  Engaged(u)'
BY DEF Engaged

LEMMA StepFreed == EndInv /\ CleanupInv /\ FreedInv /\ [Next]_vars => FreedInv'
<1> SUFFICES ASSUME EndInv, CleanupInv, FreedInv, [Next]_vars PROVE FreedInv'
  OBVIOUS
<1> USE ThreadFacts
<1>0. TypeOK
  BY DEF EndInv
<1>t. /\ status \in [Users -> Statuses] /\ row \in [Matches -> Rows]
      /\ user \in [Conns -> UserOrNobody] /\ job \in [Threads -> Jobs]
      /\ \A t \in Threads : job[t].m \in Matches
  BY <1>0 DEF TypeOK, Jobs
<1>k. ASSUME NEW t \in Threads, OnlyMoves(t), UNCHANGED <<row, user, status>>,
             t \notin Conns => pc[t] # "free",
             t \in Conns =>
               /\ pc[t] \in Cleaning => pc'[t] \in Cleaning
               /\ pc[t] \in {"announce", "erase", "unready", "free"} =>
                    /\ pc'[t] \in {"announce", "erase", "unready", "free"}
                    /\ job'[t] = job[t]
      PROVE  FreedInv'
  BY <1>k, KeepEngaged DEF FreedInv
<1>s. ASSUME UNCHANGED <<pc, job, row, user, status>> PROVE FreedInv'
  BY <1>s, StillEngaged DEF FreedInv
<1>1. ASSUME NEW c \in Conns, NEW u \in Users, Login(c, u) PROVE FreedInv'
  <2>1. pc[c] = "idle" /\ UNCHANGED <<pc, job, row>>
    BY <1>1 DEF Login, EndInv, LinkInv, dbVars
  <2>2. \A d \in Conns : pc[d] # "idle" => user'[d] = user[d]
    BY <2>1, <1>1 DEF Login
  <2>3. \A w \in Users : status'[w] = "IN_GAME" => status[w] = "IN_GAME"
    BY <1>1 DEF Login
  <2> QED
    BY <2>1, <2>2, <2>3 DEF FreedInv, Engaged, Cleaning
<1>2. ASSUME NEW c \in Conns, Logout(c) PROVE FreedInv'
  <2>1. \A u \in Users : status'[u] = "IN_GAME" => status[u] = "IN_GAME"
    BY <1>2 DEF Logout
  <2> QED
    BY <1>2, StillEngaged DEF Logout, FreedInv, dbVars
<1>3. ASSUME NEW c \in Conns, NEW m \in Matches, AcceptChallenge(c, m)
      PROVE  FreedInv'
  <2>1. \A w \in Users : status'[w] = "IN_GAME" =>
          status[w] = "IN_GAME" \/ w \in Players(m)
    BY <1>3 DEF AcceptChallenge, WithStatus
  <2>2. row'[m].status = "waiting" /\ \A n \in Matches \ {m} : row'[n] = row[n]
    BY <1>t, <1>3 DEF AcceptChallenge
  <2>3. UNCHANGED <<pc, job, user>>
    BY <1>3 DEF AcceptChallenge, netVars
  <2> QED
    BY <2>1, <2>2, <2>3 DEF FreedInv, Engaged
<1>4. ASSUME NEW c \in Conns, NEW m \in Matches, ShipPlacement(c, m)
      PROVE  FreedInv'
  BY <1>0, <1>4, ShipPlacementMoves, <1>k DEF ShipPlacement, Takes, netVars
<1>5. ASSUME NEW c \in Conns, NEW m \in Matches, MoveMiss(c, m) PROVE FreedInv'
  BY <1>5, <1>s DEF MoveMiss, dbVars, netVars
<1>6. ASSUME NEW c \in Conns, NEW m \in Matches, MoveHit(c, m) PROVE FreedInv'
  <2>1. pc["router"] = "idle" /\ UNCHANGED <<row, user, status>>
    BY <1>6 DEF MoveHit, Request, dbVars, netVars
  <2>2. CASE RouterEnds(c, m, user[c], "normal")
    BY <1>0, <1>k, <2>1, <2>2, RouterMoves DEF Takes
  <2>3. CASE UNCHANGED <<pc, job>>
    BY <2>1, <2>3, <1>s
  <2> QED
    BY <1>6, <2>2, <2>3 DEF MoveHit
<1>7. ASSUME NEW c \in Conns, NEW m \in Matches, Resign(c, m) PROVE FreedInv'
  BY <1>0, <1>7, RouterMoves, <1>k DEF Resign, Takes, dbVars, netVars, Request
<1>8. ASSUME NEW c \in Conns, NEW m \in Matches, AcceptDraw(c, m)
      PROVE  FreedInv'
  BY <1>0, <1>8, RouterMoves, <1>k
     DEF AcceptDraw, Takes, dbVars, netVars, Request
<1>9. CASE CheckReady
  BY <1>0, <1>9, CheckReadyMoves, <1>k
     DEF CheckReady, Walks, Leaves, dbVars, netVars
<1>10. CASE StartMatch
  BY <1>0, <1>10, StartMatchMoves, <1>k DEF StartMatch, Leaves, dbVars, netVars
<1>11. ASSUME NEW o \in Objects, TurnExpires(o) PROVE FreedInv'
  BY <1>11, <1>s DEF TurnExpires, dbVars, netVars
<1>12. CASE TimerScan
  BY <1>0, <1>12, TimerScanMoves, <1>k DEF TimerScan, Walks, dbVars, netVars
<1>13. CASE TimerNext
  BY <1>0, <1>13, TimerNextMoves, <1>k
     DEF TimerNext, Walks, Takes, dbVars, netVars
<1>14. ASSUME NEW c \in Conns, Disconnect(c) PROVE FreedInv'
  <2>1. pc[c] = "idle"
    BY <1>14 DEF Disconnect, EndInv, LinkInv
  <2> QED
    BY <1>0, <2>1, <1>14, DisconnectMoves, <1>k
       DEF Disconnect, Walks, Cleaning, dbVars
<1>15. ASSUME NEW c \in Conns, CleanupScan(c) PROVE FreedInv'
  BY <1>0, <1>15, CleanupScanMoves, <1>k
     DEF CleanupScan, Walks, Cleaning, dbVars, netVars
<1>16. ASSUME NEW c \in Conns, CleanupNext(c) PROVE FreedInv'
  <2>1. pc[c] = "next" /\ UNCHANGED <<row, user, status>>
    BY <1>16 DEF CleanupNext, dbVars, netVars
  <2>2. CASE UNCHANGED <<pc, job>>
    BY <2>1, <2>2, <1>s
  <2>3. CASE ~UNCHANGED <<pc, job>>
    BY <1>0, <1>16, <2>1, <2>3, <1>k, CleanupNextMoves DEF Takes, Cleaning
  <2> QED
    BY <2>2, <2>3
<1>17. ASSUME NEW c \in Conns, RemovePlayer(c) PROVE FreedInv'
  <2>1. /\ pc[c] = "next" /\ UNCHANGED <<row, user>>
        /\ status' = [status EXCEPT ![user[c]] = "OFFLINE"]
    BY <1>17 DEF RemovePlayer, dbVars
  <2>2. Walks(c, "idle")
    BY <1>0, <1>17, RemovePlayerMoves
  <2>3. ASSUME NEW u \in Users, status'[u] = "IN_GAME" PROVE Engaged(u)'
    <3>1. u # user[c] /\ status[u] = "IN_GAME"
      BY <1>t, <2>1, <2>3
    <3> QED
      BY <2>1, <2>2, <3>1, KeepEngaged DEF FreedInv, Walks
  <2> QED
    BY <2>3 DEF FreedInv
<1>18. ASSUME NEW t \in Threads, Announce(t) PROVE FreedInv'
  BY <1>0, <1>18, AnnounceMoves, <1>k
     DEF Announce, Walks, Cleaning, dbVars, netVars
<1>19. ASSUME NEW t \in Threads, Record(t) PROVE FreedInv'
  <2>1. Walks(t, IF t \in Conns THEN "announce" ELSE "free")
    BY <1>0, <1>19, RecordMoves
  <2>2. /\ pc[t] = "record" /\ UNCHANGED <<user, status>>
        /\ \A n \in Matches \ {job[t].m} : row'[n] = row[n]
    BY <1>19 DEF Record, netVars
  <2>3. ASSUME NEW u \in Users, Engaged(u) PROVE Engaged(u)'
    <3>1. CASE u \in Players(job[t].m)
      BY <2>1, <3>1 DEF Engaged, Walks
    <3>2. CASE u \notin Players(job[t].m)
      BY <2>1, <2>2, <2>3 DEF Engaged, Walks, OnlyMoves, Cleaning
    <3> QED
      BY <3>1, <3>2
  <2> QED
    BY <2>2, <2>3 DEF FreedInv
<1>20. ASSUME NEW t \in Threads, Free(t) PROVE FreedInv'
  <2>1. pc[t] = "free" /\ UNCHANGED <<row, user>>
    BY <1>20 DEF Free, dbVars, netVars
  <2>2. CASE t \in Conns
    <3>1. Leaves(t, "next")
      BY <1>0, <1>20, <2>2, FreeMoves
    <3>2. status' = WithStatus({Other(job[t].m, user[t])}, "AVAILABLE")
      BY <1>20, <2>2 DEF Free
    <3>3. ASSUME NEW u \in Users, status'[u] = "IN_GAME" PROVE Engaged(u)'
      <4>1. status[u] = "IN_GAME" /\ u # Other(job[t].m, user[t])
        BY <3>2, <3>3 DEF WithStatus
      <4>2. u \in Players(job[t].m) => u = user[t]
        BY <2>1, <2>2, <4>1 DEF CleanupInv, Cleaning, Players, Other
      <4> QED
        BY <2>1, <2>2, <3>1, <4>1, <4>2, KeepEngaged
           DEF FreedInv, Leaves, Cleaning
    <3> QED
      BY <3>3 DEF FreedInv
  <2>3. CASE t \notin Conns
    <3>1. Walks(t, "erase")
      BY <1>0, <1>20, <2>3, FreeMoves
    <3>2. status' = WithStatus(Players(job[t].m), "AVAILABLE")
      BY <1>20, <2>3 DEF Free
    <3>3. ASSUME NEW u \in Users, status'[u] = "IN_GAME" PROVE Engaged(u)'
      <4>1. status[u] = "IN_GAME" /\ u \notin Players(job[t].m)
        BY <3>2, <3>3 DEF WithStatus
      <4> QED
        BY <2>1, <2>3, <3>1, <4>1, KeepEngaged DEF FreedInv, Walks
    <3> QED
      BY <3>3 DEF FreedInv
  <2> QED
    BY <2>2, <2>3
<1>21. ASSUME NEW t \in Threads, Erase(t) PROVE FreedInv'
  BY <1>0, <1>21, EraseMoves, <1>k DEF Erase, Walks, Cleaning, dbVars, netVars
<1>22. ASSUME NEW t \in Threads, Unready(t) PROVE FreedInv'
  BY <1>0, <1>22, UnreadyMoves, <1>k
     DEF Unready, Walks, Leaves, Cleaning, dbVars, netVars
<1>23. CASE UNCHANGED vars
  BY <1>23, <1>s DEF vars, dbVars, netVars
<1> QED
  BY <1>1, <1>2, <1>3, <1>4, <1>5, <1>6, <1>7, <1>8, <1>9, <1>10, <1>11, <1>12,
     <1>13, <1>14, <1>15, <1>16, <1>17, <1>18, <1>19, <1>20, <1>21, <1>22,
     <1>23, NextCases

-----------------------------------------------------------------------------
(* No match goes away silently, where clients place their ships once.      *)

LEMMA KeepOnce ==
  ASSUME EndInv, OnceInv, NEW t \in Threads, OnlyMoves(t),
         UNCHANGED <<active, placed>>,
         \A m \in Matches : ready'[m] \subseteq ready[m],
         Ending(t)' => Ending(t) /\ job'[t] = job[t],
         t = "router" => pc'[t] # "check"
  PROVE  OnceInv'
<1> USE ThreadFacts
<1>1. \A u \in Threads : Ending(u)' => Ending(u) /\ job'[u] = job[u]
  BY DEF OnlyMoves, Ending, Before, After
<1>2. pc'["router"] = "check" =>
        pc["router"] = "check" /\ job'["router"] = job["router"]
  BY DEF OnlyMoves
<1>3. \A m \in Matches : ready'[m] \subseteq placed'[m]
  BY DEF OnceInv
<1>4. \A u \in Threads : Ending(u)' =>
        /\ Players(job'[u].m) \subseteq placed'[job'[u].m]
        /\ active'[job'[u].m] \in {NoObj, job'[u].o}
  BY <1>1 DEF OnceInv
<1>5. pc'["router"] = "check" =>
        /\ active'[job'["router"].m] = NoObj
        /\ \A u \in Threads : Ending(u)' => job'[u].m # job'["router"].m
  BY <1>1, <1>2 DEF OnceInv
<1> QED
  BY <1>4, <1>5 DEF OnceInv

LEMMA StillOnce ==
  ASSUME OnceInv, UNCHANGED <<pc, job, active, placed, ready>>
  PROVE  OnceInv'
BY DEF OnceInv, Ending, Before, After

\* The thread that takes up an active match.
LEMMA TakeOnce ==
  ASSUME EndInv, OnceInv, NEW t \in Threads, OnlyMoves(t), NEW m \in Matches,
         UNCHANGED <<active, placed, ready>>, active[m] # NoObj,
         job'[t].m = m, job'[t].o = active[m], t = "router" => pc'[t] # "check"
  PROVE  OnceInv'
<1> USE ThreadFacts
<1>1. \A u \in Threads \ {t} : Ending(u)' => Ending(u) /\ job'[u] = job[u]
  BY DEF OnlyMoves, Ending, Before, After
<1>2. pc'["router"] = "check" =>
        pc["router"] = "check" /\ job'["router"] = job["router"] /\ t # "router"
  BY DEF OnlyMoves
<1>4. \A u \in Threads : Ending(u)' =>
        /\ Players(job'[u].m) \subseteq placed'[job'[u].m]
        /\ active'[job'[u].m] \in {NoObj, job'[u].o}
  BY <1>1 DEF OnceInv
<1>5. pc'["router"] = "check" =>
        /\ active'[job'["router"].m] = NoObj
        /\ \A u \in Threads : Ending(u)' => job'[u].m # job'["router"].m
  BY <1>1, <1>2 DEF OnceInv
<1> QED
  BY <1>4, <1>5 DEF OnceInv

LEMMA RouterOnce ==
  ASSUME EndInv, OnceInv, NEW c, NEW m \in Matches, NEW w, NEW r,
         RouterEnds(c, m, w, r), UNCHANGED <<active, placed, ready>>,
         active[m] # NoObj
  PROVE  OnceInv'
<1>1. Takes("router", "announce", JobOf(c, m, w, r))
  BY RouterMoves DEF EndInv
<1>2. /\ OnlyMoves("router") /\ pc'["router"] = "announce"
      /\ job'["router"].m = m /\ job'["router"].o = active[m]
  BY <1>1 DEF Takes, JobOf
<1> QED
  BY <1>2, ThreadFacts, TakeOnce

LEMMA StepOnce == ~Resubmit /\ EndInv /\ OnceInv /\ [Next]_vars => OnceInv'
<1> SUFFICES ASSUME ~Resubmit, EndInv, OnceInv, [Next]_vars PROVE OnceInv'
  OBVIOUS
<1> USE ThreadFacts
<1>0. TypeOK
  BY DEF EndInv
<1>1. ASSUME NEW c \in Conns, NEW u \in Users, Login(c, u) PROVE OnceInv'
  BY <1>1, StillOnce DEF Login, dbVars, mapVars
<1>2. ASSUME NEW c \in Conns, Logout(c) PROVE OnceInv'
  BY <1>2, StillOnce DEF Logout, dbVars, mapVars
<1>3. ASSUME NEW c \in Conns, NEW m \in Matches, AcceptChallenge(c, m)
      PROVE  OnceInv'
  BY <1>3, StillOnce DEF AcceptChallenge, mapVars
<1>4. ASSUME NEW c \in Conns, NEW m \in Matches, ShipPlacement(c, m)
      PROVE  OnceInv'
  <2>1. Takes("router", "check", [NoJob EXCEPT !.c = c, !.m = m])
    BY <1>0, <1>4, ShipPlacementMoves
  <2>2. [NoJob EXCEPT !.c = c, !.m = m].m = m
    BY DEF NoJob
  <2>3. /\ user[c] \in Players(m) /\ user[c] \notin placed[m]
        /\ pc["router"] = "idle" /\ UNCHANGED active
        /\ placed' = [placed EXCEPT ![m] = @ \cup {user[c]}]
        /\ ready' = [ready EXCEPT ![m] = @ \cup {user[c]}]
    BY <1>4 DEF ShipPlacement
  <2>4. /\ placed \in [Matches -> SUBSET Users]
        /\ ready \in [Matches -> SUBSET Users]
    BY <1>0 DEF TypeOK
  <2>5. /\ \A n \in Matches : placed[n] \subseteq placed'[n]
        /\ \A n \in Matches : ready'[n] \subseteq placed'[n]
    BY <2>3, <2>4 DEF OnceInv
  <2>6. \A u \in Threads : Ending(u)' => Ending(u) /\ job'[u] = job[u]
    BY <2>1 DEF Takes, OnlyMoves, Ending, Before, After
  <2>7. \A u \in Threads : job[u].m \in Matches
    BY <1>0 DEF TypeOK, Jobs
  <2>8. active[m] = NoObj /\ \A u \in Threads : Ending(u) => job[u].m # m
    BY <2>3 DEF OnceInv
  <2> QED
    BY <2>1, <2>3, <2>5, <2>6, <2>8 DEF OnceInv, Takes
<1>5. ASSUME NEW c \in Conns, NEW m \in Matches, MoveMiss(c, m) PROVE OnceInv'
  BY <1>5, StillOnce DEF MoveMiss, dbVars, mapVars
<1>6. ASSUME NEW c \in Conns, NEW m \in Matches, MoveHit(c, m) PROVE OnceInv'
  <2>1. /\ active[m] # NoObj /\ UNCHANGED <<active, placed, ready>>
    BY <1>6 DEF MoveHit, Request, dbVars, mapVars
  <2>2. CASE RouterEnds(c, m, user[c], "normal")
    BY <2>1, <2>2, RouterOnce
  <2>3. CASE UNCHANGED <<pc, job>>
    BY <2>1, <2>3, StillOnce
  <2> QED
    BY <1>6, <2>2, <2>3 DEF MoveHit
<1>7. ASSUME NEW c \in Conns, NEW m \in Matches, Resign(c, m) PROVE OnceInv'
  BY <1>7, RouterOnce DEF Resign, Request, dbVars, mapVars
<1>8. ASSUME NEW c \in Conns, NEW m \in Matches, AcceptDraw(c, m)
      PROVE  OnceInv'
  BY <1>8, RouterOnce DEF AcceptDraw, Request, dbVars, mapVars
<1>9. CASE CheckReady
  <2> DEFINE m == job["router"].m
  <2>1. pc["router"] = "check" /\ UNCHANGED <<placed, ready>>
    BY <1>9 DEF CheckReady, dbVars
  <2>2. CASE UNCHANGED <<active, created>> /\ Leaves("router", "idle")
    BY <2>1, <2>2, KeepOnce DEF Leaves, Ending, Before, After
  <2>3. CASE /\ Players(m) \subseteq ready[m]
             /\ active' = [active EXCEPT ![m] = created + 1]
             /\ Walks("router", "start")
    <3>1. active \in [Matches -> 0..MaxObj] /\ m \in Matches
      BY <1>0 DEF TypeOK, Jobs
    <3>2. \A n \in Matches : active'[n] # NoObj => Players(n) \subseteq placed[n]
      BY <2>3 DEF OnceInv
    <3>3. \A u \in Threads : Ending(u)' =>
            Ending(u) /\ job'[u] = job[u] /\ job[u].m # m
      BY <2>1, <2>3 DEF Walks, OnlyMoves, Ending, Before, After, OnceInv
    <3>4. \A u \in Threads : job[u].m # m => active'[job[u].m] = active[job[u].m]
      BY <2>3
    <3> QED
      BY <2>1, <2>3, <3>3 DEF OnceInv, Walks
  <2> QED
    BY <1>0, <1>9, <2>2, <2>3, CheckReadyMoves
<1>10. CASE StartMatch
  BY <1>0, <1>10, StartMatchMoves, KeepOnce
     DEF StartMatch, Leaves, Ending, Before, After, dbVars, mapVars
<1>11. ASSUME NEW o \in Objects, TurnExpires(o) PROVE OnceInv'
  BY <1>11, StillOnce DEF TurnExpires, dbVars, mapVars
<1>12. CASE TimerScan
  BY <1>0, <1>12, TimerScanMoves, KeepOnce
     DEF TimerScan, Walks, Ending, Before, After, dbVars, mapVars
<1>13. CASE TimerNext
  <2>1. UNCHANGED <<active, placed, ready>>
    BY <1>13 DEF TimerNext, dbVars, mapVars
  <2>2. CASE Walks("timer", "idle") \/ Walks("timer", "next")
    BY <2>1, <2>2, KeepOnce DEF Walks, Ending, Before, After
  <2>3. ASSUME NEW m \in Matches, active[m] # NoObj,
               Takes("timer", "announce",
                     JobOf(Nobody, m, Other(m, heap[active[m]].turn), "timeout"))
        PROVE  OnceInv'
    BY <2>1, <2>3, TakeOnce DEF Takes, JobOf
  <2> QED
    BY <1>0, <1>13, <2>2, <2>3, TimerNextMoves
<1>14. ASSUME NEW c \in Conns, Disconnect(c) PROVE OnceInv'
  BY <1>0, <1>14, DisconnectMoves, KeepOnce
     DEF Disconnect, Walks, Ending, Before, After, dbVars, mapVars
<1>15. ASSUME NEW c \in Conns, CleanupScan(c) PROVE OnceInv'
  BY <1>0, <1>15, CleanupScanMoves, KeepOnce
     DEF CleanupScan, Walks, Ending, Before, After, dbVars, mapVars
<1>16. ASSUME NEW c \in Conns, CleanupNext(c) PROVE OnceInv'
  <2>1. UNCHANGED <<active, placed, ready>>
    BY <1>16 DEF CleanupNext, dbVars, mapVars
  <2>2. CASE UNCHANGED <<pc, job>>
    BY <2>1, <2>2, StillOnce
  <2>3. ASSUME NEW m \in Matches, active[m] # NoObj,
               Takes(c, "record", JobOf(Nobody, m, Other(m, user[c]), "disconnect"))
        PROVE  OnceInv'
    BY <2>1, <2>3, TakeOnce DEF Takes, JobOf
  <2> QED
    BY <1>0, <1>16, <2>2, <2>3, CleanupNextMoves
<1>17. ASSUME NEW c \in Conns, RemovePlayer(c) PROVE OnceInv'
  BY <1>0, <1>17, RemovePlayerMoves, KeepOnce
     DEF RemovePlayer, Walks, Ending, Before, After, dbVars, mapVars
<1>18. ASSUME NEW t \in Threads, Announce(t) PROVE OnceInv'
  BY <1>0, <1>18, AnnounceMoves, KeepOnce
     DEF Announce, Walks, Ending, Before, dbVars, mapVars
<1>19. ASSUME NEW t \in Threads, Record(t) PROVE OnceInv'
  BY <1>0, <1>19, RecordMoves, KeepOnce
     DEF Record, Walks, Ending, Before, After, mapVars
<1>20. ASSUME NEW t \in Threads, Free(t) PROVE OnceInv'
  BY <1>0, <1>20, FreeMoves, KeepOnce
     DEF Free, Walks, Leaves, Ending, Before, After, dbVars, mapVars
<1>21. ASSUME NEW t \in Threads, Erase(t) PROVE OnceInv'
  <2>1. /\ active' = [active EXCEPT ![job[t].m] = NoObj]
        /\ UNCHANGED <<placed, ready>> /\ After(t)
    BY <1>21 DEF Erase, dbVars, After
  <2>2. Walks(t, "unready")
    BY <1>0, <1>21, EraseMoves
  <2>3. active \in [Matches -> 0..MaxObj] /\ \A u \in Threads : job[u].m \in Matches
    BY <1>0 DEF TypeOK, Jobs
  <2>4. \A m \in Matches : active'[m] \in {NoObj, active[m]}
    BY <2>1
  <2>5. \A u \in Threads : Ending(u)' => Ending(u) /\ job'[u] = job[u]
    BY <2>2 DEF Walks, OnlyMoves, Ending, Before, After
  <2>6. pc'["router"] = "check" =>
          pc["router"] = "check" /\ job'["router"] = job["router"]
    BY <2>2 DEF Walks, OnlyMoves
  <2> QED
    BY <2>1, <2>5, <2>6 DEF OnceInv
<1>22. ASSUME NEW t \in Threads, Unready(t) PROVE OnceInv'
  <2>1. \A m \in Matches : ready'[m] \subseteq ready[m]
    BY <1>22 DEF Unready
  <2> QED
    BY <1>0, <1>22, <2>1, UnreadyMoves, KeepOnce
       DEF Unready, Walks, Leaves, Ending, Before, After, dbVars
<1>23. CASE UNCHANGED vars
  BY <1>23, StillOnce DEF vars, dbVars, mapVars
<1> QED
  BY <1>1, <1>2, <1>3, <1>4, <1>5, <1>6, <1>7, <1>8, <1>9, <1>10, <1>11, <1>12,
     <1>13, <1>14, <1>15, <1>16, <1>17, <1>18, <1>19, <1>20, <1>21, <1>22,
     <1>23, NextCases

\* An object leaves active_matches_ only after its verdict.
LEMMA StepOver ==
  EndInv /\ OnceInv /\ AnnouncedInv /\ OverInv /\ [Next]_vars => OverInv'
<1> SUFFICES ASSUME EndInv, OnceInv, AnnouncedInv, OverInv, [Next]_vars
             PROVE  OverInv'
  OBVIOUS
<1> USE ThreadFacts
<1>0. TypeOK
  BY DEF EndInv
<1>t. /\ active \in [Matches -> 0..MaxObj] /\ created \in 0..MaxObj
      /\ \A m \in Matches : active[m] <= created
      /\ \A t \in Threads : job[t].m \in Matches
  BY DEF TypeOK, Jobs, EndInv, ObjectsInv
<1>o. \A o \in 1..created : o \in Objects /\ told[o] \subseteq told'[o]
  BY <1>t, ToldStays, ConstantsAssumption DEF Objects
<1>1. CASE UNCHANGED <<active, created>>
  BY <1>o, <1>1 DEF OverInv
<1>2. CASE CheckReady
  <2> DEFINE m == job["router"].m
  <2>1. pc["router"] = "check" /\ active[m] = NoObj
    BY <1>2 DEF CheckReady, OnceInv
  <2>2. CASE created' = created + 1 /\ active' = [active EXCEPT ![m] = created + 1]
    <3>1. \A o \in 1..created' : o = created + 1 \/ o \in 1..created
      BY <1>t, <2>2
    <3>2. active'[m] = created + 1 /\ m \in Matches
      BY <1>t, <2>2
    <3>3. \A n \in Matches : active[n] # NoObj => active'[n] = active[n]
      BY <2>1, <2>2
    <3>4. \A o \in 1..created : o # NoObj
      BY DEF NoObj
    <3> QED
      BY <1>o, <3>1, <3>2, <3>3, <3>4 DEF OverInv
  <2> QED
    BY <1>0, <1>1, <1>2, <2>2, CheckReadyMoves
<1>3. ASSUME NEW t \in Threads, Erase(t) PROVE OverInv'
  <2>1. /\ active' = [active EXCEPT ![job[t].m] = NoObj]
        /\ UNCHANGED <<created, told>>
        /\ After(t)
    BY <1>3 DEF Erase, After
  <2>2. told[job[t].o] # {} /\ active[job[t].m] \in {NoObj, job[t].o}
    BY <2>1 DEF AnnouncedInv, OnceInv, Ending
  <2>3. \A n \in Matches : n # job[t].m => active'[n] = active[n]
    BY <2>1
  <2>4. \A o \in 1..created : o # NoObj
    BY DEF NoObj
  <2> QED
    BY <2>1, <2>2 DEF OverInv
<1>4. ASSUME NEW c \in Conns, NEW u \in Users, Login(c, u) PROVE OverInv'
  BY <1>1, <1>4 DEF Login, mapVars
<1>5. ASSUME NEW c \in Conns, NEW m \in Matches,
             \/ AcceptChallenge(c, m) \/ ShipPlacement(c, m) \/ MoveMiss(c, m)
             \/ MoveHit(c, m) \/ Resign(c, m) \/ AcceptDraw(c, m)
      PROVE  OverInv'
  BY <1>1, <1>5
     DEF AcceptChallenge, ShipPlacement, MoveMiss, MoveHit, Resign, AcceptDraw,
         mapVars
<1>6. ASSUME NEW c \in Conns, \/ Logout(c) \/ Disconnect(c) \/ CleanupScan(c)
                              \/ CleanupNext(c) \/ RemovePlayer(c)
      PROVE  OverInv'
  BY <1>1, <1>6
     DEF Logout, Disconnect, CleanupScan, CleanupNext, RemovePlayer, mapVars
<1>7. ASSUME NEW t \in Threads,
             Announce(t) \/ Record(t) \/ Free(t) \/ Unready(t)
      PROVE  OverInv'
  BY <1>1, <1>7 DEF Announce, Record, Free, Unready, mapVars
<1>8. ASSUME NEW o \in Objects, TurnExpires(o) PROVE OverInv'
  BY <1>1, <1>8 DEF TurnExpires, mapVars
<1>9. CASE StartMatch \/ TimerScan \/ TimerNext \/ UNCHANGED vars
  BY <1>1, <1>9 DEF StartMatch, TimerScan, TimerNext, vars, mapVars
<1> QED
  BY <1>2, <1>3, <1>4, <1>5, <1>6, <1>7, <1>8, <1>9, NextCases

-----------------------------------------------------------------------------
(* The theorems about verdicts, rows and statuses.                         *)

MatchInv ==
  /\ EndInv /\ PlayInv /\ AnnouncedInv /\ FreshInv /\ CleanupInv
  /\ LateInv /\ VerdictInv /\ RecordedInv /\ FreedInv

LEMMA InitMatch == Init => MatchInv
<1> SUFFICES ASSUME Init PROVE MatchInv
  OBVIOUS
<1>1. EndInv
  BY InitEnd
<1>2. \A t \in Threads : ~Before(t) /\ ~After(t)
  BY DEF Init, Before, After
<1>3. PlayInv
  BY DEF Init, PlayInv
<1>4. AnnouncedInv
  BY <1>2 DEF AnnouncedInv
<1>5. FreshInv /\ RecordedInv
  BY DEF Init, FreshInv, RecordedInv
<1>6. CleanupInv
  BY ThreadFacts DEF Init, CleanupInv, Cleaning
<1>7. LateInv /\ VerdictInv
  BY <1>2, ThreadFacts DEF Init, LateInv, TimedOut, VerdictInv
<1>8. FreedInv
  BY DEF Init, FreedInv
<1> QED
  BY <1>1, <1>3, <1>4, <1>5, <1>6, <1>7, <1>8 DEF MatchInv

LEMMA StepMatch == MatchInv /\ [Next]_vars => MatchInv'
BY StepEndInv, StepPlay, StepAnnounced, StepFresh, StepCleanup, StepLate, StepVerdicts,
   StepRecorded, StepFreed
   DEF MatchInv

LEMMA MatchInvAlways == Spec => []MatchInv
BY InitMatch, StepMatch, PTL DEF Spec

\* However many threads compete to end a match, and whatever the clients do
\* meanwhile, a verdict that players are told has its reason in the match: a
\* fleet sunk, a draw that names nobody, a loser who asked to resign or lost a
\* connection, or a turn that ran out.  That turn need not be the loser's.
THEOREM VerdictsAreJustified == Spec => []VerdictsJustified
<1>1. MatchInv => VerdictsJustified
  BY DEF MatchInv, VerdictInv, Justified, VerdictsJustified
<1> QED
  BY <1>1, MatchInvAlways, PTL

\* The winner that the database keeps is one the players were told, or are
\* about to be told by a cleanup, even when several threads write the row.
THEOREM WinnersAreAnnounced == Spec => []RecordedWinnerAnnounced
<1>1. MatchInv => RecordedWinnerAnnounced
  BY DEF MatchInv, RecordedInv, Backed, RecordedWinnerAnnounced
<1> QED
  BY <1>1, MatchInvAlways, PTL

\* When all threads rest, nobody is IN_GAME without a match that goes on.
THEOREM PlayersBecomeFree == Spec => []FreedAfterEnd
<1>1. MatchInv => FreedAfterEnd
  <2> SUFFICES ASSUME MatchInv, \A t \in Threads : pc[t] = "idle",
                      NEW u \in Users, status[u] = "IN_GAME"
               PROVE  \E m \in Matches : u \in Players(m) /\ row[m].status = "waiting"
    BY DEF FreedAfterEnd
  <2> QED
    BY ThreadFacts DEF MatchInv, FreedInv, Engaged, Cleaning
<1> QED
  BY <1>1, MatchInvAlways, PTL

-----------------------------------------------------------------------------
(* MatchServer implements MatchLife.                                       *)

LifeInv == ~Resubmit /\ MatchInv /\ OnceInv /\ OverInv

LEMMA InitLife == ~Resubmit /\ Init => LifeInv
<1> SUFFICES ASSUME ~Resubmit, Init PROVE LifeInv
  OBVIOUS
<1>1. \A t \in Threads : ~Ending(t) /\ pc[t] # "check"
  BY DEF Init, Ending, Before, After
<1>2. OnceInv
  BY <1>1, ThreadFacts DEF Init, OnceInv
<1>3. OverInv
  BY DEF Init, OverInv
<1> QED
  BY <1>2, <1>3, InitMatch DEF LifeInv

LEMMA StepLife == LifeInv /\ [Next]_vars => LifeInv'
BY StepMatch, StepOnce, StepOver DEF LifeInv, MatchInv

LEMMA LifeInvAlways == ~Resubmit /\ Spec => []LifeInv
BY InitLife, StepLife, PTL DEF Spec

\* No started match goes away before its players were told a verdict, where
\* clients place their ships once.
THEOREM NothingIsSilent == ~Resubmit /\ Spec => []NoSilentRemoval
<1>1. LifeInv => NoSilentRemoval
  <2> SUFFICES ASSUME LifeInv, NEW o \in Objects, heap[o].turn # Nobody,
                      \A m \in Matches : active[m] # o
               PROVE  told[o] # {}
    BY DEF NoSilentRemoval
  <2>1. heap[o] # Fresh
    BY DEF Fresh
  <2>2. o \in 1..created
    BY <2>1 DEF LifeInv, MatchInv, EndInv, TypeOK, FreshInv, Objects
  <2> QED
    BY <2>2 DEF LifeInv, OverInv
<1> QED
  BY <1>1, LifeInvAlways, PTL

\* What the mapping makes of a verdict that a thread has reached.
Pending(t) == pc[t] \in {"announce", "record"}

LEMMA DecidedIs ==
  ASSUME NEW o
  PROVE  /\ told[o] \subseteq DecidedOf(o)
         /\ \A t \in Threads : Pending(t) /\ job[t].o = o => VerdictOf(t) \in DecidedOf(o)
         /\ \A v \in DecidedOf(o) : \/ v \in told[o]
                                    \/ \E t \in Threads : /\ Pending(t) /\ job[t].o = o
                                                          /\ v = VerdictOf(t)
BY DEF DecidedOf, Pending

\* Nothing is decided by a step after which the same threads are about to
\* announce or record the same verdicts, but for some that were announced.
LEMMA SameDecided ==
  ASSUME LifeInv, NEW t \in Threads, OnlyMoves(t), UNCHANGED told,
         Pending(t)' => Pending(t) /\ job'[t] = job[t],
         Pending(t) => \/ Pending(t)' /\ job'[t] = job[t]
                       \/ After(t)
  PROVE  \A o \in Objects : DecidedOf(o)' = DecidedOf(o)
<1> SUFFICES ASSUME NEW o \in Objects PROVE DecidedOf(o)' = DecidedOf(o)
  OBVIOUS
<1>1. \A u \in Threads : u # t => /\ Pending(u)' <=> Pending(u)
                                  /\ VerdictOf(u)' = VerdictOf(u)
                                  /\ job'[u].o = job[u].o
  BY DEF OnlyMoves, Pending, VerdictOf
<1>2. Pending(t)' => Pending(t) /\ VerdictOf(t)' = VerdictOf(t) /\ job'[t].o = job[t].o
  BY DEF VerdictOf
<1>3. Pending(t) => \/ Pending(t)' /\ VerdictOf(t)' = VerdictOf(t) /\ job'[t].o = job[t].o
                    \/ VerdictOf(t) \in told[job[t].o]
  BY DEF VerdictOf, LifeInv, MatchInv, AnnouncedInv
<1>4. DecidedOf(o) = told[o] \cup
        {VerdictOf(u) : u \in {x \in Threads : Pending(x) /\ job[x].o = o}}
  BY DEF DecidedOf, Pending
<1>5. DecidedOf(o)' = told[o] \cup
        {VerdictOf(u)' : u \in {x \in Threads : Pending(x)' /\ job'[x].o = o}}
  BY DEF DecidedOf, Pending
<1> QED
  BY <1>1, <1>2, <1>3, <1>4, <1>5

\* Steps that MatchLife does not see.
LEMMA LifeStutter ==
  ASSUME UNCHANGED <<active, created, told>>,
         \A o \in Objects : DecidedOf(o)' = DecidedOf(o),
         \A m \in Matches : row'[m].winner = row[m].winner
  PROVE  UNCHANGED Life!lifeVars
<1>1. \A o \in Objects : PhaseOf(o)' = PhaseOf(o)
  BY DEF PhaseOf
<1>2. UNCHANGED [o \in Objects |-> PhaseOf(o)]
  BY <1>1
<1>3. UNCHANGED [o \in Objects |-> DecidedOf(o)]
  OBVIOUS
<1>4. UNCHANGED [m \in Matches |-> row[m].winner]
  OBVIOUS
<1> QED
  BY <1>2 DEF Life!lifeVars

LEMMA QuietStutter ==
  ASSUME LifeInv, NEW t \in Threads, OnlyMoves(t),
         UNCHANGED <<active, created, told, row>>,
         Pending(t)' => Pending(t) /\ job'[t] = job[t],
         Pending(t) => \/ Pending(t)' /\ job'[t] = job[t]
                       \/ After(t)
  PROVE  UNCHANGED Life!lifeVars
BY SameDecided, LifeStutter

LEMMA StillStutter ==
  ASSUME UNCHANGED <<active, created, told, pc, job>>,
         \A m \in Matches : row'[m].winner = row[m].winner
  PROVE  UNCHANGED Life!lifeVars
<1>1. \A o \in Objects : DecidedOf(o)' = DecidedOf(o)
  BY DEF DecidedOf, VerdictOf
<1> QED
  BY <1>1, LifeStutter

\* A thread that takes up an active match reaches a verdict.
LEMMA LifeDecide ==
  ASSUME LifeInv, [Next]_vars, LifeInv', NEW t \in Threads, OnlyMoves(t),
         NEW m \in Matches,
         UNCHANGED <<active, created, told, row>>, active[m] # NoObj,
         ~Before(t), ~After(t), ~Pending(t), Pending(t)', job'[t].o = active[m]
  PROVE  Life!LifeNext
<1> DEFINE o == active[m]
<1> PICK v : v = VerdictOf(t)'
  OBVIOUS
<1>0. TypeOK /\ TypeOK' /\ o \in Objects /\ o <= created
  BY DEF LifeInv, MatchInv, EndInv, TypeOK, ObjectsInv, NoObj, Objects
<1>1. v \in Verdicts /\ v.by = t
  <2>1. job'[t] \in Jobs
    BY <1>0 DEF TypeOK
  <2> QED
    BY <2>1 DEF VerdictOf, Verdicts, Jobs
<1>2. \A u \in Threads \ {t} : /\ Pending(u)' <=> Pending(u)
                              /\ VerdictOf(u)' = VerdictOf(u)
                              /\ job'[u].o = job[u].o
  BY DEF OnlyMoves, Pending, VerdictOf
<1>3. \A p \in Objects : DecidedOf(p)' = DecidedOf(p) \cup (IF p = o THEN {v} ELSE {})
  <2> TAKE p \in Objects
  <2>1. DecidedOf(p) = told[p] \cup
          {VerdictOf(u) : u \in {x \in Threads : Pending(x) /\ job[x].o = p}}
    BY DEF DecidedOf, Pending
  <2>2. DecidedOf(p)' = told[p] \cup
          {VerdictOf(u)' : u \in {x \in Threads : Pending(x)' /\ job'[x].o = p}}
    BY DEF DecidedOf, Pending
  <2> QED
    BY <1>2, <2>1, <2>2
<1>4. \A w \in DecidedOf(o) : w.by # t
  <2>1. \A w \in told[o] : w.by # t
    BY <1>0 DEF LifeInv, MatchInv, EndInv, ToldInv
  <2>2. \A u \in Threads : Pending(u) => VerdictOf(u).by # t
    BY DEF VerdictOf
  <2> QED
    BY <2>1, <2>2, DecidedIs
<1>5. v \in DecidedOf(o)' /\ v \notin DecidedOf(o)
  BY <1>0, <1>1, <1>3, <1>4
<1>6. PhaseOf(o) = "playing"
  BY <1>0 DEF PhaseOf, TypeOK
<1>7. UNCHANGED [p \in Objects |-> PhaseOf(p)]
  BY DEF PhaseOf
<1>8. [p \in Objects |-> DecidedOf(p)]'
        = [[p \in Objects |-> DecidedOf(p)] EXCEPT ![o] = @ \cup {v}]
  <2>1. o \in Objects
    BY <1>0
  <2>2. \A p \in Objects :
          DecidedOf(p)' = IF p = o THEN DecidedOf(o) \cup {v} ELSE DecidedOf(p)
    BY <1>3
  <2>3. [p \in Objects |-> DecidedOf(p)]'
          = [p \in Objects |->
               IF p = o THEN DecidedOf(o) \cup {v} ELSE DecidedOf(p)]
    BY <2>2
  <2> HIDE DEF o
  <2> QED
    BY <2>1, <2>3
<1>9. UNCHANGED [n \in Matches |-> row[n].winner]
  OBVIOUS
<1>10. Life!Decide(o)
  BY <1>0, <1>1, <1>4, <1>5, <1>6, <1>7, <1>8 DEF Life!Decide
<1> QED
  BY <1>0, <1>10 DEF Life!LifeNext

LEMMA LifeBegin ==
  ASSUME LifeInv, CheckReady, active # active'
  PROVE  Life!LifeNext
<1> DEFINE m == job["router"].m
           g == created + 1
<1>0. TypeOK /\ pc["router"] = "check" /\ UNCHANGED <<row, told>>
  BY DEF LifeInv, MatchInv, EndInv, CheckReady, dbVars
<1>t. /\ active \in [Matches -> 0..MaxObj] /\ m \in Matches
      /\ created \in 0..MaxObj
      /\ "router" \in Threads
  BY <1>0, ThreadFacts DEF TypeOK, Jobs
<1>1. /\ created' = g /\ active' = [active EXCEPT ![m] = g]
      /\ Walks("router", "start")
  BY <1>0, CheckReadyMoves
<1>2. active[m] = NoObj /\ created < MaxObj /\ \A n \in Matches : active[n] <= created
  BY <1>0 DEF LifeInv, MatchInv, EndInv, OnceInv, RoomInv, ObjectsInv
<1>3. g \in Objects
  BY <1>t, <1>2, ConstantsAssumption DEF Objects
<1>4. \A o \in Objects : PhaseOf(o)' = IF o = g THEN "playing" ELSE PhaseOf(o)
  <2> TAKE o \in Objects
  <2>0. o \in Nat /\ o # NoObj
    BY DEF Objects, NoObj
  <2>1. CASE o = g
    BY <1>t, <1>1, <2>1 DEF PhaseOf
  <2>2. CASE o # g
    <3>1. o > created <=> o > created'
      BY <1>t, <1>1, <2>0, <2>2
    <3>2. (\E n \in Matches : active[n] = o) <=> (\E n \in Matches : active'[n] = o)
      BY <1>1, <1>2, <2>0, <2>2
    <3> QED
      BY <2>2, <3>1, <3>2 DEF PhaseOf
  <2> QED
    BY <2>1, <2>2
<1>5. PhaseOf(g) = "unborn"
  BY <1>t DEF PhaseOf
<1>6. [o \in Objects |-> PhaseOf(o)]'
        = [[o \in Objects |-> PhaseOf(o)] EXCEPT ![g] = "playing"]
  BY <1>4
<1>7. \A o \in Objects : DecidedOf(o)' = DecidedOf(o)
  <2>1. ~Pending("router") /\ ~Pending("router")' /\ OnlyMoves("router")
    BY <1>0, <1>1 DEF Pending, Walks
  <2> QED
    BY <1>t, <1>0, <2>1, SameDecided
<1>8. UNCHANGED [o \in Objects |-> DecidedOf(o)]
  BY <1>7
<1>9. UNCHANGED [n \in Matches |-> row[n].winner]
  BY <1>0
<1>10. Life!Begin(g)
  BY <1>0, <1>3, <1>5, <1>6, <1>8 DEF Life!Begin
<1> QED
  BY <1>3, <1>10 DEF Life!LifeNext

LEMMA LifeAnnounce ==
  ASSUME LifeInv, NEW t \in Threads, Announce(t)
  PROVE  Life!LifeNext
<1> PICK o \in Objects : o = job[t].o /\ Before(t)
  BY BusyObject DEF LifeInv, MatchInv, Announce, Before
<1> PICK v : v = VerdictOf(t)
  OBVIOUS
<1>0. TypeOK /\ UNCHANGED <<active, created, row>>
  BY DEF LifeInv, MatchInv, EndInv, Announce, mapVars, dbVars
<1>1. told' = [told EXCEPT ![o] = @ \cup {v}] /\ told \in [Objects -> SUBSET Verdicts]
  BY <1>0 DEF Announce, VerdictOf, TypeOK
<1>2. Walks(t, IF t \in Conns THEN "erase" ELSE "record")
  BY <1>0, AnnounceMoves
<1>3. v \notin told[o] /\ v \in DecidedOf(o)
  <2>1. \A w \in told[o] : w.by # t
    BY DEF LifeInv, MatchInv, EndInv, ToldInv
  <2>2. v.by = t /\ Pending(t)
    BY DEF VerdictOf, Pending, Announce
  <2> QED
    BY <2>1, <2>2, DecidedIs
<1>4. \A p \in Objects : DecidedOf(p)' = DecidedOf(p)
  <2> TAKE p \in Objects
  <2>1. DecidedOf(p) = told[p] \cup
          {VerdictOf(u) : u \in {x \in Threads : Pending(x) /\ job[x].o = p}}
    BY DEF DecidedOf, Pending
  <2>2. DecidedOf(p)' = told'[p] \cup
          {VerdictOf(u)' : u \in {x \in Threads : Pending(x)' /\ job'[x].o = p}}
    BY DEF DecidedOf, Pending
  <2>3. \A u \in Threads : /\ VerdictOf(u)' = VerdictOf(u) /\ job'[u].o = job[u].o
                           /\ u # t => (Pending(u)' <=> Pending(u))
    BY <1>2 DEF Walks, OnlyMoves, VerdictOf, Pending
  <2>4. Pending(t)
    BY DEF Announce, Pending
  <2>5. told'[p] = IF p = o THEN told[p] \cup {v} ELSE told[p]
    BY <1>1
  <2> QED
    BY <2>1, <2>2, <2>3, <2>4, <2>5
<1>5. UNCHANGED [p \in Objects |-> DecidedOf(p)]
  BY <1>4
<1>6. UNCHANGED [p \in Objects |-> PhaseOf(p)]
  BY <1>0 DEF PhaseOf
<1>7. UNCHANGED [n \in Matches |-> row[n].winner]
  BY <1>0
<1>8. Life!Announce(o, v)
  BY <1>1, <1>3, <1>5, <1>6, <1>7 DEF Life!Announce
<1> QED
  BY <1>3, <1>8 DEF Life!LifeNext

LEMMA LifeKeep ==
  ASSUME LifeInv, NEW t \in Threads, Record(t)
  PROVE  Life!LifeNext \/ UNCHANGED Life!lifeVars
<1>0. /\ TypeOK /\ pc[t] = "record" /\ UNCHANGED <<active, created, told>>
      /\ row \in [Matches -> Rows] /\ job[t].m \in Matches
      /\ Nobody \notin Users
  BY ConstantsAssumption
     DEF LifeInv, MatchInv, EndInv, Record, mapVars, TypeOK, Jobs
<1>1. Walks(t, IF t \in Conns THEN "announce" ELSE "free")
  BY <1>0, RecordMoves
<1>2. Before(t) \/ After(t)
  BY <1>0 DEF Before, After
<1> PICK o \in Objects : o = job[t].o
  BY <1>2, BusyObject DEF LifeInv, MatchInv
<1> PICK v : v = VerdictOf(t)
  OBVIOUS
<1>3. \A p \in Objects : DecidedOf(p)' = DecidedOf(p)
  <2>1. Pending(t) /\ job'[t] = job[t] /\ (t \in Conns => Pending(t)') /\ OnlyMoves(t)
    BY <1>0, <1>1 DEF Walks, Pending
  <2>2. t \notin Conns => After(t)
    BY <1>0 DEF After
  <2> QED
    BY <1>0, <2>1, <2>2, SameDecided
<1>4. CASE job[t].winner \in Users
  <2>1. row' = [row EXCEPT ![job[t].m] = [status |-> "completed", winner |-> job[t].winner]]
    BY <1>4 DEF Record
  <2>2. v.m = job[t].m /\ v.winner = job[t].winner /\ v.winner # Nobody
    BY <1>0, <1>4 DEF VerdictOf
  <2>3. v \in DecidedOf(o)
    BY <1>0, DecidedIs DEF Pending
  <2>4. [n \in Matches |-> row[n].winner]'
          = [[n \in Matches |-> row[n].winner] EXCEPT ![v.m] = v.winner]
    BY <1>0, <2>1, <2>2
  <2>5. UNCHANGED [p \in Objects |-> DecidedOf(p)]
    BY <1>3
  <2>6. UNCHANGED [p \in Objects |-> PhaseOf(p)]
    BY <1>0 DEF PhaseOf
  <2>7. Life!Keep(o, v)
    BY <1>0, <2>2, <2>4, <2>5, <2>6 DEF Life!Keep
  <2> QED
    BY <2>3, <2>7 DEF Life!LifeNext
<1>5. CASE job[t].winner \notin Users
  BY <1>0, <1>3, <1>5, LifeStutter DEF Record
<1> QED
  BY <1>4, <1>5

LEMMA LifeClose ==
  ASSUME LifeInv, NEW t \in Threads, Erase(t)
  PROVE  Life!LifeNext \/ UNCHANGED Life!lifeVars
<1> DEFINE m == job[t].m
<1>0. /\ TypeOK /\ pc[t] = "erase" /\ After(t)
      /\ UNCHANGED <<created, told, row>>
      /\ active' = [active EXCEPT ![m] = NoObj]
  BY DEF LifeInv, MatchInv, EndInv, Erase, After, dbVars
<1>t. /\ active \in [Matches -> 0..MaxObj] /\ m \in Matches
      /\ created \in 0..MaxObj
      /\ \A n, k \in Matches : active[n] = active[k] /\ active[n] # NoObj => n = k
  BY DEF TypeOK, Jobs, LifeInv, MatchInv, EndInv, ObjectsInv
<1>1. Walks(t, "unready")
  BY <1>0, EraseMoves
<1> PICK o \in Objects : o = job[t].o /\ o \in 1..created
  BY <1>0, BusyObject DEF LifeInv, MatchInv
<1>2. \A p \in Objects : DecidedOf(p)' = DecidedOf(p)
  <2>1. ~Pending(t) /\ ~Pending(t)' /\ OnlyMoves(t)
    BY <1>0, <1>1 DEF Pending, Walks
  <2> QED
    BY <1>0, <2>1, SameDecided
<1>3. CASE active[m] = NoObj
  <2>1. active' = active
    BY <1>0, <1>t, <1>3
  <2> QED
    BY <1>0, <1>2, <2>1, LifeStutter
<1>4. CASE active[m] # NoObj
  <2>1. active[m] = o
    BY <1>0, <1>4 DEF LifeInv, OnceInv, Ending
  <2>2. told[o] # {}
    BY <1>0 DEF LifeInv, MatchInv, AnnouncedInv
  <2>3. \A p \in Objects : PhaseOf(p)' = IF p = o THEN "over" ELSE PhaseOf(p)
    <3> TAKE p \in Objects
    <3>0. p # NoObj
      BY DEF Objects, NoObj
    <3>1. CASE p = o
      <4>1. \A n \in Matches : active'[n] # o
        BY <1>0, <1>t, <2>1, <3>0, <3>1
      <4>2. ~(o > created)
        BY <1>t
      <4> QED
        BY <1>0, <3>1, <4>1, <4>2 DEF PhaseOf
    <3>2. CASE p # o
      <4>1. (\E n \in Matches : active'[n] = p) <=> (\E n \in Matches : active[n] = p)
        BY <1>0, <2>1, <3>0, <3>2
      <4> QED
        BY <1>0, <3>2, <4>1 DEF PhaseOf
    <3> QED
      BY <3>1, <3>2
  <2>4. PhaseOf(o) = "playing"
    BY <1>t, <2>1 DEF PhaseOf
  <2>5. [p \in Objects |-> PhaseOf(p)]'
          = [[p \in Objects |-> PhaseOf(p)] EXCEPT ![o] = "over"]
    BY <2>3
  <2>6. UNCHANGED [p \in Objects |-> DecidedOf(p)]
    BY <1>2
  <2>7. UNCHANGED [n \in Matches |-> row[n].winner]
    BY <1>0
  <2>8. Life!Close(o)
    BY <1>0, <2>2, <2>4, <2>5, <2>6 DEF Life!Close
  <2> QED
    BY <2>8 DEF Life!LifeNext
<1> QED
  BY <1>3, <1>4

\* Every step is one of MatchLife, or none that it sees.
LEMMA StepImplements == LifeInv /\ LifeInv' /\ [Next]_vars => [Life!LifeNext]_(Life!lifeVars)
<1> SUFFICES ASSUME LifeInv, LifeInv', [Next]_vars
             PROVE  [Life!LifeNext]_(Life!lifeVars)
  OBVIOUS
<1> DEFINE Goal == Life!LifeNext \/ UNCHANGED Life!lifeVars
<1> USE ThreadFacts
<1>0. TypeOK
  BY DEF LifeInv, MatchInv, EndInv
<1>r. ASSUME NEW c \in Conns, NEW m \in Matches, NEW w, NEW r, Request(c, m),
             RouterEnds(c, m, w, r), UNCHANGED <<active, created, told, row>>
      PROVE  Life!LifeNext
  <2>1. pc["router"] = "idle" /\ active[m] # NoObj
    BY <1>r DEF Request
  <2>2. Takes("router", "announce", JobOf(c, m, w, r))
    BY <1>0, <1>r, RouterMoves
  <2>3. /\ ~Pending("router") /\ ~Before("router") /\ ~After("router")
        /\ Pending("router")' /\ OnlyMoves("router")
        /\ job'["router"].o = active[m]
    BY <2>1, <2>2 DEF Pending, Before, After, Takes, JobOf
  <2> QED
    BY <1>r, <2>1, <2>3, LifeDecide
<1>1. ASSUME NEW c \in Conns, NEW u \in Users, Login(c, u) PROVE Goal
  BY <1>1, StillStutter DEF Login, dbVars, mapVars
<1>2. ASSUME NEW c \in Conns, Logout(c) PROVE Goal
  BY <1>2, StillStutter DEF Logout, dbVars, mapVars
<1>3. ASSUME NEW c \in Conns, NEW m \in Matches, AcceptChallenge(c, m)
      PROVE  Goal
  <2>1. row \in [Matches -> Rows]
    BY <1>0 DEF TypeOK
  <2>2. \A n \in Matches : row'[n].winner = row[n].winner
    BY <1>3 DEF AcceptChallenge
  <2> QED
    BY <1>3, StillStutter DEF AcceptChallenge, mapVars
<1>4. ASSUME NEW c \in Conns, NEW m \in Matches, ShipPlacement(c, m) PROVE Goal
  <2>1. pc["router"] = "idle" /\ UNCHANGED <<active, created, told, row>>
    BY <1>4 DEF ShipPlacement
  <2>2. pc'["router"] = "check" /\ OnlyMoves("router")
    BY <1>0, <1>4, ShipPlacementMoves DEF Takes
  <2> QED
    BY <2>1, <2>2, QuietStutter DEF Pending
<1>5. ASSUME NEW c \in Conns, NEW m \in Matches, MoveMiss(c, m) PROVE Goal
  BY <1>5, StillStutter DEF MoveMiss, dbVars, mapVars
<1>6. ASSUME NEW c \in Conns, NEW m \in Matches, MoveHit(c, m) PROVE Goal
  <2>1. Request(c, m) /\ UNCHANGED <<active, created, told, row>>
    BY <1>6 DEF MoveHit, dbVars, mapVars
  <2>2. CASE RouterEnds(c, m, user[c], "normal")
    BY <2>1, <2>2, <1>r
  <2>3. CASE UNCHANGED <<pc, job>>
    BY <2>1, <2>3, StillStutter
  <2> QED
    BY <1>6, <2>2, <2>3 DEF MoveHit
<1>7. ASSUME NEW c \in Conns, NEW m \in Matches, Resign(c, m) PROVE Goal
  BY <1>7, <1>r DEF Resign, dbVars, mapVars
<1>8. ASSUME NEW c \in Conns, NEW m \in Matches, AcceptDraw(c, m) PROVE Goal
  BY <1>8, <1>r DEF AcceptDraw, dbVars, mapVars
<1>9. CASE CheckReady
  <2>1. CASE active' # active
    BY <1>9, <2>1, LifeBegin
  <2>2. CASE active' = active
    <3>1. pc["router"] = "check" /\ UNCHANGED <<told, row>>
      BY <1>9 DEF CheckReady, dbVars
    <3>2. UNCHANGED created /\ Leaves("router", "idle")
      <4>1. /\ active \in [Matches -> 0..MaxObj] /\ created \in 0..MaxObj
            /\ job["router"].m \in Matches
            /\ active[job["router"].m] <= created
        BY DEF TypeOK, Jobs, LifeInv, MatchInv, EndInv, ObjectsInv
      <4> QED
        BY <1>0, <1>9, <2>2, <4>1, CheckReadyMoves
    <3>3. ~Pending("router") /\ ~Pending("router")' /\ OnlyMoves("router")
      BY <3>1, <3>2 DEF Pending, Leaves
    <3> QED
      BY <2>2, <3>1, <3>2, <3>3, QuietStutter
  <2> QED
    BY <2>1, <2>2
<1>10. CASE StartMatch
  <2>1. UNCHANGED <<active, created, told, row>>
    BY <1>10 DEF StartMatch, mapVars, dbVars
  <2>2. ~Pending("router") /\ ~Pending("router")' /\ OnlyMoves("router")
    BY <1>0, <1>10, StartMatchMoves DEF StartMatch, Pending, Leaves
  <2> QED
    BY <2>1, <2>2, QuietStutter
<1>11. ASSUME NEW o \in Objects, TurnExpires(o) PROVE Goal
  BY <1>11, StillStutter DEF TurnExpires, dbVars, mapVars
<1>12. CASE TimerScan
  <2>1. UNCHANGED <<active, created, told, row>>
    BY <1>12 DEF TimerScan, mapVars, dbVars
  <2>2. ~Pending("timer") /\ ~Pending("timer")' /\ OnlyMoves("timer")
    BY <1>0, <1>12, TimerScanMoves DEF TimerScan, Pending, Walks
  <2> QED
    BY <2>1, <2>2, QuietStutter
<1>13. CASE TimerNext
  <2>1. pc["timer"] = "next" /\ UNCHANGED <<active, created, told, row>>
    BY <1>13 DEF TimerNext, dbVars, mapVars
  <2>2. ~Pending("timer") /\ ~Before("timer") /\ ~After("timer")
    BY <2>1 DEF Pending, Before, After
  <2>3. CASE Walks("timer", "idle") \/ Walks("timer", "next")
    <3>1. ~Pending("timer")' /\ OnlyMoves("timer")
      BY <2>3 DEF Walks, Pending
    <3> QED
      BY <2>1, <2>2, <3>1, QuietStutter
  <2>4. ASSUME NEW m \in Matches, active[m] # NoObj,
               Takes("timer", "announce",
                     JobOf(Nobody, m, Other(m, heap[active[m]].turn), "timeout"))
        PROVE  Life!LifeNext
    <3>1. Pending("timer")' /\ OnlyMoves("timer") /\ job'["timer"].o = active[m]
      BY <2>4 DEF Takes, JobOf, Pending
    <3> QED
      BY <2>1, <2>2, <2>4, <3>1, LifeDecide
  <2> QED
    BY <1>0, <1>13, <2>3, <2>4, TimerNextMoves
<1>14. ASSUME NEW c \in Conns, Disconnect(c) PROVE Goal
  <2>1. pc[c] = "idle" /\ UNCHANGED <<active, created, told, row>>
    BY <1>14
       DEF Disconnect, LifeInv, MatchInv, EndInv, LinkInv, mapVars, dbVars
  <2>2. ~Pending(c) /\ ~Pending(c)' /\ OnlyMoves(c)
    BY <1>0, <2>1, <1>14, DisconnectMoves DEF Pending, Walks
  <2> QED
    BY <2>1, <2>2, QuietStutter
<1>15. ASSUME NEW c \in Conns, CleanupScan(c) PROVE Goal
  <2>1. UNCHANGED <<active, created, told, row>>
    BY <1>15 DEF CleanupScan, mapVars, dbVars
  <2>2. ~Pending(c) /\ ~Pending(c)' /\ OnlyMoves(c)
    BY <1>0, <1>15, CleanupScanMoves DEF CleanupScan, Pending, Walks
  <2> QED
    BY <2>1, <2>2, QuietStutter
<1>16. ASSUME NEW c \in Conns, CleanupNext(c) PROVE Goal
  <2>1. pc[c] = "next" /\ UNCHANGED <<active, created, told, row>>
    BY <1>16 DEF CleanupNext, dbVars, mapVars
  <2>2. ~Pending(c) /\ ~Before(c) /\ ~After(c)
    BY <2>1 DEF Pending, Before, After
  <2>3. CASE UNCHANGED <<pc, job>>
    BY <2>1, <2>3, StillStutter
  <2>4. ASSUME NEW m \in Matches, active[m] # NoObj,
               Takes(c, "record", JobOf(Nobody, m, Other(m, user[c]), "disconnect"))
        PROVE  Life!LifeNext
    <3>1. Pending(c)' /\ OnlyMoves(c) /\ job'[c].o = active[m]
      BY <2>4 DEF Takes, JobOf, Pending
    <3> QED
      BY <2>1, <2>2, <2>4, <3>1, LifeDecide
  <2> QED
    BY <1>0, <1>16, <2>3, <2>4, CleanupNextMoves
<1>17. ASSUME NEW c \in Conns, RemovePlayer(c) PROVE Goal
  <2>1. UNCHANGED <<active, created, told, row>>
    BY <1>17 DEF RemovePlayer, mapVars, dbVars
  <2>2. ~Pending(c) /\ ~Pending(c)' /\ OnlyMoves(c)
    BY <1>0, <1>17, RemovePlayerMoves DEF RemovePlayer, Pending, Walks
  <2> QED
    BY <2>1, <2>2, QuietStutter
<1>18. ASSUME NEW t \in Threads, Announce(t) PROVE Goal
  BY <1>18, LifeAnnounce
<1>19. ASSUME NEW t \in Threads, Record(t) PROVE Goal
  BY <1>19, LifeKeep
<1>20. ASSUME NEW t \in Threads, Free(t) PROVE Goal
  <2>1. UNCHANGED <<active, created, told, row>>
    BY <1>20 DEF Free, mapVars, dbVars
  <2>2. ~Pending(t) /\ ~Pending(t)' /\ OnlyMoves(t)
    BY <1>0, <1>20, FreeMoves DEF Free, Pending, Walks, Leaves
  <2> QED
    BY <2>1, <2>2, QuietStutter
<1>21. ASSUME NEW t \in Threads, Erase(t) PROVE Goal
  BY <1>21, LifeClose
<1>22. ASSUME NEW t \in Threads, Unready(t) PROVE Goal
  <2>1. UNCHANGED <<active, created, told, row>>
    BY <1>22 DEF Unready, dbVars
  <2>2. ~Pending(t) /\ ~Pending(t)' /\ OnlyMoves(t)
    BY <1>0, <1>22, UnreadyMoves DEF Unready, Pending, Walks, Leaves
  <2> QED
    BY <2>1, <2>2, QuietStutter
<1>23. CASE UNCHANGED vars
  BY <1>23, StillStutter DEF vars, dbVars, mapVars
<1> QED
  BY <1>1, <1>2, <1>3, <1>4, <1>5, <1>6, <1>7, <1>8, <1>9, <1>10, <1>11, <1>12,
     <1>13, <1>14, <1>15, <1>16, <1>17, <1>18, <1>19, <1>20, <1>21, <1>22,
     <1>23, NextCases

\* MatchServer's initial states are ones of MatchLife.
LEMMA InitImplements == Init => Life!LifeInit
<1> SUFFICES ASSUME Init PROVE Life!LifeInit
  OBVIOUS
<1>1. \A o \in Objects : PhaseOf(o) = "unborn"
  BY DEF Init, PhaseOf, Objects
<1>2. \A o \in Objects : DecidedOf(o) = {}
  BY DEF Init, DecidedOf
<1> QED
  BY <1>1, <1>2 DEF Init, Life!LifeInit

\* The server keeps what MatchLife promises of its matches: the router, the
\* timer and the cleanups of lost connections, whichever of them compete to
\* end a match, close it once, after a verdict that was reached while it was
\* on, and record nothing else.
THEOREM MatchLifeImplemented == ~Resubmit /\ Spec => ImplementsLife
BY InitImplements, StepImplements, LifeInvAlways, PTL
   DEF Spec, ImplementsLife, Life!LifeSpec

-----------------------------------------------------------------------------
(* The objects themselves are played as in MatchObject.                    *)

\* The router starts an object that nobody has touched.
StartInv ==
  pc["router"] = "start" =>
    LET o == active[job["router"].m] IN o = NoObj \/ heap[o] = Fresh

\* The other threads leave it alone.
LEMMA KeepStart ==
  ASSUME TypeOK, StartInv, NEW t \in Threads \ {"router"}, OnlyMoves(t),
         \A m \in Matches : active'[m] \in {active[m], NoObj},
         heap' = heap
  PROVE  StartInv'
<1>1. pc'["router"] = pc["router"] /\ job'["router"] = job["router"]
  BY ThreadFacts DEF OnlyMoves
<1>2. job["router"].m \in Matches
  BY ThreadFacts DEF TypeOK, Jobs
<1> QED
  BY <1>1, <1>2 DEF StartInv

LEMMA StillStart ==
  ASSUME StartInv, UNCHANGED <<pc, job, active, heap>>
  PROVE  StartInv'
BY DEF StartInv

LEMMA StepStart == EndInv /\ FreshInv /\ StartInv /\ [Next]_vars => StartInv'
<1> SUFFICES ASSUME EndInv, FreshInv, StartInv, [Next]_vars
             PROVE  StartInv'
  OBVIOUS
<1> USE ThreadFacts
<1>0. TypeOK /\ RoomInv
  BY DEF EndInv
<1>t. /\ heap \in [Objects -> MatchStates] /\ created \in Nat
      /\ active \in [Matches -> 0..MaxObj] /\ job["router"].m \in Matches
  BY <1>0 DEF TypeOK, Jobs
<1>1. ASSUME NEW c \in Conns, (\E u \in Users : Login(c, u)) \/ Logout(c)
      PROVE  StartInv'
  BY <1>1, StillStart DEF Login, Logout, mapVars
<1>2. ASSUME NEW c \in Conns, NEW m \in Matches, AcceptChallenge(c, m)
      PROVE  StartInv'
  BY <1>2, StillStart DEF AcceptChallenge, mapVars
<1>3. ASSUME NEW c \in Conns, NEW m \in Matches, ShipPlacement(c, m)
      PROVE  StartInv'
  <2>1. pc'["router"] = "check"
    BY <1>0, <1>3, ShipPlacementMoves DEF Takes
  <2> QED
    BY <2>1 DEF StartInv
<1>4. ASSUME NEW c \in Conns, NEW m \in Matches, MoveMiss(c, m)
      PROVE  StartInv'
  BY <1>4 DEF MoveMiss, Request, StartInv
<1>5. ASSUME NEW c \in Conns, NEW m \in Matches, MoveHit(c, m)
      PROVE  StartInv'
  <2>1. pc["router"] = "idle"
    BY <1>5 DEF MoveHit, Request
  <2>2. pc' = pc \/ pc'["router"] = "announce"
    <3>1. CASE heap[active[m]].afloat[Other(m, user[c])] = 1
      <4>1. RouterEnds(c, m, user[c], "normal")
        BY <1>5, <3>1 DEF MoveHit
      <4> QED
        BY <1>0, <4>1, RouterMoves DEF Takes
    <3>2. CASE heap[active[m]].afloat[Other(m, user[c])] # 1
      BY <1>5, <3>2 DEF MoveHit
    <3> QED
      BY <3>1, <3>2
  <2> QED
    BY <2>1, <2>2 DEF StartInv
<1>6. ASSUME NEW c \in Conns, NEW m \in Matches, Resign(c, m) \/ AcceptDraw(c, m)
      PROVE  StartInv'
  <2>1. pc'["router"] = "announce"
    BY <1>0, <1>6, RouterMoves DEF Resign, AcceptDraw, Takes
  <2> QED
    BY <2>1 DEF StartInv
<1>7. CASE CheckReady
  <2> DEFINE m == job["router"].m
  <2>1. CASE Leaves("router", "idle")
    BY <2>1 DEF Leaves, StartInv
  <2>2. CASE /\ active' = [active EXCEPT ![m] = created + 1]
             /\ Walks("router", "start")
    <3>1. created < MaxObj /\ MaxObj \in Nat
      BY <1>0, <1>7, ConstantsAssumption DEF RoomInv, CheckReady
    <3>2. created + 1 \in Objects /\ created + 1 > created
      BY <1>t, <3>1 DEF Objects
    <3>3. heap[created + 1] = Fresh
      BY <3>2 DEF FreshInv
    <3>4. heap' = heap /\ job'["router"] = job["router"]
      BY <1>7, <2>2 DEF CheckReady, Walks
    <3> QED
      BY <1>t, <2>2, <3>3, <3>4 DEF StartInv
  <2> QED
    BY <1>0, <1>7, <2>1, <2>2, CheckReadyMoves
<1>8. CASE StartMatch
  BY <1>0, <1>8, StartMatchMoves DEF Leaves, StartInv
<1>9. ASSUME NEW o \in Objects, TurnExpires(o)
      PROVE  StartInv'
  <2>1. \A x \in Objects : heap[x] = Fresh => heap'[x] = heap[x]
    <3>1. heap[o].live /\ heap' = [heap EXCEPT ![o].late = TRUE]
      BY <1>9 DEF TurnExpires
    <3>2. Fresh.live = FALSE
      BY DEF Fresh
    <3> QED
      BY <1>t, <3>1, <3>2
  <2>2. UNCHANGED <<pc, job, active>>
    BY <1>9 DEF TurnExpires, mapVars
  <2>3. active[job["router"].m] = NoObj \/ active[job["router"].m] \in Objects
    BY <1>t DEF NoObj, Objects
  <2> QED
    BY <2>1, <2>2, <2>3 DEF StartInv
<1>10. CASE TimerScan \/ TimerNext
  <2>1. OnlyMoves("timer")
    BY <1>0, <1>10, TimerScanMoves, TimerNextMoves DEF Walks, Takes
  <2>2. active' = active /\ heap' = heap
    BY <1>10 DEF TimerScan, TimerNext, mapVars
  <2> QED
    BY <1>0, <2>1, <2>2, KeepStart
<1>11. ASSUME NEW c \in Conns,
              Disconnect(c) \/ CleanupScan(c) \/ CleanupNext(c) \/ RemovePlayer(c)
       PROVE  StartInv'
  <2>1. active' = active /\ heap' = heap
    BY <1>11 DEF Disconnect, CleanupScan, CleanupNext, RemovePlayer, mapVars
  <2>2. OnlyMoves(c) \/ UNCHANGED <<pc, job>>
    BY <1>0, <1>11, DisconnectMoves, CleanupScanMoves, CleanupNextMoves,
       RemovePlayerMoves DEF Walks, Takes
  <2> QED
    BY <1>0, <2>1, <2>2, KeepStart, StillStart
<1>12. ASSUME NEW t \in Threads,
              Announce(t) \/ Record(t) \/ Free(t) \/ Erase(t) \/ Unready(t)
       PROVE  StartInv'
  <2>1. heap' = heap /\ \A m \in Matches : active'[m] \in {active[m], NoObj}
    BY <1>t, <1>12 DEF Announce, Record, Free, Erase, Unready, mapVars
  <2>2. OnlyMoves(t) /\ (t = "router" => pc'[t] # "start")
    BY <1>0, <1>12, AnnounceMoves, RecordMoves, FreeMoves, EraseMoves, UnreadyMoves
       DEF Walks, Leaves
  <2>3. CASE t = "router"
    BY <2>2, <2>3 DEF StartInv
  <2>4. CASE t # "router"
    BY <1>0, <2>1, <2>2, <2>4, KeepStart
  <2> QED
    BY <2>3, <2>4
<1>13. CASE UNCHANGED vars
  BY <1>13, StillStart DEF vars, mapVars
<1> QED
  BY <1>1, <1>2, <1>3, <1>4, <1>5, <1>6, <1>7, <1>8, <1>9, <1>10, <1>11, <1>12,
     <1>13, NextCases

ObjectStep(o) == [Object(o)!ObjectNext]_(Object(o)!objectVars)

LEMMA ObjectStarts ==
  ASSUME EndInv, StartInv, StartMatch, NEW o \in Objects
  PROVE  ObjectStep(o)
<1> DEFINE m == job["router"].m
<1>1. /\ m \in Matches /\ heap \in [Objects -> MatchStates]
      /\ active[m] = NoObj \/ active[m] \in Objects
      /\ Players(m) \subseteq Users
  BY ThreadFacts, ConstantFacts DEF EndInv, TypeOK, Jobs, Objects, NoObj
<1>2. CASE active[m] = NoObj
  BY <1>2 DEF StartMatch, ObjectStep, Object!objectVars
<1>3. CASE active[m] # NoObj
  <2> DEFINE x == active[m]
  <2>1. PICK u \in Players(m) :
          heap' = [heap EXCEPT ![x] = [Fresh EXCEPT !.live = TRUE, !.turn = u]]
    BY <1>3 DEF StartMatch
  <2>2. heap[x] = Fresh
    BY <1>3 DEF StartMatch, StartInv
  <2> DEFINE r == [Fresh EXCEPT !.live = TRUE, !.turn = u]
  <2>3. r.live = TRUE /\ r.turn = u /\ r.afloat = Fresh.afloat /\ Fresh.turn = Nobody
    BY DEF Fresh
  <2> HIDE DEF r
  <2>4. CASE o = x
    <3>1. heap'[o] = r
      BY <1>1, <2>1, <2>4 DEF r
    <3>2. Object(o)!Begin
      BY <1>1, <2>2, <2>3, <2>4, <3>1 DEF Object!Begin
    <3> QED
      BY <3>2 DEF ObjectStep, Object!ObjectNext
  <2>5. CASE o # x
    <3>1. heap'[o] = heap[o]
      BY <1>1, <2>1, <2>5
    <3> QED
      BY <3>1 DEF ObjectStep, Object!objectVars
  <2> QED
    BY <2>4, <2>5
<1> QED
  BY <1>2, <1>3

LEMMA ObjectPasses ==
  ASSUME EndInv, PlayInv, NEW c \in Conns, NEW m \in Matches, MoveMiss(c, m), NEW o \in Objects
  PROVE  ObjectStep(o)
<1> DEFINE x == active[m]
<1>1. heap \in [Objects -> MatchStates] /\ x \in Objects
  BY DEF EndInv, TypeOK, Objects, NoObj, MoveMiss, Request
<1>1a. user[c] \in Players(m)
  BY DEF PlayInv, Playable, Working, MoveMiss, Request
<1>2. /\ heap[x].live /\ heap[x].turn = user[c]
      /\ heap' = [heap EXCEPT ![x].turn = Other(m, @), ![x].late = FALSE]
  BY DEF MoveMiss
<1>3. Other(m, user[c]) \in Users \ {user[c]}
  BY <1>1a, ConstantsAssumption DEF Other, Players
<1> HIDE DEF x
<1>4. CASE o = x
  <2>1. /\ heap'[o].live = heap[o].live /\ heap'[o].afloat = heap[o].afloat
        /\ heap'[o].turn = Other(m, heap[o].turn)
    BY <1>1, <1>2, <1>4 DEF MatchStates
  <2>2. Object(o)!Pass
    BY <1>2, <1>3, <1>4, <2>1 DEF Object!Pass
  <2> QED
    BY <2>2 DEF ObjectStep, Object!ObjectNext
<1>5. CASE o # x
  <2>1. heap'[o] = heap[o]
    BY <1>1, <1>2, <1>5
  <2> QED
    BY <2>1 DEF ObjectStep, Object!objectVars
<1> QED
  BY <1>4, <1>5

LEMMA ObjectIsStruck ==
  ASSUME EndInv, PlayInv, NEW c \in Conns, NEW m \in Matches, MoveHit(c, m), NEW o \in Objects
  PROVE  ObjectStep(o)
<1> DEFINE x == active[m]
           v == Other(m, user[c])
<1>1. heap \in [Objects -> MatchStates] /\ x \in Objects
  BY DEF EndInv, TypeOK, Objects, NoObj, MoveHit, Request
<1>1a. user[c] \in Players(m)
  BY DEF PlayInv, Playable, Working, MoveHit, Request
<1>2. /\ heap[x].live /\ heap[x].turn = user[c] /\ heap[x].afloat[v] > 0
      /\ IF heap[x].afloat[v] = 1
           THEN heap' = [heap EXCEPT ![x].afloat[v] = 0, ![x].live = FALSE]
           ELSE heap' = [heap EXCEPT ![x].afloat[v] = @ - 1]
  BY DEF MoveHit
<1>3. v \in Users \ {user[c]}
  BY <1>1a, ConstantsAssumption DEF Other, Players
<1>4. heap[x].afloat \in [Users -> 0..Fleet] /\ heap[x].afloat[v] \in Nat
      /\ heap[x].live = TRUE
  BY <1>1, <1>2, <1>3, ConstantsAssumption DEF MatchStates
<1> HIDE DEF x, v
<1>5. CASE o = x
  <2>1. /\ heap'[o].turn = heap[o].turn
        /\ heap'[o].afloat = [heap[o].afloat EXCEPT ![v] = @ - 1]
        /\ heap'[o].live = (heap'[o].afloat[v] # 0)
    <3>1. CASE heap[x].afloat[v] = 1
      <4>1. /\ heap'[o].turn = heap[o].turn /\ heap'[o].live = FALSE
            /\ heap'[o].afloat = [heap[o].afloat EXCEPT ![v] = 0]
        BY <1>1, <1>2, <1>5, <3>1 DEF MatchStates
      <4>2. heap[o].afloat[v] - 1 = 0 /\ heap'[o].afloat[v] = 0
        BY <1>3, <1>4, <1>5, <3>1, <4>1
      <4>3. (heap'[o].afloat[v] # 0) = FALSE
        BY <4>2
      <4> QED
        BY <4>1, <4>2, <4>3
    <3>2. CASE heap[x].afloat[v] # 1
      <4>1. /\ heap'[o].turn = heap[o].turn /\ heap'[o].live = heap[o].live
            /\ heap'[o].afloat = [heap[o].afloat EXCEPT ![v] = @ - 1]
        BY <1>1, <1>2, <1>5, <3>2 DEF MatchStates
      <4>2. heap'[o].afloat[v] = heap[o].afloat[v] - 1
        BY <1>3, <1>4, <1>5, <4>1
      <4>3. heap'[o].afloat[v] # 0
        BY <1>2, <1>4, <1>5, <3>2, <4>2
      <4>4. (heap'[o].afloat[v] # 0) = TRUE
        BY <4>3
      <4> QED
        BY <1>4, <1>5, <4>1, <4>4
    <3> QED
      BY <3>1, <3>2
  <2>2. Object(o)!Strike
    BY <1>2, <1>3, <1>5, <2>1 DEF Object!Strike
  <2> QED
    BY <2>2 DEF ObjectStep, Object!ObjectNext
<1>6. CASE o # x
  <2>1. heap'[o] = heap[o]
    BY <1>1, <1>2, <1>6
  <2> QED
    BY <2>1 DEF ObjectStep, Object!objectVars
<1> QED
  BY <1>5, <1>6

\* Each match object is started once, by the thread that created it, then
\* played by turns until one fleet is gone, and never touched otherwise:
\* what MatchGame does with boards, and what the threads do with objects
\* while they compete, are behaviours of the same MatchObject.
THEOREM ObjectsPlayed == Spec => ObjectsArePlayed
<1>1. ASSUME EndInv, PlayInv, StartInv, [Next]_vars, NEW o \in Objects
      PROVE  ObjectStep(o)
  <2>1. ASSUME NEW c \in Conns, NEW m \in Matches,
               MoveMiss(c, m) \/ MoveHit(c, m)
        PROVE  ObjectStep(o)
    BY <1>1, <2>1, ObjectPasses, ObjectIsStruck
  <2>2. CASE StartMatch
    BY <1>1, <2>2, ObjectStarts
  <2>3. ASSUME NEW x \in Objects, TurnExpires(x)
        PROVE  ObjectStep(o)
    <3>1. heap[o] \in MatchStates /\ heap' = [heap EXCEPT ![x].late = TRUE]
      BY <1>1, <2>3 DEF EndInv, TypeOK, TurnExpires
    <3>2. /\ heap'[o].live = heap[o].live /\ heap'[o].turn = heap[o].turn
          /\ heap'[o].afloat = heap[o].afloat
      BY <1>1, <2>3, <3>1 DEF EndInv, TypeOK, MatchStates
    <3> QED
      BY <3>2 DEF ObjectStep, Object!objectVars
  <2>4. CASE heap' = heap
    BY <2>4 DEF ObjectStep, Object!objectVars
  <2>5. ASSUME NEW c \in Conns, NEW m \in Matches,
               \/ AcceptChallenge(c, m) \/ ShipPlacement(c, m)
               \/ Resign(c, m) \/ AcceptDraw(c, m)
        PROVE  heap' = heap
    BY <2>5 DEF AcceptChallenge, ShipPlacement, Resign, AcceptDraw
  <2>6. ASSUME NEW c \in Conns,
               \/ Logout(c) \/ \E u \in Users : Login(c, u)
               \/ Disconnect(c) \/ CleanupScan(c) \/ CleanupNext(c) \/ RemovePlayer(c)
        PROVE  heap' = heap
    BY <2>6 DEF Logout, Login, Disconnect, CleanupScan, CleanupNext, RemovePlayer
  <2>7. ASSUME \/ CheckReady \/ TimerScan \/ TimerNext \/ UNCHANGED vars
        PROVE  heap' = heap
    BY <2>7 DEF CheckReady, TimerScan, TimerNext, vars
  <2>8. ASSUME NEW t \in Threads,
               Announce(t) \/ Record(t) \/ Free(t) \/ Erase(t) \/ Unready(t)
        PROVE  heap' = heap
    BY <2>8 DEF Announce, Record, Free, Erase, Unready
  <2> QED
    BY <1>1, <2>1, <2>2, <2>3, <2>4, <2>5, <2>6, <2>7, <2>8, NextCases
<1>2. EndInv /\ PlayInv /\ StartInv /\ [Next]_vars
        => [\A o \in Objects : [Object(o)!ObjectNext]_(Object(o)!objectVars)]_heap
  BY <1>1 DEF ObjectStep
<1>3. Init => StartInv /\ \A o \in Objects : Object(o)!ObjectInit
  <2> SUFFICES ASSUME Init
               PROVE  StartInv /\ \A o \in Objects : Object(o)!ObjectInit
    OBVIOUS
  <2>1. StartInv
    BY ThreadFacts DEF Init, StartInv
  <2>2. ASSUME NEW o \in Objects
        PROVE  Object(o)!ObjectInit
    BY DEF Init, Fresh, Object!ObjectInit
  <2> QED
    BY <2>1, <2>2
<1>4. MatchInv => EndInv /\ PlayInv /\ FreshInv
  BY DEF MatchInv
<1> QED
  BY <1>2, <1>3, <1>4, StepStart, MatchInvAlways, PTL DEF Spec, ObjectsArePlayed
=============================================================================
