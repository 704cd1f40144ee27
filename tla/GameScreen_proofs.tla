------------------------- MODULE GameScreen_proofs -------------------------
(***************************************************************************)
(* Proofs about GameScreen, for any board, fleets, shots and any number of *)
(* messages on their way: the handlers play the match of MatchGame, and    *)
(* what each client shows agrees with it but for the messages it has not   *)
(* handled.                                                                *)
(***************************************************************************)
EXTENDS GameScreen, TLAPS

Game == INSTANCE MatchGame_proofs

-----------------------------------------------------------------------------
(* The match of the server is one of MatchGame, with its invariant.        *)

LEMMA MatchAssumptions == Game!BoardAssumption /\ Game!PlayersAssumption
<1>1. Game!BoardAssumption
  BY BoardAssumption DEF BoardAssumption, Game!BoardAssumption, IsFiniteSet,
     Game!IsFiniteSet
<1>2. Game!PlayersAssumption
  BY ScreenAssumption DEF Game!PlayersAssumption
<1> QED
  BY <1>1, <1>2

LEMMA SameInit == Server!Init <=> Game!Init
BY DEF Server!Init, Game!Init, Server!None, Game!None, Server!Cells, Game!Cells,
   Server!NumShips, Game!NumShips, Server!Cardinality, Game!Cardinality

LEMMA SameNext == [Server!Next]_(Server!vars) <=> [Game!Next]_(Game!vars)
BY DEF Server!Next, Game!Next, Server!vars, Game!vars, Server!boards, Game!boards,
   Server!Place, Game!Place, Server!Start, Game!Start, Server!Miss, Game!Miss,
   Server!Hit, Game!Hit, Server!Other, Game!Other, Server!None, Game!None,
   Server!NumShips, Game!NumShips, Server!Cardinality, Game!Cardinality,
   Server!Placements, Game!Placements, Server!Spots, Game!Spots,
   Server!Fits, Game!Fits, Server!Cells, Game!Cells,
   Server!Orientations, Game!Orientations, Server!Kept, Game!Kept,
   Server!Disjoint, Game!Disjoint, Server!Afloat, Game!Afloat,
   Server!CellsOf, Game!CellsOf, Server!Covers, Game!Covers,
   Server!CellAt, Game!CellAt

LEMMA SameTypes == Server!TypeOK <=> Game!TypeOK
BY DEF Server!TypeOK, Game!TypeOK, Server!None, Game!None,
   Server!NumShips, Game!NumShips, Server!Cardinality, Game!Cardinality,
   Server!Placements, Game!Placements, Server!Spots, Game!Spots,
   Server!Fits, Game!Fits, Server!Cells, Game!Cells,
   Server!Orientations, Game!Orientations, Server!Ships, Game!Ships,
   Server!CellStates, Game!CellStates

LEMMA MatchInit == Server!Init => Game!Inv
BY SameInit, MatchAssumptions, Game!InvInit

LEMMA MatchNext == Game!Inv /\ [Server!Next]_(Server!vars) => Game!Inv'
BY SameNext, MatchAssumptions, Game!InvNext

LEMMA TwoPlayers ==
  \A u \in Players :
    /\ Other(u) \in Players /\ Other(u) # u
    /\ \A v \in Players : v = u \/ v = Other(u)
    /\ Other(Other(u)) = u
BY MatchAssumptions, Game!TwoPlayers DEF Game!Other, Other, Server!Other

LEMMA SameCells == Server!Cells = Cells /\ Server!CellStates = CellStates
BY DEF Server!Cells, Cells, Server!CellStates, CellStates

\* What the invariant of MatchGame says in the words of this module.
LEMMA MatchFacts ==
  Game!Inv =>
    /\ Server!TypeOK
    /\ active => turn # Nobody /\ \A u \in Players : left[u] # 0
    /\ turn = Nobody => \A u \in Players : \A c \in Cells : grid[u][c] = "empty"
    /\ \A u \in Players : DOMAIN ships[u] \subseteq Types
    /\ grid \in [Players -> [Cells -> CellStates]]
<1> SUFFICES ASSUME Game!Inv
             PROVE  /\ Server!TypeOK
                    /\ active => turn # Nobody /\ \A u \in Players : left[u] # 0
                    /\ turn = Nobody =>
                         \A u \in Players : \A c \in Cells : grid[u][c] = "empty"
                    /\ \A u \in Players : DOMAIN ships[u] \subseteq Types
                    /\ grid \in [Players -> [Cells -> CellStates]]
  OBVIOUS
<1>1. Server!TypeOK
  BY SameTypes DEF Game!Inv
<1>2. active => turn # Nobody /\ \A u \in Players : left[u] # 0
  <2>1. active => turn # Nobody /\ winner = Nobody
    BY DEF Game!Inv, Game!OverInv
  <2>2. \A u \in Players : winner = u <=> left[Other(u)] = 0
    BY DEF Game!Inv, Game!OverInv, Game!Other, Other, Server!Other
  <2> QED
    BY <2>1, <2>2, TwoPlayers, ScreenAssumption
<1>3. turn = Nobody => \A u \in Players : \A c \in Cells : grid[u][c] = "empty"
  BY DEF Game!Inv, Game!IdleInv, Game!Cells, Cells
<1>4. \A u \in Players : DOMAIN ships[u] \subseteq Types
  BY DEF Game!Inv, Game!FleetInv
<1>5. grid \in [Players -> [Cells -> CellStates]]
  BY <1>1, SameCells DEF Server!TypeOK
<1> QED
  BY <1>1, <1>2, <1>3, <1>4, <1>5

-----------------------------------------------------------------------------
(* Queues.                                                                 *)

LEMMA SentFacts ==
  ASSUME NEW S, NEW q \in Seq(S), NEW ms \in Seq(S)
  PROVE  /\ q \o ms \in Seq(S)
         /\ DOMAIN q = 1..Len(q) /\ DOMAIN (q \o ms) = 1..Len(q) + Len(ms)
         /\ \A i \in DOMAIN q : i \in DOMAIN (q \o ms) /\ (q \o ms)[i] = q[i]
         /\ \A i \in 1..Len(ms) : (q \o ms)[Len(q) + i] = ms[i]
         /\ \A i \in DOMAIN (q \o ms) :
              i \in DOMAIN q \/ \E k \in 1..Len(ms) : i = Len(q) + k
<1>1. \A i \in DOMAIN (q \o ms) :
        i \in DOMAIN q \/ \E k \in 1..Len(ms) : i = Len(q) + k
  <2> SUFFICES ASSUME NEW i \in DOMAIN (q \o ms), i \notin DOMAIN q
               PROVE  \E k \in 1..Len(ms) : i = Len(q) + k
    OBVIOUS
  <2>1. i - Len(q) \in 1..Len(ms) /\ i = Len(q) + (i - Len(q))
    OBVIOUS
  <2> QED
    BY <2>1
<1> QED
  BY <1>1

LEMMA TailFacts ==
  ASSUME NEW S, NEW q \in Seq(S), q # <<>>
  PROVE  /\ Tail(q) \in Seq(S) /\ Head(q) \in S /\ Head(q) = q[1]
         /\ DOMAIN q = 1..Len(q) /\ 1 \in DOMAIN q
         /\ \A i \in DOMAIN Tail(q) : i \in Nat /\ i + 1 \in DOMAIN q
                                      /\ Tail(q)[i] = q[i + 1]
         /\ \A i \in DOMAIN q : i # 1 => i - 1 \in DOMAIN Tail(q)
                                         /\ Tail(q)[i - 1] = q[i]
OBVIOUS

LEMMA Two ==
  ASSUME NEW S, NEW a \in S, NEW b \in S
  PROVE  /\ <<a, b>> \in Seq(S) /\ Len(<<a, b>>) = 2
         /\ <<a>> \in Seq(S) /\ Len(<<a>>) = 1
         /\ <<a, b>>[1] = a /\ <<a, b>>[2] = b /\ <<a>>[1] = a
OBVIOUS

\* A message of a kind is in the queue.
HasKind(q, k) == \E i \in DOMAIN q : q[i].kind = k

LEMMA KindSent ==
  ASSUME NEW S, NEW q \in Seq(S), NEW ms \in Seq(S), NEW k
  PROVE  HasKind(q \o ms, k) <=> HasKind(q, k) \/ HasKind(ms, k)
<1>1. /\ DOMAIN ms = 1..Len(ms)
      /\ \A i \in 1..Len(ms) : Len(q) + i \in DOMAIN (q \o ms)
  OBVIOUS
<1>2. HasKind(q, k) => HasKind(q \o ms, k)
  BY SentFacts DEF HasKind
<1>3. HasKind(ms, k) => HasKind(q \o ms, k)
  BY <1>1, SentFacts DEF HasKind
<1>4. HasKind(q \o ms, k) => HasKind(q, k) \/ HasKind(ms, k)
  BY <1>1, SentFacts DEF HasKind
<1> QED
  BY <1>2, <1>3, <1>4

LEMMA KindTail ==
  ASSUME NEW S, NEW q \in Seq(S), q # <<>>, NEW k
  PROVE  HasKind(q, k) <=> Head(q).kind = k \/ HasKind(Tail(q), k)
<1>1. ASSUME NEW i \in DOMAIN q, q[i].kind = k
      PROVE  Head(q).kind = k \/ HasKind(Tail(q), k)
  <2>1. i # 1 => i - 1 \in DOMAIN Tail(q) /\ Tail(q)[i - 1] = q[i]
    BY TailFacts
  <2> QED
    BY <1>1, <2>1, TailFacts DEF HasKind
<1>2. Head(q).kind = k => HasKind(q, k)
  BY TailFacts DEF HasKind
<1>3. HasKind(Tail(q), k) => HasKind(q, k)
  BY TailFacts DEF HasKind
<1> QED
  BY <1>1, <1>2, <1>3 DEF HasKind

LEMMA KindTwo ==
  ASSUME NEW a, NEW b, NEW k
  PROVE  /\ HasKind(<<a, b>>, k) <=> a.kind = k \/ b.kind = k
         /\ HasKind(<<a>>, k) <=> a.kind = k
<1>1. DOMAIN <<a, b>> = {1, 2} /\ DOMAIN <<a>> = {1}
  OBVIOUS
<1>2. <<a, b>>[1] = a /\ <<a, b>>[2] = b /\ <<a>>[1] = a
  OBVIOUS
<1> QED
  BY <1>1, <1>2 DEF HasKind

\* MATCH_READY comes first.
ReadyFirst(q) == \A i \in DOMAIN q : q[i].kind = "ready" => i = 1

LEMMA ReadySent ==
  ASSUME NEW S, NEW q \in Seq(S), NEW ms \in Seq(S), ReadyFirst(q),
         ~HasKind(ms, "ready")
  PROVE  ReadyFirst(q \o ms)
<1> SUFFICES ASSUME NEW i \in DOMAIN (q \o ms), (q \o ms)[i].kind = "ready"
             PROVE  i = 1
  BY DEF ReadyFirst
<1>1. i \in DOMAIN q => i = 1
  BY SentFacts DEF ReadyFirst
<1>2. DOMAIN ms = 1..Len(ms)
  OBVIOUS
<1>3. ~\E k \in 1..Len(ms) : i = Len(q) + k
  BY <1>2, SentFacts DEF HasKind
<1> QED
  BY <1>1, <1>3, SentFacts

LEMMA ReadyTail ==
  ASSUME NEW S, NEW q \in Seq(S), q # <<>>, ReadyFirst(q)
  PROVE  ReadyFirst(Tail(q)) /\ ~HasKind(Tail(q), "ready")
<1>1. \A i \in DOMAIN Tail(q) : Tail(q)[i].kind # "ready"
  <2> SUFFICES ASSUME NEW i \in DOMAIN Tail(q), Tail(q)[i].kind = "ready"
               PROVE  FALSE
    OBVIOUS
  <2>1. i \in Nat \ {0} /\ i + 1 \in DOMAIN q /\ q[i + 1].kind = "ready"
    BY TailFacts
  <2>2. i + 1 = 1
    BY <2>1 DEF ReadyFirst
  <2> QED
    BY <2>1, <2>2
<1> QED
  BY <1>1 DEF ReadyFirst, HasKind

\* The last turn in the queue.
IsLastTurn(q, i) ==
  q[i].kind = "turn" /\ \A j \in DOMAIN q : j > i => q[j].kind # "turn"
LastTurnIs(q, u) ==
  HasKind(q, "turn") => \E i \in DOMAIN q : IsLastTurn(q, i) /\ q[i].of = u

LEMMA TurnSent ==
  ASSUME NEW S, NEW q \in Seq(S), NEW a \in S, NEW b \in S, b.kind = "turn"
  PROVE  LastTurnIs(q \o <<a, b>>, b.of)
<1> DEFINE r == q \o <<a, b>>
<1>1. /\ <<a, b>> \in Seq(S) /\ Len(<<a, b>>) = 2
      /\ <<a, b>>[1] = a /\ <<a, b>>[2] = b
  BY Two
<1>2. /\ Len(q) \in Nat /\ DOMAIN r = 1..Len(q) + 2 /\ r[Len(q) + 2] = b
  BY <1>1, SentFacts
<1> HIDE DEF r
<1>3. Len(q) + 2 \in DOMAIN r /\ IsLastTurn(r, Len(q) + 2)
  BY <1>2 DEF IsLastTurn
<1> QED
  BY <1>2, <1>3 DEF LastTurnIs, r

LEMMA NoTurnSent ==
  ASSUME NEW S, NEW q \in Seq(S), NEW ms \in Seq(S), NEW u,
         ~HasKind(ms, "turn"), LastTurnIs(q, u)
  PROVE  LastTurnIs(q \o ms, u)
<1> SUFFICES ASSUME HasKind(q \o ms, "turn")
             PROVE  \E i \in DOMAIN (q \o ms) :
                      IsLastTurn(q \o ms, i) /\ (q \o ms)[i].of = u
  BY DEF LastTurnIs
<1>1. DOMAIN ms = 1..Len(ms)
  OBVIOUS
<1>2. PICK i \in DOMAIN q : IsLastTurn(q, i) /\ q[i].of = u
  BY KindSent DEF LastTurnIs
<1>3. i \in DOMAIN (q \o ms) /\ (q \o ms)[i] = q[i]
  BY SentFacts
<1>4. ASSUME NEW j \in DOMAIN (q \o ms), j > i
      PROVE  (q \o ms)[j].kind # "turn"
  <2>1. j \in DOMAIN q => (q \o ms)[j].kind # "turn"
    BY <1>2, <1>4, SentFacts DEF IsLastTurn
  <2>2. \A k \in 1..Len(ms) : (q \o ms)[Len(q) + k].kind # "turn"
    BY <1>1, SentFacts DEF HasKind
  <2> QED
    BY <2>1, <2>2, SentFacts
<1> QED
  BY <1>2, <1>3, <1>4 DEF IsLastTurn

LEMMA LastTurnTail ==
  ASSUME NEW S, NEW q \in Seq(S), q # <<>>, NEW u, LastTurnIs(q, u)
  PROVE  /\ LastTurnIs(Tail(q), u)
         /\ Head(q).kind = "turn" /\ ~HasKind(Tail(q), "turn") => Head(q).of = u
<1>1. DOMAIN q = 1..Len(q) /\ Len(q) \in Nat
  OBVIOUS
<1>2. ASSUME HasKind(Tail(q), "turn")
      PROVE  \E i \in DOMAIN Tail(q) : IsLastTurn(Tail(q), i) /\ Tail(q)[i].of = u
  <2>1. PICK i \in DOMAIN q : IsLastTurn(q, i) /\ q[i].of = u
    BY <1>2, KindTail DEF LastTurnIs
  <2>2. ASSUME NEW j \in DOMAIN Tail(q), j + 1 > i
        PROVE  Tail(q)[j].kind # "turn"
    BY <2>1, <2>2, TailFacts DEF IsLastTurn
  <2>3. i # 1
    <3>1. \A j \in DOMAIN Tail(q) : j \in Nat /\ j + 1 > 1
      OBVIOUS
    <3> QED
      BY <1>2, <2>2, <3>1 DEF HasKind
  <2>4. i - 1 \in DOMAIN Tail(q) /\ Tail(q)[i - 1] = q[i]
    BY <2>3, TailFacts
  <2>5. ASSUME NEW j \in DOMAIN Tail(q), j > i - 1
        PROVE  Tail(q)[j].kind # "turn"
    BY <1>1, <2>2, <2>5, TailFacts
  <2> QED
    BY <2>1, <2>4, <2>5 DEF IsLastTurn
<1>3. ASSUME Head(q).kind = "turn", ~HasKind(Tail(q), "turn")
      PROVE  Head(q).of = u
  <2>1. HasKind(q, "turn") /\ Head(q) = q[1]
    BY <1>3, KindTail, TailFacts
  <2>2. PICK i \in DOMAIN q : q[i].kind = "turn" /\ q[i].of = u
    BY <2>1 DEF LastTurnIs, IsLastTurn
  <2>3. i # 1 => i - 1 \in DOMAIN Tail(q) /\ Tail(q)[i - 1] = q[i]
    BY TailFacts
  <2>4. i = 1
    BY <1>3, <2>2, <2>3 DEF HasKind
  <2> QED
    BY <2>1, <2>2, <2>4
<1> QED
  BY <1>2, <1>3 DEF LastTurnIs

-----------------------------------------------------------------------------
(* Messages and shots.                                                     *)

Results ==
  {Result(u, c, res, t, over) : u \in Players, c \in Cells, t \in Types,
                                res \in {"miss", "hit", "sunk"}, over \in BOOLEAN}

LEMMA NoticeKinds ==
  /\ Ready \in Notices /\ End \in Notices
  /\ \A u \in Players : Turn(u) \in Notices
  /\ Results \subseteq Notices
<1> DEFINE turns == {Turn(u) : u \in Players}
<1>1. Notices = {Ready, End} \cup turns \cup Results
  BY DEF Notices, Results
<1>2. \A u \in Players : Turn(u) \in turns
  OBVIOUS
<1> HIDE DEF turns
<1> QED
  BY <1>1, <1>2

LEMMA NoticeTypes ==
  /\ Ready \in Notices /\ Ready.kind = "ready"
  /\ End \in Notices /\ End.kind = "end"
  /\ \A u \in Players : Turn(u) \in Notices /\ Turn(u).kind = "turn" /\ Turn(u).of = u
BY NoticeKinds DEF Ready, End, Turn

LEMMA ResultTypes ==
  ASSUME NEW u \in Players, NEW c \in Cells, NEW res \in {"miss", "hit", "sunk"},
         NEW t \in Types, NEW over \in BOOLEAN
  PROVE  Result(u, c, res, t, over) \in Notices
<1>1. Result(u, c, res, t, over) \in Results
  BY DEF Results
<1> QED
  BY <1>1, NoticeKinds

\* Only the fields of the kind of a message are looked at.
LEMMA NoticeFields ==
  ASSUME NEW m \in Notices
  PROVE  /\ m.kind \in {"ready", "end", "turn", "result"}
         /\ m.kind = "ready" <=> m = Ready
         /\ m.kind = "end" <=> m = End
         /\ m.kind = "turn" => m.of \in Players /\ m = Turn(m.of)
         /\ m.kind = "result" =>
              /\ m.by \in Players /\ m.cell \in Cells /\ m.type \in Types
              /\ m.res \in {"miss", "hit", "sunk"} /\ m.over \in BOOLEAN
BY DEF Notices, Ready, End, Turn, Result

LEMMA RequestFields ==
  ASSUME NEW m \in Requests
  PROVE  /\ m.kind \in {"move", "resign"}
         /\ m.kind = "move" => m.cell \in Cells
BY DEF Requests, Move, ResignMsg

LEMMA RequestTypes ==
  ResignMsg \in Requests /\ \A c \in Cells : Move(c) \in Requests
BY DEF Requests

Shot(u, c) == Server!Miss(u, c) \/ Server!Hit(u, c)

LEMMA VerdictFacts ==
  ASSUME Game!Inv, NEW u \in Players, NEW c \in Cells, Shot(u, c)
  PROVE  /\ Verdict(u, c) \in Notices
         /\ Verdict(u, c).kind = "result"
         /\ Verdict(u, c).by = u /\ Verdict(u, c).cell = c
         /\ Verdict(u, c).res # "miss" => grid[Other(u)][c] = "ship"
<1> DEFINE v == Other(u)
           res == IF grid[v][c] # "ship" THEN "miss"
                  ELSE IF SunkNow(v) = {} THEN "hit" ELSE "sunk"
           t == CHOOSE t \in Types : res = "sunk" => t \in SunkNow(v)
<1>1. Verdict(u, c) = Result(u, c, res, t, left'[v] = 0)
  BY DEF Verdict
<1>2. v \in Players /\ DOMAIN ships[v] \subseteq Types
  BY TwoPlayers, MatchFacts
<1>3. \E s \in Types : res = "sunk" => s \in SunkNow(v)
  <2>1. CASE res = "sunk"
    <3>1. PICK s \in SunkNow(v) : TRUE
      BY <2>1
    <3>2. s \in Types
      BY <1>2 DEF SunkNow
    <3> QED
      BY <3>1, <3>2
  <2>2. CASE res # "sunk"
    <3>1. PICK s \in Types : TRUE
      BY BoardAssumption
    <3> QED
      BY <2>2, <3>1
  <2> QED
    BY <2>1, <2>2
<1>4. t \in Types
  <2> HIDE DEF res
  <2> QED
    BY <1>3
<1>5. res \in {"miss", "hit", "sunk"} /\ (res # "miss" => grid[v][c] = "ship")
  OBVIOUS
<1> HIDE DEF res, t
<1>6. (left'[v] = 0) \in BOOLEAN
  OBVIOUS
<1>7. Result(u, c, res, t, left'[v] = 0) \in Notices
  BY <1>4, <1>5, <1>6, ResultTypes
<1> QED
  BY <1>1, <1>5, <1>7 DEF Result

\* What a shot changes: one cell of the other's board, and the turn if the
\* shot found no ship; a shot that ends the match keeps the turn.
LEMMA ShotFacts ==
  ASSUME Game!Inv, NEW u \in Players, NEW c \in Cells, Shot(u, c)
  PROVE  /\ turn = u /\ turn' \in Players
         /\ left'[Other(u)] = 0 => turn' = turn
         /\ UNCHANGED stored
         /\ \A w \in Players : \A d \in Cells :
              w # Other(u) \/ d # c => grid'[w][d] = grid[w][d]
         /\ grid[Other(u)][c] = "ship" => grid'[Other(u)][c] = "hit"
         /\ grid[Other(u)][c] = "empty" => grid'[Other(u)][c] = "miss"
         /\ grid[Other(u)][c] \in {"hit", "miss"}
              => grid'[Other(u)][c] = grid[Other(u)][c]
<1>1. Other(u) \in Players /\ Server!Other(u) = Other(u)
  BY TwoPlayers DEF Other
<1>2. grid \in [Players -> [Cells -> CellStates]]
  BY MatchFacts
<1>3. CASE Server!Miss(u, c)
  <2>1. left[Other(u)] # 0 /\ left' = left
    BY <1>1, <1>3, MatchFacts DEF Server!Miss
  <2>2. grid' = IF grid[Other(u)][c] = "empty"
                  THEN [grid EXCEPT ![Other(u)][c] = "miss"] ELSE grid
    BY <1>1, <1>3 DEF Server!Miss
  <2>3. turn = u /\ turn' = Other(u) /\ UNCHANGED stored /\ grid[Other(u)][c] # "ship"
    BY <1>1, <1>3 DEF Server!Miss
  <2> QED
    BY <1>1, <1>2, <2>1, <2>2, <2>3
<1>4. CASE Server!Hit(u, c)
  <2>1. grid' = [grid EXCEPT ![Other(u)][c] = "hit"]
    BY <1>1, <1>4 DEF Server!Hit
  <2>2. turn = u /\ turn' = turn /\ UNCHANGED stored /\ grid[Other(u)][c] = "ship"
    BY <1>1, <1>4 DEF Server!Hit
  <2> QED
    BY <1>1, <1>2, <2>1, <2>2
<1> QED
  BY <1>3, <1>4 DEF Shot

LEMMA SendFacts ==
  ASSUME toClient \in [Players -> Seq(Notices)], NEW ms \in Seq(Notices), Send(ms)
  PROVE  /\ toClient' \in [Players -> Seq(Notices)]
         /\ \A u \in Players : toClient'[u] = toClient[u] \o ms
<1>1. toClient' = [u \in Players |-> toClient[u] \o ms]
  BY DEF Send
<1>2. \A u \in Players : toClient[u] \o ms \in Seq(Notices)
  BY SentFacts
<1> QED
  BY <1>1, <1>2

LEMMA ArrivesFacts ==
  ASSUME toClient \in [Players -> Seq(Notices)], NEW u \in Players, NEW kind,
         Arrives(u, kind)
  PROVE  /\ toClient[u] # <<>> /\ toClient[u] \in Seq(Notices)
         /\ Message(u) \in Notices /\ Message(u).kind = kind
         /\ Message(u) = toClient[u][1] /\ 1 \in DOMAIN toClient[u]
         /\ toClient' \in [Players -> Seq(Notices)]
         /\ toClient'[u] = Tail(toClient[u])
         /\ \A w \in Players : w # u => toClient'[w] = toClient[w]
<1>1. toClient[u] # <<>> /\ toClient[u] \in Seq(Notices) /\ Message(u).kind = kind
      /\ toClient' = [toClient EXCEPT ![u] = Tail(@)]
  BY DEF Arrives
<1>2. /\ Tail(toClient[u]) \in Seq(Notices) /\ Head(toClient[u]) \in Notices
      /\ Head(toClient[u]) = toClient[u][1] /\ 1 \in DOMAIN toClient[u]
  BY <1>1, TailFacts
<1> QED
  BY <1>1, <1>2 DEF Message

\* The oldest request of a player.
LEMMA RequestFacts ==
  ASSUME toServer \in [Players -> Seq(Requests)], NEW u \in Players, toServer[u] # <<>>
  PROVE  Head(toServer[u]) \in Requests /\ Tail(toServer[u]) \in Seq(Requests)
BY TailFacts

\* The second message that a shot causes.
After(u) == IF left'[Other(u)] = 0 THEN End ELSE Turn(turn')

LEMMA PlayFacts ==
  ASSUME Game!Inv, toClient \in [Players -> Seq(Notices)],
         NEW u \in Players, NEW c \in Cells, Play(u, c)
  PROVE  /\ Shot(u, c)
         /\ Verdict(u, c) \in Notices /\ After(u) \in Notices
         /\ Send(<<Verdict(u, c), After(u)>>)
         /\ gone' = gone \/ (gone' = TRUE /\ left'[Other(u)] = 0)
         /\ toClient' \in [Players -> Seq(Notices)]
         /\ \A w \in Players : toClient'[w] = toClient[w] \o <<Verdict(u, c), After(u)>>
<1>1. Shot(u, c)
  BY DEF Play, Shot
<1>2. Verdict(u, c) \in Notices
  BY <1>1, VerdictFacts
<1>3. turn' \in Players
  BY <1>1, ShotFacts
<1>4. After(u) \in Notices
  BY <1>3, NoticeTypes DEF After
<1>5. /\ Send(<<Verdict(u, c), After(u)>>)
      /\ gone' = gone \/ (gone' = TRUE /\ left'[Other(u)] = 0)
  BY DEF Play, After
<1>6. <<Verdict(u, c), After(u)>> \in Seq(Notices)
  BY <1>2, <1>4, Two
<1> QED
  BY <1>1, <1>2, <1>4, <1>5, <1>6, SendFacts

-----------------------------------------------------------------------------
(* Every step is one of the match, or leaves it alone.                     *)

LEMMA StepPlaysMatch == TypeOK /\ [Next]_vars => [Server!Next]_(Server!vars)
<1> SUFFICES ASSUME TypeOK, [Next]_vars
             PROVE  [Server!Next]_(Server!vars)
  OBVIOUS
<1>1. UNCHANGED match => UNCHANGED Server!vars
  BY DEF match, Server!vars, Server!boards
<1>2. ASSUME NEW u \in Players, NEW f \in Fleets, Place(u, f)
      PROVE  Server!Next
  BY <1>2, ScreenAssumption DEF Place, Server!Next
<1>3. CASE Start
  BY <1>3 DEF Start, Server!Next
<1>4. ASSUME NEW u \in Players, Serve(u)
      PROVE  Server!Next \/ UNCHANGED match
  <2>1. Head(toServer[u]) \in Requests
    BY <1>4, RequestFacts DEF Serve, TypeOK
  <2>2. ASSUME Head(toServer[u]).kind = "move", Play(u, Head(toServer[u]).cell)
        PROVE  Server!Next
    <3>1. Head(toServer[u]).cell \in Cells
      BY <2>1, <2>2, RequestFields
    <3> QED
      BY <2>2, <3>1, SameCells DEF Play, Server!Next
  <2> QED
    BY <1>4, <2>2 DEF Serve
<1>5. CASE TimeoutAnnounced \/ TimeoutRemoves
  BY <1>1, <1>5 DEF TimeoutAnnounced, TimeoutRemoves
<1>6. ASSUME NEW u \in Players, Handle(u)
      PROVE  UNCHANGED match
  BY <1>6 DEF Handle, MatchReady, OwnShot, TheirShot, TurnUpdate, MatchEnd
<1>7. ASSUME NEW u \in Players,
             \/ \E c \in Cells : SelectTarget(u, c)
             \/ Fire(u) \/ Resign(u) \/ Exit(u) \/ CloseResult(u) \/ TimerExpires(u)
      PROVE  UNCHANGED match
  BY <1>7 DEF SelectTarget, Fire, Resign, Exit, CloseResult, ShowLobby, TimerExpires
<1>8. CASE UNCHANGED vars
  BY <1>1, <1>8 DEF vars
<1>9. ASSUME NEW u \in Players, Edit(u)
      PROVE  UNCHANGED match
  BY <1>9 DEF Edit
<1> QED
  BY <1>1, <1>2, <1>3, <1>4, <1>5, <1>6, <1>7, <1>8, <1>9 DEF Next

-----------------------------------------------------------------------------
(* The other's board after a ship has sunk.                                *)

LEMMA MinMax ==
  \A a, b \in Nat : Min({a, b}) <= a /\ Min({a, b}) <= b
                    /\ a <= Max({a, b}) /\ b <= Max({a, b})
<1> SUFFICES ASSUME NEW a \in Nat, NEW b \in Nat
             PROVE  Min({a, b}) <= a /\ Min({a, b}) <= b
                    /\ a <= Max({a, b}) /\ b <= Max({a, b})
  OBVIOUS
<1>1. \E x \in {a, b} : \A y \in {a, b} : x <= y
  OBVIOUS
<1>2. \E x \in {a, b} : \A y \in {a, b} : x >= y
  OBVIOUS
<1> QED
  BY <1>1, <1>2 DEF Min, Max

\* The cells of a run show hits.
LEMMA RunOfHits ==
  ASSUME NEW b, NEW c \in Cells, NEW i \in {1, 2}, NEW d \in HitRun(b, c, i)
  PROVE  d \in Cells /\ d # c /\ b[d] = "hit"
<1>1. d \in Cells /\ d # c /\ \A e \in Box(c, d) \ {c} : b[e] = "hit"
  BY DEF HitRun
<1>2. \A j \in {1, 2} : c[j] \in Nat /\ d[j] \in Nat
  BY <1>1, BoardAssumption DEF Cells
<1>3. \A j \in {1, 2} : Min({c[j], d[j]}) <= d[j] /\ d[j] <= Max({c[j], d[j]})
  BY <1>2, MinMax
<1>4. d \in Box(c, d)
  BY <1>1, <1>3 DEF Box
<1> QED
  BY <1>1, <1>4

\* It marks the last shot, keeps the misses, and empties no cell.
LEMMA RevealFacts ==
  ASSUME NEW b \in [Cells -> ShownStates], NEW c \in Cells, NEW t \in Types
  PROVE  /\ Reveal(b, c, t) \in [Cells -> ShownStates]
         /\ Reveal(b, c, t)[c] # "empty"
         /\ \A d \in Cells \ {c} : b[d] = "miss" => Reveal(b, c, t)[d] = "miss"
         /\ \A d \in Cells : b[d] # "empty" => Reveal(b, c, t)[d] # "empty"
<1> DEFINE row == HitRun(b, c, 1)
           col == HitRun(b, c, 2)
           marked == {c} \cup row \cup col
           b1 == [d \in Cells |-> IF d \in marked THEN "sunk" ELSE b[d]]
           corner == <<Min({d[1] : d \in marked}), Min({d[2] : d \in marked})>>
           orient == IF row = {} /\ col # {} THEN "vertical" ELSE "horizontal"
           new == Covers(t, corner, orient)
           placed == Fits(t, corner, orient) /\ \A d \in new : b1[d] = "empty"
<1>1. Reveal(b, c, t) = [d \in Cells |-> IF placed /\ d \in new THEN "hit" ELSE b1[d]]
  BY DEF Reveal
<1>2. \A d \in marked : d # c => b[d] = "hit"
  BY RunOfHits
<1>3. c \in marked
  OBVIOUS
<1> HIDE DEF marked, new, corner, orient
<1>4. \A d \in Cells : placed /\ d \in new => b1[d] = "empty"
  OBVIOUS
<1> HIDE DEF placed
<1>5. \A d \in Cells : b1[d] = IF d \in marked THEN "sunk" ELSE b[d]
  OBVIOUS
<1> HIDE DEF b1
<1>6. \A d \in Cells : Reveal(b, c, t)[d] =
        IF placed /\ d \in new THEN "hit" ELSE b1[d]
  BY <1>1
<1>7. Reveal(b, c, t) \in [Cells -> ShownStates]
  <2>1. \A d \in Cells : b1[d] \in ShownStates
    BY <1>5 DEF ShownStates
  <2> QED
    BY <1>1, <2>1 DEF ShownStates
<1> QED
  BY <1>2, <1>3, <1>4, <1>5, <1>6, <1>7

-----------------------------------------------------------------------------
(* Types.                                                                  *)

LEMMA DrawnType ==
  ASSUME NEW f, NEW K
  PROVE  /\ Drawn(f, K) \in [Cells -> CellStates]
         /\ \A c \in Cells : Drawn(f, K)[c] \in {"ship", "empty"}
BY DEF Drawn, CellStates

\* TypeOK but for the variables of the match.
ScreenTypes ==
  /\ {ending, gone} \subseteq BOOLEAN
  /\ toServer \in [Players -> Seq(Requests)]
  /\ toClient \in [Players -> Seq(Notices)]
  /\ screen \in [Players -> {"placement", "game", "result", "lobby"}]
  /\ own \in Boards(CellStates)
  /\ edited \subseteq Players
  /\ shown \in Boards(ShownStates)
  /\ myTurn \in [Players -> BOOLEAN]
  /\ target \in [Players -> Cells \cup {None}]
  /\ armed \in [Players -> BOOLEAN]
  /\ ticking \in [Players -> BOOLEAN]

LEMMA TypeParts == TypeOK <=> Server!TypeOK /\ ScreenTypes
BY DEF TypeOK, ScreenTypes

LEMMA InitTypes == Init => ScreenTypes
<1> SUFFICES ASSUME Init
             PROVE  ScreenTypes
  OBVIOUS
<1>1. {ending, gone} \subseteq BOOLEAN
  BY DEF Init
<1>2. toServer \in [Players -> Seq(Requests)] /\ toClient \in [Players -> Seq(Notices)]
  BY DEF Init
<1>3. own \in Boards(CellStates) /\ shown \in Boards(ShownStates)
  BY DEF Init, Boards, CellStates, ShownStates
<1> QED
  BY <1>1, <1>2, <1>3 DEF Init, ScreenTypes, None

LEMMA StepTypes == TypeOK /\ Game!Inv /\ [Next]_vars => ScreenTypes'
<1> SUFFICES ASSUME TypeOK, Game!Inv, [Next]_vars
             PROVE  ScreenTypes'
  OBVIOUS
<1> USE DEF ScreenTypes
<1>0. ScreenTypes
  BY TypeParts
<1>1. ASSUME NEW u \in Players, NEW f \in Fleets, Place(u, f)
      PROVE  ScreenTypes'
  <2>1. Drawn(f, Types) \in [Cells -> CellStates]
    BY DrawnType
  <2>2. own' \in Boards(CellStates)
    BY <1>0, <1>1, <2>1 DEF Place, Boards
  <2> QED
    BY <1>0, <1>1, <2>2 DEF Place, fate, aim
<1>2. CASE Start
  <2>1. PICK first \in Players : Send(<<Ready, Turn(first)>>)
    BY <1>2 DEF Start
  <2>2. <<Ready, Turn(first)>> \in Seq(Notices)
    BY NoticeTypes, Two
  <2>3. toClient' \in [Players -> Seq(Notices)]
    BY <1>0, <2>1, <2>2, SendFacts
  <2> QED
    BY <1>0, <1>2, <2>3 DEF Start, fate, aim, ui
<1>3. ASSUME NEW u \in Players, Serve(u)
      PROVE  ScreenTypes'
  <2>1. Head(toServer[u]) \in Requests /\ Tail(toServer[u]) \in Seq(Requests)
    BY <1>0, <1>3, RequestFacts DEF Serve
  <2>2. toServer' \in [Players -> Seq(Requests)]
    BY <1>0, <1>3, <2>1 DEF Serve
  <2>3. toClient' \in [Players -> Seq(Notices)] /\ gone' \in BOOLEAN
    <3>1. CASE UNCHANGED <<gone, toClient>>
      BY <1>0, <3>1
    <3>2. ASSUME Head(toServer[u]).kind = "move", Play(u, Head(toServer[u]).cell)
          PROVE  toClient' \in [Players -> Seq(Notices)] /\ gone' \in BOOLEAN
      <4>1. Head(toServer[u]).cell \in Cells
        BY <2>1, <3>2, RequestFields
      <4> QED
        BY <1>0, <3>2, <4>1, PlayFacts
    <3>3. CASE gone' = TRUE /\ Send(<<End>>)
      <4>1. <<End>> \in Seq(Notices)
        BY NoticeTypes, Two
      <4> QED
        BY <1>0, <3>3, <4>1, SendFacts
    <3> QED
      BY <1>3, <3>1, <3>2, <3>3 DEF Serve
  <2> QED
    BY <1>0, <1>3, <2>2, <2>3 DEF Serve, ui, aim
<1>4. CASE TimeoutAnnounced
  <2>1. <<End>> \in Seq(Notices)
    BY NoticeTypes, Two
  <2>2. toClient' \in [Players -> Seq(Notices)]
    BY <1>0, <1>4, <2>1, SendFacts DEF TimeoutAnnounced
  <2> QED
    BY <1>0, <1>4, <2>2 DEF TimeoutAnnounced, ui, aim
<1>5. CASE TimeoutRemoves
  BY <1>0, <1>5 DEF TimeoutRemoves, ui, aim
<1>6. ASSUME NEW u \in Players, MatchReady(u)
      PROVE  ScreenTypes'
  <2>1. toClient' \in [Players -> Seq(Notices)]
    BY <1>0, <1>6, ArrivesFacts DEF MatchReady
  <2> QED
    BY <1>0, <1>6, <2>1 DEF MatchReady, fate
<1>7. ASSUME NEW u \in Players, OwnShot(u)
      PROVE  ScreenTypes'
  <2> DEFINE m == Message(u)
  <2>1. /\ m \in Notices /\ m.kind = "result"
        /\ toClient' \in [Players -> Seq(Notices)]
    BY <1>0, <1>7, ArrivesFacts DEF OwnShot
  <2>2. m.cell \in Cells /\ m.type \in Types /\ m.res \in {"miss", "hit", "sunk"}
    BY <2>1, NoticeFields
  <2>3. shown[u] \in [Cells -> ShownStates]
    BY <1>0 DEF Boards
  <2>4. shown' = [shown EXCEPT ![u] =
                    IF m.res = "sunk" THEN Reveal(@, m.cell, m.type)
                                      ELSE [@ EXCEPT ![m.cell] = m.res]]
        /\ armed' = [armed EXCEPT ![u] = HasButton(u) /\ m.res # "miss" /\ ~m.over]
    BY <1>7 DEF OwnShot
  <2> HIDE DEF m
  <2>5. shown' \in Boards(ShownStates)
    <3>1. Reveal(shown[u], m.cell, m.type) \in [Cells -> ShownStates]
      BY <2>2, <2>3, RevealFacts
    <3>2. [shown[u] EXCEPT ![m.cell] = m.res] \in [Cells -> ShownStates]
      BY <2>2, <2>3 DEF ShownStates
    <3> QED
      BY <1>0, <2>4, <3>1, <3>2 DEF Boards
  <2>6. armed' \in [Players -> BOOLEAN]
    BY <1>0, <2>4
  <2> QED
    BY <1>0, <1>7, <2>1, <2>5, <2>6 DEF OwnShot, fate
<1>8. ASSUME NEW u \in Players, TheirShot(u)
      PROVE  ScreenTypes'
  <2> DEFINE m == Message(u)
  <2>1. /\ m \in Notices /\ m.kind = "result"
        /\ toClient' \in [Players -> Seq(Notices)]
    BY <1>0, <1>8, ArrivesFacts DEF TheirShot
  <2>2. m.cell \in Cells
    BY <2>1, NoticeFields
  <2>3. own' = [own EXCEPT ![u][m.cell] =
                  CASE @ = "ship" -> "hit" [] @ = "empty" -> "miss" [] OTHER -> @]
        /\ armed' = [armed EXCEPT ![u] = @ /\ ~m.over]
    BY <1>8 DEF TheirShot
  <2> HIDE DEF m
  <2>4. own' \in Boards(CellStates)
    BY <1>0, <2>2, <2>3 DEF Boards, CellStates
  <2>5. armed' \in [Players -> BOOLEAN]
    BY <1>0, <2>3
  <2> QED
    BY <1>0, <1>8, <2>1, <2>4, <2>5 DEF TheirShot, fate
<1>9. ASSUME NEW u \in Players, TurnUpdate(u)
      PROVE  ScreenTypes'
  <2>1. toClient' \in [Players -> Seq(Notices)]
    BY <1>0, <1>9, ArrivesFacts DEF TurnUpdate
  <2>2. /\ myTurn' \in [Players -> BOOLEAN] /\ armed' \in [Players -> BOOLEAN]
        /\ ticking' \in [Players -> BOOLEAN]
    BY <1>0, <1>9 DEF TurnUpdate
  <2> QED
    BY <1>0, <1>9, <2>1, <2>2 DEF TurnUpdate, fate
<1>10. ASSUME NEW u \in Players, MatchEnd(u)
       PROVE  ScreenTypes'
  <2>1. toClient' \in [Players -> Seq(Notices)]
    BY <1>0, <1>10, ArrivesFacts DEF MatchEnd
  <2> QED
    BY <1>0, <1>10, <2>1 DEF MatchEnd, fate, aim
<1>11. ASSUME NEW u \in Players, NEW c \in Cells, SelectTarget(u, c)
       PROVE  ScreenTypes'
  BY <1>0, <1>11 DEF SelectTarget, fate
<1>12. ASSUME NEW u \in Players, Fire(u)
       PROVE  ScreenTypes'
  <2>1. target[u] \in Cells
    BY <1>0, <1>12 DEF Fire
  <2>2. Append(toServer[u], Move(target[u])) \in Seq(Requests)
    BY <1>0, <2>1, RequestTypes
  <2> QED
    BY <1>0, <1>12, <2>2 DEF Fire, fate, None
<1>13. ASSUME NEW u \in Players, Resign(u)
       PROVE  ScreenTypes'
  <2>1. Append(toServer[u], ResignMsg) \in Seq(Requests)
    BY <1>0, RequestTypes
  <2> QED
    BY <1>0, <1>13, <2>1 DEF Resign, fate, ui, aim
<1>14. ASSUME NEW u \in Players, Exit(u) \/ CloseResult(u)
       PROVE  ScreenTypes'
  BY <1>0, <1>14 DEF Exit, CloseResult, ShowLobby, fate
<1>15. ASSUME NEW u \in Players, TimerExpires(u)
       PROVE  ScreenTypes'
  BY <1>0, <1>15 DEF TimerExpires, fate, None
<1>16. CASE UNCHANGED vars
  BY <1>0, <1>16 DEF vars, fate, ui, aim
<1>17. ASSUME NEW u \in Players, Edit(u)
       PROVE  ScreenTypes'
  <2>1. PICK f \in Fleets, K \in SUBSET Types : own' = [own EXCEPT ![u] = Drawn(f, K)]
    BY <1>17 DEF Edit
  <2>2. own' \in Boards(CellStates)
    BY <1>0, <2>1, DrawnType DEF Boards
  <2>3. edited' \subseteq Players
    BY <1>0, <1>17 DEF Edit
  <2> QED
    BY <1>0, <1>17, <2>2, <2>3 DEF Edit, fate, aim
<1> QED
  BY <1>1, <1>2, <1>3, <1>4, <1>5, <1>6, <1>7, <1>8, <1>9, <1>10, <1>11, <1>12,
     <1>13, <1>14, <1>15, <1>16, <1>17 DEF Next, Handle

TypeInv == TypeOK /\ Game!Inv

LEMMA InitTypeInv == Init => TypeInv
BY InitTypes, TypeParts, MatchInit, MatchFacts DEF Init, TypeInv

LEMMA StepTypeInv == TypeInv /\ [Next]_vars => TypeInv'
<1>1. TypeInv /\ [Next]_vars => Game!Inv'
  BY StepPlaysMatch, MatchNext DEF TypeInv
<1>2. TypeInv /\ [Next]_vars => ScreenTypes'
  BY StepTypes DEF TypeInv
<1>3. Game!Inv /\ ScreenTypes => TypeInv
  BY MatchFacts, TypeParts DEF TypeInv
<1> QED
  BY <1>1, <1>2, <1>3, PTL

LEMMA TypeInvAlways == Spec => []TypeInv
BY InitTypeInv, StepTypeInv, PTL DEF Spec

\* Every variable of GameScreen keeps its type, whatever is aimed at and
\* however many messages are on their way.
THEOREM TypeCorrect == Spec => []TypeOK
<1>1. TypeInv => TypeOK
  BY DEF TypeInv
<1> QED
  BY <1>1, TypeInvAlways, PTL

\* The handlers of the server, with the timer beside them and the clients
\* around them, play the match of MatchGame: a request in the queue is
\* answered by one of its shots or changes nothing of it.
THEOREM PlaysMatchGame == Spec => Server!Spec
<1>1. Init => Server!Init
  BY DEF Init
<1>2. TypeInv /\ [Next]_vars => [Server!Next]_(Server!vars)
  BY StepPlaysMatch DEF TypeInv
<1> QED
  BY <1>1, <1>2, TypeInvAlways, PTL DEF Spec, Server!Spec

-----------------------------------------------------------------------------
(* Before the match.                                                       *)

\* The clients have heard nothing: they place their ships, and the own board
\* shows the fleet that was sent, or one without shots.
IdleInv ==
  turn = Nobody =>
    /\ ~ending /\ ~gone
    /\ \A u \in Players :
         /\ toServer[u] = <<>> /\ toClient[u] = <<>>
         /\ screen[u] \in {"placement", "lobby"} /\ ~ticking[u]
         /\ stored[u] # None /\ u \notin edited => own[u] = Drawn(stored[u], Types)
         /\ \A c \in Cells : own[u][c] \in {"ship", "empty"}
         /\ \A c \in Cells : shown[u][c] = "empty"

StoredInv ==
  \A u \in Players : /\ stored[u] \in Fleets \cup {None}
                     /\ turn # Nobody => stored[u] # None

\* The server keeps the whole of such a fleet.
LEMMA FleetsKept ==
  ASSUME NEW f \in Fleets, NEW K \in Server!Kept(f)
  PROVE  K = Types
<1>1. K \subseteq Types /\ \A t \in Types \ K : ~Server!Disjoint(f, K \cup {t})
  BY DEF Server!Kept
<1>2. \A L \in SUBSET Types : Server!Disjoint(f, L)
  BY ScreenAssumption DEF Server!Disjoint
<1>3. ASSUME NEW t \in Types \ K
      PROVE  FALSE
  <2>1. K \cup {t} \in SUBSET Types
    BY <1>1
  <2> QED
    BY <1>1, <1>2, <1>3, <2>1
<1> QED
  BY <1>1, <1>3

LEMMA StartFacts ==
  ASSUME TypeInv, IdleInv, StoredInv, Start
  PROVE  /\ turn = Nobody
         /\ \E first \in Players :
              /\ turn' = first
              /\ \A u \in Players : toClient'[u] = <<Ready, Turn(first)>>
         /\ \A u \in Players : \A c \in Cells :
              /\ grid'[u][c] = Drawn(stored[u], Types)[c]
              /\ u \notin edited => own[u][c] = grid'[u][c]
              /\ own[u][c] \in {"ship", "empty"}
         /\ \A u \in Players : stored[u] # None
         /\ UNCHANGED <<stored, fate, toServer, ui>>
<1>1. PICK K \in [Players -> SUBSET Types], first \in Players :
        Server!Start(K, first) /\ Send(<<Ready, Turn(first)>>)
  BY DEF Start
<1>2. turn = Nobody /\ turn' = first /\ UNCHANGED <<stored, fate, toServer, ui>>
  BY <1>1 DEF Start, Server!Start
<1>3. \A u \in Players : toClient'[u] = <<Ready, Turn(first)>>
  <2>1. \A u \in Players : toClient'[u] = toClient[u] \o <<Ready, Turn(first)>>
    BY <1>1, NoticeTypes, Two, SendFacts DEF TypeInv, TypeOK
  <2>2. \A u \in Players : toClient[u] = <<>>
    BY <1>2 DEF IdleInv
  <2>3. <<>> \o <<Ready, Turn(first)>> = <<Ready, Turn(first)>>
    BY NoticeTypes, Two
  <2> QED
    BY <2>1, <2>2, <2>3
<1>4. ASSUME NEW u \in Players, NEW c \in Cells
      PROVE  /\ grid'[u][c] = Drawn(stored[u], Types)[c]
             /\ u \notin edited => own[u][c] = grid'[u][c]
             /\ own[u][c] \in {"ship", "empty"}
  <2>1. stored[u] # None /\ K[u] \in Server!Kept(stored[u])
    BY <1>1 DEF Server!Start, Server!None, None
  <2>2. K[u] = Types
    BY <2>1, FleetsKept DEF StoredInv
  <2>3. grid'[u][c] = IF c \in Server!Afloat(stored[u], K[u]) THEN "ship" ELSE "empty"
    BY <1>1, SameCells DEF Server!Start
  <2>4. grid'[u][c] = Drawn(stored[u], Types)[c]
    BY <2>2, <2>3 DEF Drawn
  <2> QED
    BY <1>2, <2>1, <2>4 DEF IdleInv
<1>5. \A u \in Players : stored[u] # None
  BY <1>1 DEF Server!Start, Server!None, None
<1> QED
  BY <1>2, <1>3, <1>4, <1>5

\* The match of the server does not go back to the time before.
LEMMA TurnStays ==
  TypeInv /\ [Server!Next]_(Server!vars) /\ turn # Nobody => turn' # Nobody
<1> SUFFICES ASSUME TypeInv, [Server!Next]_(Server!vars), turn # Nobody
             PROVE  turn' # Nobody
  OBVIOUS
<1>1. ASSUME NEW u \in Players, NEW c \in Cells, Shot(u, c)
      PROVE  turn' # Nobody
  BY <1>1, ShotFacts, ScreenAssumption DEF TypeInv
<1>2. ASSUME NEW u, NEW f, Server!Place(u, f)
      PROVE  turn' # Nobody
  BY <1>2 DEF Server!Place
<1>3. \A K, first : ~Server!Start(K, first)
  BY DEF Server!Start
<1>4. CASE UNCHANGED Server!vars
  BY <1>4 DEF Server!vars
<1> QED
  BY <1>1, <1>2, <1>3, <1>4, SameCells DEF Server!Next, Shot

\* Before the match, a step is a placement or a change of it, its start, a
\* player who leaves for the lobby, or none.
LEMMA IdleSteps ==
  TypeInv /\ IdleInv /\ [Next]_vars /\ turn = Nobody =>
    \/ \E u \in Players : \E f \in Fleets : Place(u, f)
    \/ Start
    \/ \E u \in Players : Edit(u) \/ Exit(u)
    \/ UNCHANGED vars
<1> SUFFICES ASSUME TypeInv, IdleInv, [Next]_vars, turn = Nobody
             PROVE  \/ \E u \in Players : \E f \in Fleets : Place(u, f)
                    \/ Start
                    \/ \E u \in Players : Edit(u) \/ Exit(u)
                    \/ UNCHANGED vars
  OBVIOUS
<1>1. ~TimeoutAnnounced /\ ~TimeoutRemoves
  BY DEF IdleInv, TimeoutAnnounced, TimeoutRemoves
<1>2. \A u \in Players : ~Serve(u) /\ ~Handle(u)
  BY DEF IdleInv, Serve, Handle, MatchReady, OwnShot, TheirShot, TurnUpdate, MatchEnd,
         Arrives
<1>3. \A u \in Players : /\ \A c \in Cells : ~SelectTarget(u, c)
                         /\ ~Fire(u) /\ ~Resign(u) /\ ~CloseResult(u)
                         /\ ~TimerExpires(u)
  BY DEF IdleInv, SelectTarget, Fire, Resign, CloseResult, TimerExpires
<1> QED
  BY <1>1, <1>2, <1>3 DEF Next

LEMMA StepIdle ==
  TypeInv /\ IdleInv /\ StoredInv /\ [Next]_vars => IdleInv' /\ StoredInv'
<1> SUFFICES ASSUME TypeInv, IdleInv, StoredInv, [Next]_vars
             PROVE  IdleInv' /\ StoredInv'
  OBVIOUS
<1>1. CASE turn # Nobody
  <2>1. turn' # Nobody
    BY <1>1, StepPlaysMatch, TurnStays DEF TypeInv
  <2>2. StoredInv'
    <3>1. ASSUME NEW u \in Players, NEW f \in Fleets, Place(u, f)
          PROVE  StoredInv'
      BY <1>1, <3>1 DEF Place, Server!Place, Server!None, None, StoredInv
    <3>2. CASE Start
      BY <1>1, <3>2, StartFacts
    <3>3. ASSUME NEW u \in Players, Serve(u)
          PROVE  UNCHANGED stored
      <4>1. Head(toServer[u]) \in Requests
        BY <3>3, RequestFacts DEF Serve, TypeInv, TypeOK
      <4>2. CASE UNCHANGED match
        BY <4>2 DEF match
      <4>3. ASSUME Head(toServer[u]).kind = "move", Play(u, Head(toServer[u]).cell)
            PROVE  UNCHANGED stored
        BY <4>1, <4>3, RequestFields, ShotFacts DEF Play, Shot, TypeInv
      <4> QED
        BY <3>3, <4>2, <4>3 DEF Serve
    <3>4. CASE TimeoutAnnounced \/ TimeoutRemoves
      BY <3>4 DEF TimeoutAnnounced, TimeoutRemoves, match, StoredInv
    <3>5. ASSUME NEW u \in Players, Handle(u)
          PROVE  UNCHANGED stored
      BY <3>5 DEF Handle, MatchReady, OwnShot, TheirShot, TurnUpdate, MatchEnd, match
    <3>6. ASSUME NEW u \in Players,
                 \/ \E c \in Cells : SelectTarget(u, c)
                 \/ Fire(u) \/ Resign(u) \/ Exit(u) \/ CloseResult(u) \/ TimerExpires(u)
          PROVE  UNCHANGED stored
      BY <3>6 DEF SelectTarget, Fire, Resign, Exit, CloseResult, ShowLobby,
                  TimerExpires, match
    <3>7. CASE UNCHANGED vars
      BY <3>7 DEF vars, match, StoredInv
    <3>8. ASSUME NEW u \in Players, Edit(u)
          PROVE  UNCHANGED stored
      BY <3>8 DEF Edit, match
    <3> QED
      BY <1>1, <3>1, <3>2, <3>3, <3>4, <3>5, <3>6, <3>7, <3>8 DEF Next, StoredInv
  <2> QED
    BY <2>1, <2>2 DEF IdleInv
<1>2. CASE turn = Nobody
  <2>1. ASSUME NEW u \in Players, NEW f \in Fleets, Place(u, f)
        PROVE  IdleInv' /\ StoredInv'
    <3>1. /\ stored[u] = None /\ stored' = [stored EXCEPT ![u] = f]
          /\ own' = [own EXCEPT ![u] = Drawn(f, Types)]
          /\ UNCHANGED <<fate, toServer, toClient, screen, edited, shown, ticking, turn>>
      BY <2>1 DEF Place, Server!Place, Server!None, None
    <3>2. stored' \in [Players -> Server!Placements \cup {Server!None}]
          /\ stored \in [Players -> Server!Placements \cup {Server!None}]
      BY <2>1, ScreenAssumption
         DEF TypeInv, TypeOK, Server!TypeOK, Place, Server!Place
    <3>3. own \in [Players -> [Cells -> CellStates]]
      BY DEF TypeInv, TypeOK, Boards
    <3>4. \A c \in Cells : Drawn(f, Types)[c] \in {"ship", "empty"}
      BY DrawnType
    <3>5. own'[u] = Drawn(f, Types) /\ \A w \in Players : w # u => own'[w] = own[w]
      BY <3>1, <3>3
    <3>6. stored'[u] = f /\ \A w \in Players : w # u => stored'[w] = stored[w]
      BY <3>1, <3>2
    <3> QED
      BY <1>2, <3>1, <3>4, <3>5, <3>6 DEF IdleInv, StoredInv, fate
  <2>2. CASE Start
    <3>1. turn' # Nobody /\ UNCHANGED stored /\ \A u \in Players : stored[u] # None
      BY <2>2, StartFacts, ScreenAssumption
    <3> QED
      BY <3>1 DEF IdleInv, StoredInv
  <2>3. ASSUME NEW u \in Players, Exit(u)
        PROVE  IdleInv' /\ StoredInv'
    <3>1. /\ screen' = [screen EXCEPT ![u] = "lobby"]
          /\ ticking' = [ticking EXCEPT ![u] = FALSE]
          /\ UNCHANGED <<match, fate, toServer, toClient, own, edited, shown>>
      BY <2>3 DEF Exit, ShowLobby
    <3>2. DOMAIN screen = Players /\ DOMAIN ticking = Players
      BY DEF TypeInv, TypeOK
    <3> QED
      BY <1>2, <3>1, <3>2 DEF IdleInv, StoredInv, match, fate
  <2>4. CASE UNCHANGED vars
    BY <2>4 DEF IdleInv, StoredInv, vars, match, fate, ui
  <2>5. ASSUME NEW u \in Players, Edit(u)
        PROVE  IdleInv' /\ StoredInv'
    <3>1. /\ edited' = IF own'[u] = Drawn(stored[u], Types) THEN edited \ {u}
                                                           ELSE edited \cup {u}
          /\ UNCHANGED <<match, fate, toServer, toClient, screen, shown, ticking>>
      BY <2>5 DEF Edit
    <3>2. PICK f \in Fleets, K \in SUBSET Types : own' = [own EXCEPT ![u] = Drawn(f, K)]
      BY <2>5 DEF Edit
    <3>3. own'[u] = Drawn(f, K) /\ \A w \in Players : w # u => own'[w] = own[w]
      BY <3>2 DEF TypeInv, TypeOK, Boards
    <3>4. \A c \in Cells : own'[u][c] \in {"ship", "empty"}
      BY <3>3, DrawnType
    <3>5. u \notin edited' => own'[u] = Drawn(stored[u], Types)
      BY <3>1
    <3>6. \A w \in Players : w # u => (w \in edited' <=> w \in edited)
      BY <3>1
    <3> QED
      BY <1>2, <3>1, <3>3, <3>4, <3>5, <3>6 DEF IdleInv, StoredInv, match, fate
  <2> QED
    BY <1>2, <2>1, <2>2, <2>3, <2>4, <2>5, IdleSteps
<1> QED
  BY <1>1, <1>2

-----------------------------------------------------------------------------
(* The steps, by what they do to the match and the queues.                 *)

\* The end is announced, by the timer or because a player resigned.
SendsEnd ==
  /\ \A w \in Players : toClient'[w] = toClient[w] \o <<End>>
  /\ UNCHANGED match

LEMMA ServeFacts ==
  ASSUME TypeInv, NEW u \in Players, Serve(u)
  PROVE  /\ UNCHANGED <<ending, ui>>
         /\ \/ UNCHANGED <<match, gone, toClient>>
            \/ \E c \in Cells : Play(u, c)
            \/ SendsEnd
<1>1. Head(toServer[u]) \in Requests
  BY RequestFacts DEF Serve, TypeInv, TypeOK
<1>2. ASSUME Head(toServer[u]).kind = "move", Play(u, Head(toServer[u]).cell)
      PROVE  \E c \in Cells : Play(u, c)
  BY <1>1, <1>2, RequestFields
<1>3. ASSUME Send(<<End>>), UNCHANGED match
      PROVE  SendsEnd
  <2>1. <<End>> \in Seq(Notices)
    BY NoticeTypes, Two
  <2> QED
    BY <1>3, <2>1, SendFacts DEF SendsEnd, TypeInv, TypeOK
<1> QED
  BY <1>2, <1>3 DEF Serve

LEMMA AnnounceFacts ==
  ASSUME TypeInv, TimeoutAnnounced
  PROVE  SendsEnd /\ UNCHANGED <<gone, ui>>
<1>1. <<End>> \in Seq(Notices)
  BY NoticeTypes, Two
<1> QED
  BY <1>1, SendFacts DEF SendsEnd, TypeInv, TypeOK, TimeoutAnnounced

\* A click, or the timer.
Clicks(u) ==
  \/ \E c \in Cells : SelectTarget(u, c)
  \/ Fire(u) \/ Resign(u) \/ Exit(u) \/ CloseResult(u) \/ TimerExpires(u)

LEMMA ClickFacts ==
  ASSUME TypeInv, NEW u \in Players, Clicks(u)
  PROVE  /\ UNCHANGED <<match, fate, toClient, own, edited, shown>>
         /\ \A w \in Players : /\ screen'[w] = "game" => screen[w] = "game"
                               /\ screen'[w] = "placement" => screen[w] = "placement"
         /\ \A w \in Players : ~ticking[w] => myTurn'[w] = myTurn[w]
         /\ \A w \in Players : ticking'[w] => ticking[w]
<1> USE DEF TypeInv, TypeOK
<1>1. CASE \E c \in Cells : SelectTarget(u, c)
  BY <1>1 DEF SelectTarget
<1>2. CASE Fire(u) \/ Resign(u)
  BY <1>2 DEF Fire, Resign, ui
<1>3. CASE Exit(u) \/ CloseResult(u)
  BY <1>3 DEF Exit, CloseResult, ShowLobby
<1>4. CASE TimerExpires(u)
  BY <1>4 DEF TimerExpires
<1> QED
  BY <1>1, <1>2, <1>3, <1>4 DEF Clicks

LEMMA StepKinds ==
  [Next]_vars =>
    \/ \E u \in Players : \E f \in Fleets : Place(u, f)
    \/ Start \/ TimeoutAnnounced \/ TimeoutRemoves
    \/ \E u \in Players : Serve(u) \/ Handle(u) \/ Clicks(u) \/ Edit(u)
    \/ UNCHANGED vars
BY DEF Next, Clicks

\* A client that handles a message takes it out of its queue.
LEMMA HandleFacts ==
  ASSUME TypeInv, NEW u \in Players, Handle(u)
  PROVE  /\ toClient[u] # <<>> /\ toClient[u] \in Seq(Notices)
         /\ Message(u) \in Notices
         /\ toClient'[u] = Tail(toClient[u])
         /\ \A w \in Players : w # u => toClient'[w] = toClient[w]
         /\ UNCHANGED <<match, fate, edited>>
         /\ \A w \in Players : w # u =>
              /\ screen'[w] = screen[w] /\ own'[w] = own[w] /\ shown'[w] = shown[w]
              /\ myTurn'[w] = myTurn[w] /\ ticking'[w] = ticking[w]
<1>1. \E kind : Arrives(u, kind)
  BY DEF Handle, MatchReady, OwnShot, TheirShot, TurnUpdate, MatchEnd
<1>2. /\ toClient[u] # <<>> /\ toClient[u] \in Seq(Notices)
      /\ Message(u) \in Notices
      /\ toClient'[u] = Tail(toClient[u])
      /\ \A w \in Players : w # u => toClient'[w] = toClient[w]
  BY <1>1, ArrivesFacts DEF TypeInv, TypeOK
<1>3. UNCHANGED <<match, fate, edited>>
  BY DEF Handle, MatchReady, OwnShot, TheirShot, TurnUpdate, MatchEnd
<1>4. \A w \in Players : w # u =>
        /\ screen'[w] = screen[w] /\ own'[w] = own[w] /\ shown'[w] = shown[w]
        /\ myTurn'[w] = myTurn[w] /\ ticking'[w] = ticking[w]
  <2> USE DEF TypeInv, TypeOK, Boards
  <2>1. CASE MatchReady(u)
    BY <2>1 DEF MatchReady
  <2>2. CASE OwnShot(u)
    BY <2>2 DEF OwnShot
  <2>3. CASE TheirShot(u)
    BY <2>3 DEF TheirShot
  <2>4. CASE TurnUpdate(u)
    BY <2>4 DEF TurnUpdate
  <2>5. CASE MatchEnd(u)
    BY <2>5 DEF MatchEnd
  <2> QED
    BY <2>1, <2>2, <2>3, <2>4, <2>5 DEF Handle
<1> QED
  BY <1>2, <1>3, <1>4

-----------------------------------------------------------------------------
(* Turns, and the end.                                                     *)

\* MATCH_READY is the first message of a match, and a turn follows it.
ReadyInv ==
  \A u \in Players :
    LET q == toClient[u] IN
    ReadyFirst(q) /\ (HasKind(q, "ready") => HasKind(q, "turn"))

\* The last turn the server announced is the turn: it is in the queue, or
\* the client has taken it over, and its timer, if it is not the client's.
TurnInv ==
  turn # Nobody => \A u \in Players :
    LET q == toClient[u] IN
    /\ LastTurnIs(q, turn)
    /\ ~HasKind(q, "turn") /\ turn # u => ~myTurn[u] /\ ~ticking[u]

\* Whoever sits at the game screen of a match that is over, or will, has its
\* end in his queue.
EndInv ==
  \A u \in Players :
    LET q == toClient[u] IN
    (gone \/ ending) /\ (screen[u] = "game" \/ HasKind(q, "ready"))
      => HasKind(q, "end")

QueueInv == ReadyInv /\ TurnInv /\ EndInv

LEMMA InitQueue == Init => QueueInv
<1>1. \A k : ~HasKind(<<>>, k)
  BY DEF HasKind
<1> QED
  BY <1>1, ScreenAssumption
     DEF Init, Server!Init, QueueInv, ReadyInv, TurnInv, EndInv, ReadyFirst

\* What is said of two messages in a row, or of the end.
LEMMA PlayKinds ==
  ASSUME TypeInv, NEW u \in Players, NEW c \in Cells, Play(u, c), NEW k
  PROVE  LET ms == <<Verdict(u, c), After(u)>> IN
         /\ ms \in Seq(Notices)
         /\ HasKind(ms, k) <=> \/ k = "result"
                               \/ k = "turn" /\ left'[Other(u)] # 0
                               \/ k = "end" /\ left'[Other(u)] = 0
<1>1. Verdict(u, c) \in Notices /\ After(u) \in Notices /\ Shot(u, c)
  BY PlayFacts DEF TypeInv, TypeOK
<1>2. Verdict(u, c).kind = "result"
  BY <1>1, VerdictFacts DEF TypeInv
<1>3. turn' \in Players
  BY <1>1, ShotFacts DEF TypeInv
<1>4. After(u).kind = IF left'[Other(u)] = 0 THEN "end" ELSE "turn"
  BY <1>3, NoticeTypes DEF After
<1>5. HasKind(<<Verdict(u, c), After(u)>>, k)
        <=> Verdict(u, c).kind = k \/ After(u).kind = k
  BY KindTwo
<1>6. <<Verdict(u, c), After(u)>> \in Seq(Notices)
  BY <1>1, Two
<1> QED
  BY <1>2, <1>4, <1>5, <1>6

LEMMA EndKinds ==
  ASSUME NEW k
  PROVE  <<End>> \in Seq(Notices) /\ (HasKind(<<End>>, k) <=> k = "end")
<1>1. End \in Notices /\ End.kind = "end"
  BY NoticeTypes
<1>2. <<End>> \in Seq(Notices)
  BY <1>1, Two
<1>3. HasKind(<<End>>, k) <=> End.kind = k
  BY <1>1, KindTwo
<1> QED
  BY <1>1, <1>2, <1>3

\* A queue in which MATCH_READY keeps its place.
LEMMA ReadyKept ==
  ASSUME NEW q \in Seq(Notices), NEW ms \in Seq(Notices), ~HasKind(ms, "ready"),
         ReadyFirst(q), HasKind(q, "ready") => HasKind(q, "turn")
  PROVE  /\ ReadyFirst(q \o ms)
         /\ HasKind(q \o ms, "ready") => HasKind(q \o ms, "turn")
BY ReadySent, KindSent

LEMMA StepReady ==
  TypeInv /\ IdleInv /\ StoredInv /\ ReadyInv /\ [Next]_vars => ReadyInv'
<1> SUFFICES ASSUME TypeInv, IdleInv, StoredInv, ReadyInv, [Next]_vars
             PROVE  ReadyInv'
  OBVIOUS
<1>0. \A w \in Players : /\ toClient[w] \in Seq(Notices) /\ ReadyFirst(toClient[w])
                         /\ HasKind(toClient[w], "ready") => HasKind(toClient[w], "turn")
  BY DEF TypeInv, TypeOK, ReadyInv
<1>1. ASSUME UNCHANGED toClient
      PROVE  ReadyInv'
  BY <1>0, <1>1 DEF ReadyInv
<1>2. ASSUME NEW ms \in Seq(Notices), ~HasKind(ms, "ready"),
             \A w \in Players : toClient'[w] = toClient[w] \o ms
      PROVE  ReadyInv'
  BY <1>0, <1>2, ReadyKept DEF ReadyInv
<1>3. CASE Start
  <2>1. PICK first \in Players : \A w \in Players : toClient'[w] = <<Ready, Turn(first)>>
    BY <1>3, StartFacts
  <2>2. \A k : HasKind(<<Ready, Turn(first)>>, k) <=> k \in {"ready", "turn"}
    <3>1. \A k : HasKind(<<Ready, Turn(first)>>, k)
                   <=> Ready.kind = k \/ Turn(first).kind = k
      BY KindTwo
    <3> QED
      BY <3>1, NoticeTypes
  <2>3. ReadyFirst(<<Ready, Turn(first)>>)
    <3>1. DOMAIN <<Ready, Turn(first)>> = {1, 2}
      OBVIOUS
    <3> QED
      BY <3>1, NoticeTypes, Two DEF ReadyFirst
  <2> QED
    BY <2>1, <2>2, <2>3 DEF ReadyInv
<1>4. CASE SendsEnd
  BY <1>2, <1>4, EndKinds DEF SendsEnd
<1>5. ASSUME NEW u \in Players, NEW c \in Cells, Play(u, c)
      PROVE  ReadyInv'
  <2>1. \A w \in Players : toClient'[w] = toClient[w] \o <<Verdict(u, c), After(u)>>
    BY <1>5, PlayFacts DEF TypeInv, TypeOK
  <2>2. /\ <<Verdict(u, c), After(u)>> \in Seq(Notices)
        /\ ~HasKind(<<Verdict(u, c), After(u)>>, "ready")
    BY <1>5, PlayKinds
  <2> QED
    BY <1>2, <2>1, <2>2
<1>6. ASSUME NEW u \in Players, Handle(u)
      PROVE  ReadyInv'
  <2>1. ReadyFirst(Tail(toClient[u])) /\ ~HasKind(Tail(toClient[u]), "ready")
    BY <1>0, <1>6, HandleFacts, ReadyTail
  <2> QED
    BY <1>0, <1>6, <2>1, HandleFacts DEF ReadyInv
<1>7. ASSUME NEW u \in Players, NEW f \in Fleets, Place(u, f)
      PROVE  UNCHANGED toClient
  BY <1>7 DEF Place
<1>8. ASSUME NEW u \in Players, Clicks(u) \/ Edit(u)
      PROVE  UNCHANGED toClient
  BY <1>8, ClickFacts DEF Edit
<1>9. ASSUME TimeoutRemoves \/ UNCHANGED vars
      PROVE  UNCHANGED toClient
  BY <1>9 DEF TimeoutRemoves, vars
<1> QED
  BY <1>1, <1>3, <1>4, <1>5, <1>6, <1>7, <1>8, <1>9, StepKinds, ServeFacts, AnnounceFacts

\* TurnInv of one player.
Informed(q, t, u, mine, timer) ==
  /\ LastTurnIs(q, t)
  /\ ~HasKind(q, "turn") /\ t # u => ~mine /\ ~timer

LEMMA StepTurn ==
  TypeInv /\ IdleInv /\ StoredInv /\ ReadyInv /\ TurnInv /\ [Next]_vars => TurnInv'
<1> SUFFICES ASSUME TypeInv, IdleInv, StoredInv, ReadyInv, TurnInv, [Next]_vars,
                    turn' # Nobody, NEW w \in Players
             PROVE  Informed(toClient'[w], turn', w, myTurn'[w], ticking'[w])
  BY DEF TurnInv, Informed
<1>0. /\ toClient[w] \in Seq(Notices) /\ toClient \in [Players -> Seq(Notices)]
      /\ turn # Nobody => Informed(toClient[w], turn, w, myTurn[w], ticking[w])
  BY DEF TypeInv, TypeOK, TurnInv, Informed
<1>1. ASSUME NEW ms \in Seq(Notices), ~HasKind(ms, "turn"), UNCHANGED <<turn, ui>>,
             toClient'[w] = toClient[w] \o ms
      PROVE  Informed(toClient'[w], turn', w, myTurn'[w], ticking'[w])
  <2>1. /\ LastTurnIs(toClient[w] \o ms, turn)
        /\ HasKind(toClient[w] \o ms, "turn") <=> HasKind(toClient[w], "turn")
    BY <1>0, <1>1, NoTurnSent, KindSent DEF Informed
  <2> QED
    BY <1>0, <1>1, <2>1 DEF Informed, ui
<1>2. ASSUME NEW q \in Seq(Notices), NEW a \in Notices, a.kind # "turn",
             turn' \in Players, toClient'[w] = q \o <<a, Turn(turn')>>
      PROVE  Informed(toClient'[w], turn', w, myTurn'[w], ticking'[w])
  <2>1. Turn(turn') \in Notices /\ Turn(turn').kind = "turn" /\ Turn(turn').of = turn'
    BY <1>2, NoticeTypes
  <2>2. LastTurnIs(q \o <<a, Turn(turn')>>, turn')
    BY <1>2, <2>1, TurnSent
  <2>3. <<a, Turn(turn')>> \in Seq(Notices) /\ HasKind(<<a, Turn(turn')>>, "turn")
    <3>1. <<a, Turn(turn')>> \in Seq(Notices)
      BY <2>1, Two
    <3>2. HasKind(<<a, Turn(turn')>>, "turn")
      BY <2>1, KindTwo
    <3> QED
      BY <3>1, <3>2
  <2>4. HasKind(q \o <<a, Turn(turn')>>, "turn")
    BY <1>2, <2>3, KindSent
  <2> QED
    BY <1>2, <2>2, <2>4 DEF Informed
<1>3. CASE Start
  <2>1. PICK first \in Players : turn' = first /\ toClient'[w] = <<Ready, Turn(first)>>
    BY <1>3, StartFacts
  <2>2. <<>> \in Seq(Notices) /\ <<>> \o <<Ready, Turn(first)>> = <<Ready, Turn(first)>>
    BY NoticeTypes, Two
  <2> QED
    BY <1>2, <2>1, <2>2, NoticeTypes
<1>4. ASSUME SendsEnd, UNCHANGED ui
      PROVE  Informed(toClient'[w], turn', w, myTurn'[w], ticking'[w])
  BY <1>1, <1>4, EndKinds DEF SendsEnd, match
<1>5. ASSUME NEW u \in Players, NEW c \in Cells, Play(u, c), UNCHANGED ui
      PROVE  Informed(toClient'[w], turn', w, myTurn'[w], ticking'[w])
  <2>1. /\ Shot(u, c) /\ Verdict(u, c) \in Notices
        /\ toClient'[w] = toClient[w] \o <<Verdict(u, c), After(u)>>
    BY <1>0, <1>5, PlayFacts DEF TypeInv
  <2>2. /\ turn' \in Players /\ Verdict(u, c).kind = "result"
        /\ left'[Other(u)] = 0 => turn' = turn
    BY <2>1, ShotFacts, VerdictFacts DEF TypeInv
  <2>3. CASE left'[Other(u)] = 0
    <3>1. /\ <<Verdict(u, c), After(u)>> \in Seq(Notices)
          /\ ~HasKind(<<Verdict(u, c), After(u)>>, "turn")
      BY <1>5, <2>3, PlayKinds
    <3> QED
      BY <1>1, <1>5, <2>1, <2>2, <2>3, <3>1
  <2>4. CASE left'[Other(u)] # 0
    BY <1>0, <1>2, <2>1, <2>2, <2>4 DEF After
  <2> QED
    BY <2>3, <2>4
<1>6. ASSUME UNCHANGED <<turn, toClient>>, ~ticking[w] => myTurn'[w] = myTurn[w],
             ticking'[w] => ticking[w]
      PROVE  Informed(toClient'[w], turn', w, myTurn'[w], ticking'[w])
  BY <1>0, <1>6 DEF Informed, TypeInv, TypeOK
<1>7. ASSUME NEW u \in Players, Handle(u)
      PROVE  Informed(toClient'[w], turn', w, myTurn'[w], ticking'[w])
  <2>0. UNCHANGED turn
    BY <1>7, HandleFacts DEF match
  <2>1. CASE w # u
    <3>1. /\ toClient'[w] = toClient[w]
          /\ myTurn'[w] = myTurn[w] /\ ticking'[w] = ticking[w]
      BY <1>7, <2>1, HandleFacts
    <3> QED
      BY <1>0, <2>0, <3>1
  <2>2. CASE w = u
    <3>1. /\ toClient[w] # <<>> /\ toClient'[w] = Tail(toClient[w])
          /\ Message(w) = Head(toClient[w])
      BY <1>7, <2>2, HandleFacts DEF Message
    <3>2. /\ LastTurnIs(Tail(toClient[w]), turn)
          /\ Message(w).kind = "turn" /\ ~HasKind(Tail(toClient[w]), "turn")
               => Message(w).of = turn
      BY <1>0, <2>0, <3>1, LastTurnTail DEF Informed
    <3>3. HasKind(toClient[w], "turn")
            <=> Message(w).kind = "turn" \/ HasKind(Tail(toClient[w]), "turn")
      BY <1>0, <3>1, KindTail
    <3>4. CASE MatchReady(w)
      <4>1. Message(w).kind = "ready"
        BY <3>4 DEF MatchReady, Arrives
      <4>2. HasKind(toClient[w], "ready")
        BY <1>0, <3>1, <4>1, KindTail
      <4>3. HasKind(Tail(toClient[w]), "turn")
        BY <3>3, <4>1, <4>2 DEF ReadyInv
      <4> QED
        BY <2>0, <3>1, <3>2, <4>3 DEF Informed
    <3>5. CASE TurnUpdate(w)
      <4>1. /\ Message(w).kind = "turn"
            /\ myTurn'[w] = (Message(w).of = w) /\ ticking'[w] = (Message(w).of = w)
        BY <3>5 DEF TurnUpdate, Arrives, TypeInv, TypeOK
      <4> QED
        BY <2>0, <3>1, <3>2, <4>1 DEF Informed
    <3>6. CASE OwnShot(w) \/ TheirShot(w) \/ MatchEnd(w)
      <4>1. /\ Message(w).kind # "turn" /\ myTurn'[w] = myTurn[w]
            /\ ticking'[w] => ticking[w]
        BY <3>6 DEF OwnShot, TheirShot, MatchEnd, Arrives, TypeInv, TypeOK
      <4> QED
        BY <1>0, <2>0, <3>1, <3>2, <3>3, <4>1 DEF Informed
    <3> QED
      BY <1>7, <2>2, <3>4, <3>5, <3>6 DEF Handle
  <2> QED
    BY <2>1, <2>2
<1>8. ASSUME NEW u \in Players, NEW f \in Fleets, Place(u, f)
      PROVE  Informed(toClient'[w], turn', w, myTurn'[w], ticking'[w])
  BY <1>6, <1>8 DEF Place, Server!Place
<1>9. ASSUME NEW u \in Players, Clicks(u)
      PROVE  Informed(toClient'[w], turn', w, myTurn'[w], ticking'[w])
  <2>1. UNCHANGED <<turn, toClient>>
    BY <1>9, ClickFacts DEF match
  <2> QED
    BY <1>6, <1>9, <2>1, ClickFacts
<1>10. ASSUME UNCHANGED <<match, toClient, ui>>
       PROVE  Informed(toClient'[w], turn', w, myTurn'[w], ticking'[w])
  BY <1>6, <1>10 DEF match, ui
<1>11. ASSUME TimeoutRemoves \/ UNCHANGED vars
       PROVE  UNCHANGED <<match, toClient, ui>>
  BY <1>11 DEF TimeoutRemoves, vars
<1>12. ASSUME NEW u \in Players, Serve(u)
       PROVE  Informed(toClient'[w], turn', w, myTurn'[w], ticking'[w])
  BY <1>4, <1>5, <1>10, <1>12, ServeFacts
<1>13. ASSUME NEW u \in Players, Edit(u)
       PROVE  Informed(toClient'[w], turn', w, myTurn'[w], ticking'[w])
  BY <1>6, <1>13 DEF Edit, match
<1> QED
  BY <1>3, <1>4, <1>7, <1>8, <1>9, <1>10, <1>11, <1>12, <1>13, StepKinds, AnnounceFacts

LEMMA StepEnd ==
  TypeInv /\ IdleInv /\ StoredInv /\ ReadyInv /\ EndInv /\ [Next]_vars => EndInv'
<1> SUFFICES ASSUME TypeInv, IdleInv, StoredInv, ReadyInv, EndInv, [Next]_vars,
                    NEW w \in Players, gone' \/ ending',
                    screen'[w] = "game" \/ HasKind(toClient'[w], "ready")
             PROVE  HasKind(toClient'[w], "end")
  BY DEF EndInv
<1>0. toClient[w] \in Seq(Notices) /\ toClient \in [Players -> Seq(Notices)]
  BY DEF TypeInv, TypeOK
<1>1. ASSUME gone \/ ending, screen[w] = "game" \/ HasKind(toClient[w], "ready")
      PROVE  HasKind(toClient[w], "end")
  BY <1>1 DEF EndInv
<1>2. CASE Start
  <2>1. turn = Nobody /\ UNCHANGED fate
    BY <1>2, StartFacts
  <2> QED
    BY <2>1 DEF IdleInv, fate
<1>3. CASE SendsEnd
  <2>1. toClient'[w] = toClient[w] \o <<End>>
    BY <1>3 DEF SendsEnd
  <2>2. <<End>> \in Seq(Notices) /\ HasKind(<<End>>, "end")
    BY EndKinds
  <2>3. HasKind(toClient[w] \o <<End>>, "end")
    BY <1>0, <2>2, KindSent
  <2> QED
    BY <2>1, <2>3
<1>4. ASSUME NEW u \in Players, NEW c \in Cells, Play(u, c), UNCHANGED <<ending, ui>>
      PROVE  HasKind(toClient'[w], "end")
  <2>1. /\ toClient'[w] = toClient[w] \o <<Verdict(u, c), After(u)>>
        /\ gone' = gone \/ (gone' = TRUE /\ left'[Other(u)] = 0)
    BY <1>0, <1>4, PlayFacts DEF TypeInv
  <2>2. /\ <<Verdict(u, c), After(u)>> \in Seq(Notices)
        /\ ~HasKind(<<Verdict(u, c), After(u)>>, "ready")
        /\ left'[Other(u)] = 0 => HasKind(<<Verdict(u, c), After(u)>>, "end")
    BY <1>4, PlayKinds
  <2> DEFINE ms == <<Verdict(u, c), After(u)>>
  <2> HIDE DEF ms
  <2>3. \A k : HasKind(toClient[w] \o ms, k) <=> HasKind(toClient[w], k) \/ HasKind(ms, k)
    BY <1>0, <2>2, KindSent DEF ms
  <2>4. toClient'[w] = toClient[w] \o ms /\ screen' = screen /\ ending' = ending
    BY <1>4, <2>1 DEF ms, ui
  <2>5. CASE gone' = gone
    <3>1. screen[w] = "game" \/ HasKind(toClient[w], "ready")
      BY <2>2, <2>3, <2>4 DEF ms
    <3>2. HasKind(toClient[w], "end")
      BY <1>1, <2>4, <2>5, <3>1
    <3> QED
      BY <2>3, <2>4, <3>2
  <2>6. CASE left'[Other(u)] = 0
    BY <2>2, <2>3, <2>4, <2>6 DEF ms
  <2> QED
    BY <2>1, <2>5, <2>6
<1>5. ASSUME NEW u \in Players, Handle(u)
      PROVE  HasKind(toClient'[w], "end")
  <2>1. UNCHANGED fate
    BY <1>5, HandleFacts
  <2>2. CASE w # u
    BY <1>1, <1>5, <2>1, <2>2, HandleFacts DEF fate
  <2>3. CASE w = u
    <3>1. /\ toClient[w] # <<>> /\ toClient'[w] = Tail(toClient[w])
          /\ Message(w) = Head(toClient[w])
      BY <1>5, <2>3, HandleFacts DEF Message
    <3>2. ~HasKind(Tail(toClient[w]), "ready")
      BY <1>0, <3>1, ReadyTail DEF ReadyInv
    <3>3. screen'[w] = "game"
      BY <3>1, <3>2
    <3>4. screen[w] = "game" \/ Message(w).kind = "ready"
      BY <1>5, <2>3, <3>3 DEF Handle, MatchReady, OwnShot, TheirShot, TurnUpdate,
                              MatchEnd, Arrives, TypeInv, TypeOK
    <3>5. Message(w).kind # "end"
      BY <1>5, <2>3, <3>3 DEF Handle, MatchReady, OwnShot, TheirShot, TurnUpdate,
                              MatchEnd, Arrives, TypeInv, TypeOK
    <3>6. HasKind(toClient[w], "end")
      BY <1>0, <1>1, <2>1, <3>1, <3>4, KindTail DEF fate
    <3> QED
      BY <1>0, <3>1, <3>5, <3>6, KindTail
  <2> QED
    BY <2>2, <2>3
<1>6. ASSUME NEW u \in Players, Clicks(u)
      PROVE  HasKind(toClient'[w], "end")
  BY <1>1, <1>6, ClickFacts DEF fate
<1>7. ASSUME UNCHANGED <<toClient, screen>>, gone' \/ ending' => gone \/ ending
      PROVE  HasKind(toClient'[w], "end")
  BY <1>1, <1>7
<1>8. ASSUME NEW u \in Players, NEW f \in Fleets, Place(u, f)
      PROVE  HasKind(toClient'[w], "end")
  BY <1>7, <1>8 DEF Place, fate
<1>9. CASE TimeoutRemoves \/ UNCHANGED vars
  BY <1>7, <1>9 DEF TimeoutRemoves, vars, fate, ui
<1>10. ASSUME NEW u \in Players, Serve(u)
       PROVE  HasKind(toClient'[w], "end")
  BY <1>3, <1>4, <1>7, <1>10, ServeFacts DEF ui
<1>11. ASSUME NEW u \in Players, Edit(u)
       PROVE  HasKind(toClient'[w], "end")
  BY <1>7, <1>11 DEF Edit, fate
<1> QED
  BY <1>2, <1>3, <1>5, <1>6, <1>8, <1>9, <1>10, <1>11, StepKinds, AnnounceFacts

ScreenInv == TypeInv /\ IdleInv /\ StoredInv /\ QueueInv

LEMMA InitScreen == Init => ScreenInv
<1>1. Init => IdleInv /\ StoredInv
  BY DEF Init, Server!Init, Server!None, None, IdleInv, StoredInv
<1> QED
  BY <1>1, InitTypeInv, InitQueue DEF ScreenInv

LEMMA StepScreen == ScreenInv /\ [Next]_vars => ScreenInv'
BY StepTypeInv, StepIdle, StepReady, StepTurn, StepEnd DEF ScreenInv, QueueInv

LEMMA ScreenInvAlways == Spec => []ScreenInv
BY InitScreen, StepScreen, PTL DEF Spec

\* A client never lets its player shoot in the other's turn but while the
\* message of that turn is on its way, for any number of messages on their
\* way and however often the timer of a client fires.
THEOREM TurnsBelieved == Spec => []TurnBelief
<1>1. ASSUME ScreenInv, NEW u \in Players, screen[u] = "game", myTurn[u], turn # u
      PROVE  Turn(Other(u)) \in Coming(u)
  <2> DEFINE q == toClient[u]
  <2>1. turn # Nobody
    BY <1>1 DEF ScreenInv, IdleInv
  <2>2. turn = Other(u)
    BY <1>1, <2>1, TwoPlayers DEF ScreenInv, TypeInv, TypeOK, Server!TypeOK
  <2>3. q \in Seq(Notices) /\ LastTurnIs(q, turn) /\ HasKind(q, "turn")
    BY <1>1, <2>1 DEF ScreenInv, QueueInv, TurnInv, TypeInv, TypeOK
  <2> HIDE DEF q
  <2>4. PICK i \in DOMAIN q : q[i].kind = "turn" /\ q[i].of = turn
    BY <2>3 DEF LastTurnIs, IsLastTurn
  <2>5. q[i] \in Notices
    BY <2>3
  <2>6. q[i] = Turn(Other(u))
    BY <2>2, <2>4, <2>5, NoticeFields
  <2> QED
    BY <2>4, <2>6 DEF Coming, q
<1>2. ScreenInv => TurnBelief
  BY <1>1 DEF TurnBelief
<1> QED
  BY <1>2, ScreenInvAlways, PTL

\* Nobody sits at the game screen of a match that is over without its end in
\* the queue, whoever ended it and whatever else is on its way.
THEOREM GameScreensHaveMatch == Spec => []GameScreenHasMatch
<1>1. ASSUME ScreenInv, NEW u \in Players, screen[u] = "game", gone
      PROVE  End \in Coming(u)
  <2>1. PICK i \in DOMAIN toClient[u] : toClient[u][i].kind = "end"
    BY <1>1 DEF ScreenInv, QueueInv, EndInv, HasKind
  <2>2. toClient[u][i] \in Notices
    BY <1>1 DEF ScreenInv, TypeInv, TypeOK
  <2>3. toClient[u][i] = End
    BY <2>1, <2>2, NoticeFields
  <2> QED
    BY <2>3 DEF Coming
<1>2. ScreenInv => GameScreenHasMatch
  BY <1>1 DEF GameScreenHasMatch
<1> QED
  BY <1>2, ScreenInvAlways, PTL

-----------------------------------------------------------------------------
(* The boards.                                                             *)

\* The result of a shot at cell c of the board of v.
AboutCell(m, v, c) == m.kind = "result" /\ Other(m.by) = v /\ m.cell = c
Pending(q, v, c) == \E i \in DOMAIN q : AboutCell(q[i], v, c)

LEMMA PendingSent ==
  ASSUME NEW S, NEW q \in Seq(S), NEW ms \in Seq(S), NEW v, NEW c
  PROVE  Pending(q \o ms, v, c) <=> Pending(q, v, c) \/ Pending(ms, v, c)
<1>1. /\ DOMAIN ms = 1..Len(ms)
      /\ \A i \in 1..Len(ms) : Len(q) + i \in DOMAIN (q \o ms)
  OBVIOUS
<1>2. Pending(q, v, c) => Pending(q \o ms, v, c)
  BY SentFacts DEF Pending
<1>3. ASSUME NEW i \in DOMAIN ms, AboutCell(ms[i], v, c)
      PROVE  Pending(q \o ms, v, c)
  <2>1. Len(q) + i \in DOMAIN (q \o ms) /\ (q \o ms)[Len(q) + i] = ms[i]
    BY <1>1, SentFacts
  <2> QED
    BY <1>3, <2>1 DEF Pending
<1>4. ASSUME NEW i \in DOMAIN (q \o ms), AboutCell((q \o ms)[i], v, c)
      PROVE  Pending(q, v, c) \/ Pending(ms, v, c)
  <2>1. CASE i \in DOMAIN q
    BY <1>4, <2>1, SentFacts DEF Pending
  <2>2. ASSUME NEW k \in 1..Len(ms), i = Len(q) + k
        PROVE  Pending(ms, v, c)
    BY <1>1, <1>4, <2>2, SentFacts DEF Pending
  <2> QED
    BY <2>1, <2>2, SentFacts
<1> QED
  BY <1>2, <1>3, <1>4 DEF Pending

LEMMA PendingTail ==
  ASSUME NEW S, NEW q \in Seq(S), q # <<>>, NEW v, NEW c
  PROVE  Pending(q, v, c) <=> AboutCell(Head(q), v, c) \/ Pending(Tail(q), v, c)
<1>1. ASSUME NEW i \in DOMAIN q, AboutCell(q[i], v, c)
      PROVE  AboutCell(Head(q), v, c) \/ Pending(Tail(q), v, c)
  <2>1. i # 1 => i - 1 \in DOMAIN Tail(q) /\ Tail(q)[i - 1] = q[i]
    BY TailFacts
  <2> QED
    BY <1>1, <2>1, TailFacts DEF Pending
<1>2. AboutCell(Head(q), v, c) => Pending(q, v, c)
  BY TailFacts DEF Pending
<1>3. Pending(Tail(q), v, c) => Pending(q, v, c)
  BY TailFacts DEF Pending
<1> QED
  BY <1>1, <1>2, <1>3 DEF Pending

\* A result is one of the grids g, and no older than them.
Honest(m, g) ==
  m.kind = "result" =>
    /\ g[Other(m.by)][m.cell] \in {"miss", "hit"}
    /\ m.res # "miss" => g[Other(m.by)][m.cell] = "hit"

ResultInv ==
  \A u \in Players : \A i \in DOMAIN toClient[u] : Honest(toClient[u][i], grid)

\* The own board is the server's, but for the shots whose results are in the
\* queue, and shows the shots, if its fleet is another now.
OwnShows(mine, cell, pending) ==
  \/ mine = cell
  \/ pending /\ mine = "ship" /\ cell = "hit"
  \/ pending /\ mine = "empty" /\ cell = "miss"
ShotsShown(mine, cell, pending) == pending \/ (mine \in ShotAt <=> cell \in ShotAt)
OwnInv ==
  turn # Nobody => \A u \in Players : \A c \in Cells :
    LET pending == Pending(toClient[u], u, c) IN
    /\ ShotsShown(own[u][c], grid[u][c], pending)
    /\ u \notin edited => OwnShows(own[u][c], grid[u][c], pending)

\* A client still at its placement screen has not handled MATCH_READY, nor
\* anything behind it: whatever fleet it draws, the results are to come.
EditInv ==
  turn # Nobody => \A u \in Players : screen[u] = "placement" =>
    /\ toClient[u] # <<>> /\ Message(u).kind = "ready"
    /\ \A c \in Cells : OwnShows(Drawn(stored[u], Types)[c], grid[u][c],
                                 Pending(toClient[u], u, c))

\* So is the other's board.
Marked(mark, cell) == /\ cell = "miss" => mark = "miss"
                      /\ cell = "hit" => mark # "empty"
ShownInv ==
  \A u \in Players : \A c \in Cells :
    Pending(toClient[u], Other(u), c) \/ Marked(shown[u][c], grid[Other(u)][c])

LEMMA InitBoards == Init => ResultInv /\ OwnInv /\ EditInv /\ ShownInv
<1> SUFFICES ASSUME Init
             PROVE  ResultInv /\ OwnInv /\ EditInv /\ ShownInv
  OBVIOUS
<1>1. /\ \A u \in Players : toClient[u] = <<>> /\ Other(u) \in Players
      /\ \A u \in Players : \A c \in Cells : grid[u][c] = "empty"
  BY SameCells, TwoPlayers DEF Init, Server!Init
<1>2. turn = Nobody
  BY DEF Init, Server!Init
<1> QED
  BY <1>1, <1>2 DEF ResultInv, OwnInv, EditInv, ShownInv, Marked

\* No shot takes back a miss or a hit.
LEMMA ShotsStay ==
  ASSUME Game!Inv, NEW u \in Players, NEW c \in Cells, Shot(u, c), NEW m \in Notices,
         Honest(m, grid)
  PROVE  Honest(m, grid')
<1>1. m.kind = "result" => Other(m.by) \in Players /\ m.cell \in Cells
  BY NoticeFields, TwoPlayers
<1>2. \A v \in Players : \A d \in Cells :
        grid[v][d] \in {"miss", "hit"} => grid'[v][d] = grid[v][d]
  BY ShotFacts
<1> QED
  BY <1>1, <1>2 DEF Honest

LEMMA VerdictHonest ==
  ASSUME Game!Inv, NEW u \in Players, NEW c \in Cells, Shot(u, c)
  PROVE  Honest(Verdict(u, c), grid')
<1>1. grid[Other(u)][c] \in {"empty", "ship", "miss", "hit"}
  BY MatchFacts, TwoPlayers DEF CellStates
<1> QED
  BY <1>1, ShotFacts, VerdictFacts DEF Honest

LEMMA StepResults ==
  TypeInv /\ IdleInv /\ StoredInv /\ ResultInv /\ [Next]_vars => ResultInv'
<1> SUFFICES ASSUME TypeInv, IdleInv, StoredInv, ResultInv, [Next]_vars,
                    NEW w \in Players
             PROVE  \A i \in DOMAIN toClient'[w] : Honest(toClient'[w][i], grid')
  BY DEF ResultInv
<1>0. /\ toClient[w] \in Seq(Notices) /\ toClient \in [Players -> Seq(Notices)]
      /\ \A i \in DOMAIN toClient[w] : Honest(toClient[w][i], grid)
  BY DEF TypeInv, TypeOK, ResultInv
<1>1. CASE UNCHANGED <<grid, toClient>>
  BY <1>0, <1>1
<1>2. CASE Start
  <2>1. PICK first \in Players : toClient'[w] = <<Ready, Turn(first)>>
    BY <1>2, StartFacts
  <2>2. \A i \in DOMAIN <<Ready, Turn(first)>> :
          <<Ready, Turn(first)>>[i] = Ready \/ <<Ready, Turn(first)>>[i] = Turn(first)
    OBVIOUS
  <2> QED
    BY <2>1, <2>2, NoticeTypes DEF Honest
<1>3. CASE SendsEnd
  <2>1. toClient'[w] = toClient[w] \o <<End>> /\ grid' = grid
    BY <1>3 DEF SendsEnd, match
  <2>2. <<End>> \in Seq(Notices) /\ Len(<<End>>) = 1 /\ <<End>>[1] = End
    BY NoticeTypes, Two
  <2>3. \A i \in DOMAIN toClient'[w] :
          \/ i \in DOMAIN toClient[w] /\ toClient'[w][i] = toClient[w][i]
          \/ toClient'[w][i] = End
    BY <1>0, <2>1, <2>2, SentFacts
  <2> QED
    <3>1. Honest(End, grid)
      BY NoticeTypes DEF Honest
    <3> QED
      BY <1>0, <2>1, <2>3, <3>1
<1>4. ASSUME NEW u \in Players, NEW c \in Cells, Play(u, c)
      PROVE  \A i \in DOMAIN toClient'[w] : Honest(toClient'[w][i], grid')
  <2> DEFINE ms == <<Verdict(u, c), After(u)>>
  <2>1. /\ Shot(u, c) /\ Verdict(u, c) \in Notices /\ After(u) \in Notices
        /\ toClient'[w] = toClient[w] \o ms
    BY <1>0, <1>4, PlayFacts DEF TypeInv
  <2>2. ms \in Seq(Notices) /\ Len(ms) = 2 /\ ms[1] = Verdict(u, c) /\ ms[2] = After(u)
    BY <2>1, Two
  <2> HIDE DEF ms
  <2>3. \A i \in DOMAIN toClient'[w] :
          \/ i \in DOMAIN toClient[w] /\ toClient'[w][i] = toClient[w][i]
          \/ toClient'[w][i] = Verdict(u, c) \/ toClient'[w][i] = After(u)
    BY <1>0, <2>1, <2>2, SentFacts
  <2>4. \A i \in DOMAIN toClient[w] : Honest(toClient[w][i], grid')
    BY <1>0, <2>1, ShotsStay DEF TypeInv
  <2>5. Honest(Verdict(u, c), grid')
    BY <2>1, VerdictHonest DEF TypeInv
  <2>6. Honest(After(u), grid')
    <3>1. turn' \in Players
      BY <2>1, ShotFacts DEF TypeInv
    <3> QED
      BY <3>1, NoticeTypes DEF After, Honest
  <2> QED
    BY <2>3, <2>4, <2>5, <2>6
<1>5. ASSUME NEW u \in Players, Handle(u)
      PROVE  \A i \in DOMAIN toClient'[w] : Honest(toClient'[w][i], grid')
  <2>1. UNCHANGED grid
    BY <1>5, HandleFacts DEF match
  <2>2. CASE w # u
    BY <1>0, <1>5, <2>1, <2>2, HandleFacts
  <2>3. CASE w = u
    <3>1. toClient[w] # <<>> /\ toClient'[w] = Tail(toClient[w])
      BY <1>5, <2>3, HandleFacts
    <3>2. \A i \in DOMAIN Tail(toClient[w]) :
            i + 1 \in DOMAIN toClient[w] /\ Tail(toClient[w])[i] = toClient[w][i + 1]
      BY <1>0, <3>1, TailFacts
    <3> QED
      BY <1>0, <2>1, <3>1, <3>2
  <2> QED
    BY <2>2, <2>3
<1>6. ASSUME NEW u \in Players, NEW f \in Fleets, Place(u, f)
      PROVE  UNCHANGED <<grid, toClient>>
  BY <1>6 DEF Place, Server!Place, Server!boards
<1>7. ASSUME NEW u \in Players, Clicks(u) \/ Edit(u)
      PROVE  UNCHANGED <<grid, toClient>>
  BY <1>7, ClickFacts DEF match, Edit
<1>8. ASSUME TimeoutRemoves \/ UNCHANGED vars
      PROVE  UNCHANGED <<grid, toClient>>
  BY <1>8 DEF TimeoutRemoves, vars, match
<1>9. ASSUME NEW u \in Players, Serve(u)
      PROVE  \A i \in DOMAIN toClient'[w] : Honest(toClient'[w][i], grid')
  BY <1>1, <1>3, <1>4, <1>9, ServeFacts DEF match
<1> QED
  BY <1>1, <1>2, <1>3, <1>5, <1>6, <1>7, <1>8, <1>9, StepKinds, AnnounceFacts

\* The boards of player w, at cell d; the own fleet is the one sent, or not.
Follows(q, w, d, mine, same, mark, g) ==
  /\ ShotsShown(mine, g[w][d], Pending(q, w, d))
  /\ same => OwnShows(mine, g[w][d], Pending(q, w, d))
  /\ Pending(q, Other(w), d) \/ Marked(mark, g[Other(w)][d])

LEMMA FollowsIff ==
  turn # Nobody =>
    (OwnInv /\ ShownInv <=>
       \A w \in Players : \A d \in Cells :
         Follows(toClient[w], w, d, own[w][d], w \notin edited, shown[w][d], grid))
BY DEF OwnInv, ShownInv, Follows

LEMMA BeforeMatch ==
  TypeInv /\ turn = Nobody => OwnInv /\ ShownInv
BY MatchFacts, TwoPlayers DEF OwnInv, ShownInv, Marked, TypeInv

LEMMA BeforeMatchNext == TypeInv' /\ (turn = Nobody)' => OwnInv' /\ ShownInv'
BY BeforeMatch, PTL

LEMMA StartFollows ==
  ASSUME TypeInv, IdleInv, StoredInv, Start, NEW w \in Players, NEW d \in Cells
  PROVE  Follows(toClient'[w], w, d, own'[w][d], w \notin edited', shown'[w][d], grid')
<1>1. /\ w \notin edited => own[w][d] = grid'[w][d]
      /\ own[w][d] \in {"ship", "empty"}
      /\ own' = own /\ edited' = edited
  BY StartFacts DEF ui
<1>2. grid'[w][d] \in {"ship", "empty"} /\ grid'[Other(w)][d] \in {"ship", "empty"}
  BY StartFacts, TwoPlayers, DrawnType
<1> QED
  BY <1>1, <1>2 DEF Follows, OwnShows, ShotsShown, ShotAt, Marked

\* A shot, for the boards of player w at cell d.
LEMMA ShotQueue ==
  ASSUME TypeInv, NEW u \in Players, NEW c \in Cells, Play(u, c), NEW w \in Players
  PROVE  /\ Pending(toClient'[w], Other(u), c)
         /\ \A v, e : Pending(toClient[w], v, e) => Pending(toClient'[w], v, e)
         /\ toClient[w] # <<>> =>
              toClient'[w] # <<>> /\ Head(toClient'[w]) = Head(toClient[w])
<1> DEFINE ms == <<Verdict(u, c), After(u)>>
<1>1. /\ Shot(u, c) /\ Verdict(u, c) \in Notices /\ After(u) \in Notices
      /\ toClient'[w] = toClient[w] \o ms /\ toClient[w] \in Seq(Notices)
  BY PlayFacts DEF TypeInv, TypeOK
<1>2. ms \in Seq(Notices) /\ Len(ms) = 2 /\ ms[1] = Verdict(u, c) /\ 1 \in DOMAIN ms
  BY <1>1, Two
<1>3. AboutCell(ms[1], Other(u), c)
  BY <1>1, <1>2, VerdictFacts DEF AboutCell, TypeInv
<1> HIDE DEF ms
<1>4. Pending(ms, Other(u), c)
  BY <1>2, <1>3 DEF Pending
<1>5. \A v, e : Pending(toClient'[w], v, e)
                  <=> Pending(toClient[w], v, e) \/ Pending(ms, v, e)
  BY <1>1, <1>2, PendingSent
<1>6. ASSUME toClient[w] # <<>>
      PROVE  toClient'[w] # <<>> /\ Head(toClient'[w]) = Head(toClient[w])
  BY <1>1, <1>2, <1>6
<1> QED
  BY <1>4, <1>5, <1>6

\* Whatever the own board shows there.
LEMMA ShotOwn ==
  ASSUME TypeInv, NEW u \in Players, NEW c \in Cells, Play(u, c),
         NEW w \in Players, NEW d \in Cells, NEW mine
  PROVE  /\ OwnShows(mine, grid[w][d], Pending(toClient[w], w, d))
              => OwnShows(mine, grid'[w][d], Pending(toClient'[w], w, d))
         /\ ShotsShown(mine, grid[w][d], Pending(toClient[w], w, d))
              => ShotsShown(mine, grid'[w][d], Pending(toClient'[w], w, d))
<1>1. Shot(u, c)
  BY PlayFacts DEF TypeInv, TypeOK
<1>2. /\ Pending(toClient'[w], Other(u), c)
      /\ Pending(toClient[w], w, d) => Pending(toClient'[w], w, d)
  BY ShotQueue
<1>3. CASE w # Other(u) \/ d # c
  <2>1. grid'[w][d] = grid[w][d]
    BY <1>1, <1>3, ShotFacts DEF TypeInv
  <2> QED
    BY <1>2, <2>1 DEF OwnShows, ShotsShown
<1>4. CASE w = Other(u) /\ d = c
  <2>1. Pending(toClient'[w], w, d)
    BY <1>2, <1>4
  <2>2. grid[w][d] \in {"empty", "ship", "miss", "hit"}
    BY MatchFacts DEF CellStates, TypeInv
  <2>3. /\ grid[w][d] = "ship" => grid'[w][d] = "hit"
        /\ grid[w][d] = "empty" => grid'[w][d] = "miss"
        /\ grid[w][d] \in {"hit", "miss"} => grid'[w][d] = grid[w][d]
    BY <1>1, <1>4, ShotFacts DEF TypeInv
  <2> QED
    BY <2>1, <2>2, <2>3 DEF OwnShows, ShotsShown
<1> QED
  BY <1>3, <1>4

LEMMA ShotFollows ==
  ASSUME TypeInv, NEW u \in Players, NEW c \in Cells, Play(u, c), UNCHANGED ui,
         NEW w \in Players, NEW d \in Cells,
         Follows(toClient[w], w, d, own[w][d], w \notin edited, shown[w][d], grid)
  PROVE  Follows(toClient'[w], w, d, own'[w][d], w \notin edited', shown'[w][d], grid')
<1>1. own' = own /\ shown' = shown /\ edited' = edited
  BY DEF ui
<1>2. /\ ShotsShown(own[w][d], grid'[w][d], Pending(toClient'[w], w, d))
      /\ w \notin edited => OwnShows(own[w][d], grid'[w][d], Pending(toClient'[w], w, d))
  BY ShotOwn DEF Follows
<1>3. Pending(toClient'[w], Other(w), d) \/ Marked(shown[w][d], grid'[Other(w)][d])
  <2>1. /\ Pending(toClient'[w], Other(u), c)
        /\ \A v, e : Pending(toClient[w], v, e) => Pending(toClient'[w], v, e)
    BY ShotQueue
  <2>2. CASE Other(w) # Other(u) \/ d # c
    <3>1. Shot(u, c)
      BY PlayFacts DEF TypeInv, TypeOK
    <3>2. grid'[Other(w)][d] = grid[Other(w)][d]
      BY <2>2, <3>1, ShotFacts, TwoPlayers DEF TypeInv
    <3> QED
      BY <2>1, <3>2 DEF Follows
  <2>3. CASE Other(w) = Other(u) /\ d = c
    BY <2>1, <2>3
  <2> QED
    BY <2>2, <2>3
<1> QED
  BY <1>1, <1>2, <1>3 DEF Follows

LEMMA HandleFollows ==
  ASSUME TypeInv, ResultInv, NEW u \in Players, Handle(u), NEW d \in Cells,
         Follows(toClient[u], u, d, own[u][d], u \notin edited, shown[u][d], grid)
  PROVE  Follows(toClient'[u], u, d, own'[u][d], u \notin edited', shown'[u][d], grid')
<1> DEFINE m == Message(u)
<1>1. /\ toClient[u] # <<>> /\ toClient[u] \in Seq(Notices) /\ m \in Notices
      /\ toClient'[u] = Tail(toClient[u]) /\ grid' = grid /\ edited' = edited
  BY HandleFacts DEF match
<1>2. m = Head(toClient[u])
  BY DEF Message
<1>3. \A v, e : Pending(toClient[u], v, e)
                  <=> AboutCell(m, v, e) \/ Pending(toClient'[u], v, e)
  BY <1>1, <1>2, PendingTail
<1>4. Honest(m, grid)
  BY <1>1, <1>2, TailFacts DEF ResultInv
<1>5. /\ own \in [Players -> [Cells -> CellStates]]
      /\ shown \in [Players -> [Cells -> ShownStates]]
  BY DEF TypeInv, TypeOK, Boards
<1>6. m.kind = "result" => /\ m.cell \in Cells /\ m.by \in Players /\ m.type \in Types
                           /\ m.res \in {"miss", "hit", "sunk"}
  BY <1>1, NoticeFields
<1>7. CASE OwnShot(u)
  <2>1. m.kind = "result" /\ m.by = u /\ own' = own
    BY <1>7 DEF OwnShot, Arrives
  <2>2. shown'[u] = IF m.res = "sunk" THEN Reveal(shown[u], m.cell, m.type)
                                      ELSE [shown[u] EXCEPT ![m.cell] = m.res]
    BY <1>5, <1>7 DEF OwnShot
  <2>3. \A e : ~AboutCell(m, u, e)
    BY <2>1, TwoPlayers DEF AboutCell
  <2>4. CASE d = m.cell
    <3>1. /\ grid[Other(u)][d] \in {"miss", "hit"}
          /\ m.res # "miss" => grid[Other(u)][d] = "hit"
      BY <1>4, <2>1, <2>4 DEF Honest
    <3>2. Marked(shown'[u][d], grid[Other(u)][d])
      <4>1. CASE m.res = "sunk"
        <5>1. Reveal(shown[u], m.cell, m.type)[m.cell] # "empty"
          BY <1>5, <1>6, <2>1, RevealFacts
        <5> QED
          BY <2>2, <2>4, <3>1, <4>1, <5>1 DEF Marked
      <4>2. CASE m.res # "sunk"
        <5>1. shown'[u][d] = m.res
          BY <1>5, <2>2, <2>4, <4>2
        <5> QED
          BY <1>6, <2>1, <3>1, <5>1 DEF Marked
      <4> QED
        BY <4>1, <4>2
    <3> QED
      BY <1>1, <1>3, <2>1, <2>3, <3>2 DEF Follows, OwnShows, ShotsShown
  <2>5. CASE d # m.cell
    <3>1. \A v : ~AboutCell(m, v, d)
      BY <2>5 DEF AboutCell
    <3>2. /\ shown[u][d] = "miss" => shown'[u][d] = "miss"
          /\ shown[u][d] # "empty" => shown'[u][d] # "empty"
      <4>1. CASE m.res = "sunk"
        BY <1>5, <1>6, <2>1, <2>2, <2>5, <4>1, RevealFacts
      <4>2. CASE m.res # "sunk"
        BY <1>5, <2>2, <2>5, <4>2
      <4> QED
        BY <4>1, <4>2
    <3> QED
      BY <1>1, <1>3, <2>1, <3>1, <3>2 DEF Follows, Marked, OwnShows, ShotsShown
  <2> QED
    BY <2>4, <2>5
<1>8. CASE TheirShot(u)
  <2>1. m.kind = "result" /\ m.by # u /\ shown' = shown
    BY <1>8 DEF TheirShot, Arrives
  <2>2. own'[u] = [own[u] EXCEPT ![m.cell] =
                     CASE @ = "ship" -> "hit" [] @ = "empty" -> "miss" [] OTHER -> @]
    BY <1>5, <1>8 DEF TheirShot
  <2>3. Other(m.by) = u
    BY <1>6, <2>1, TwoPlayers
  <2>4. \A e : ~AboutCell(m, Other(u), e)
    BY <2>3, TwoPlayers DEF AboutCell
  <2>5. /\ ShotsShown(own'[u][d], grid[u][d], Pending(toClient'[u], u, d))
        /\ u \notin edited => OwnShows(own'[u][d], grid[u][d], Pending(toClient'[u], u, d))
    <3>1. CASE d = m.cell
      <4>1. grid[u][d] \in {"miss", "hit"}
        BY <1>4, <2>1, <2>3, <3>1 DEF Honest
      <4>2. own'[u][d] = CASE own[u][d] = "ship" -> "hit"
                           [] own[u][d] = "empty" -> "miss"
                           [] OTHER -> own[u][d]
        BY <1>5, <2>2, <3>1
      <4>3. own[u][d] \in {"empty", "ship", "miss", "hit"}
        BY <1>5 DEF CellStates
      <4>4. u \notin edited => OwnShows(own[u][d], grid[u][d], Pending(toClient[u], u, d))
        BY DEF Follows
      <4>5. own'[u][d] \in ShotAt /\ grid[u][d] \in ShotAt
        BY <4>1, <4>2, <4>3 DEF ShotAt
      <4> QED
        BY <4>1, <4>2, <4>4, <4>5 DEF OwnShows, ShotsShown
    <3>2. CASE d # m.cell
      <4>1. own'[u][d] = own[u][d] /\ ~AboutCell(m, u, d)
        BY <1>5, <2>2, <3>2 DEF AboutCell
      <4> QED
        BY <1>3, <4>1 DEF Follows, OwnShows, ShotsShown
    <3> QED
      BY <3>1, <3>2
  <2> QED
    BY <1>1, <1>3, <2>1, <2>4, <2>5 DEF Follows
<1>9. CASE MatchReady(u) \/ TurnUpdate(u) \/ MatchEnd(u)
  <2>1. m.kind # "result" /\ own' = own /\ shown' = shown
    BY <1>9 DEF MatchReady, TurnUpdate, MatchEnd, Arrives
  <2>2. \A v, e : ~AboutCell(m, v, e)
    BY <2>1 DEF AboutCell
  <2> QED
    BY <1>1, <1>3, <2>1, <2>2 DEF Follows, OwnShows, ShotsShown
<1> QED
  BY <1>7, <1>8, <1>9 DEF Handle

\* EditInv of one player.
Unstarted(q, u, sent, g) ==
  /\ q # <<>> /\ Head(q).kind = "ready"
  /\ \A c \in Cells : OwnShows(Drawn(sent, Types)[c], g[u][c], Pending(q, u, c))

LEMMA EditFollows ==
  ASSUME TypeInv, EditInv, NEW u \in Players, Edit(u), turn' # Nobody,
         NEW w \in Players, NEW d \in Cells,
         turn # Nobody =>
           Follows(toClient[w], w, d, own[w][d], w \notin edited, shown[w][d], grid)
  PROVE  Follows(toClient'[w], w, d, own'[w][d], w \notin edited', shown'[w][d], grid')
<1>1. /\ screen[u] = "placement" /\ turn # Nobody
      /\ UNCHANGED <<grid, toClient, shown>>
      /\ edited' = IF own'[u] = Drawn(stored[u], Types) THEN edited \ {u}
                                                       ELSE edited \cup {u}
  BY DEF Edit, match
<1>2. PICK f \in Fleets, K \in SUBSET Types : own' = [own EXCEPT ![u] = Drawn(f, K)]
  BY DEF Edit
<1>3. own'[u] = Drawn(f, K) /\ \A v \in Players : v # u => own'[v] = own[v]
  BY <1>2 DEF TypeInv, TypeOK, Boards
<1>4. CASE w # u
  BY <1>1, <1>3, <1>4 DEF Follows
<1>5. CASE w = u
  <2>1. OwnShows(Drawn(stored[u], Types)[d], grid[u][d], Pending(toClient[u], u, d))
    BY <1>1 DEF EditInv
  <2>2. /\ own'[u][d] \in {"ship", "empty"}
        /\ Drawn(stored[u], Types)[d] \in {"ship", "empty"}
    BY <1>3, DrawnType
  <2>3. ShotsShown(own'[u][d], grid[u][d], Pending(toClient[u], u, d))
    BY <2>1, <2>2 DEF OwnShows, ShotsShown, ShotAt
  <2>4. u \notin edited' =>
          OwnShows(own'[u][d], grid[u][d], Pending(toClient[u], u, d))
    BY <1>1, <2>1
  <2> QED
    BY <1>1, <1>5, <2>3, <2>4 DEF Follows
<1> QED
  BY <1>4, <1>5

LEMMA StepBoards ==
  TypeInv /\ IdleInv /\ StoredInv /\ ResultInv /\ OwnInv /\ EditInv /\ ShownInv
    /\ [Next]_vars => OwnInv' /\ ShownInv'
<1> SUFFICES ASSUME TypeInv, IdleInv, StoredInv, ResultInv, OwnInv, EditInv, ShownInv,
                    [Next]_vars, turn' # Nobody, NEW w \in Players, NEW d \in Cells
             PROVE  Follows(toClient'[w], w, d, own'[w][d], w \notin edited', shown'[w][d], grid')
  BY BeforeMatchNext, StepTypeInv DEF OwnInv, ShownInv, Follows
<1>0. turn # Nobody => Follows(toClient[w], w, d, own[w][d], w \notin edited, shown[w][d], grid)
  BY FollowsIff
<1>1. CASE Start
  BY <1>1, StartFollows
<1>2. ASSUME UNCHANGED <<match, toClient, own, edited, shown>>
      PROVE  Follows(toClient'[w], w, d, own'[w][d], w \notin edited', shown'[w][d], grid')
  BY <1>0, <1>2 DEF match
<1>3. ASSUME SendsEnd, UNCHANGED ui
      PROVE  Follows(toClient'[w], w, d, own'[w][d], w \notin edited', shown'[w][d], grid')
  <2>1. /\ toClient'[w] = toClient[w] \o <<End>>
        /\ UNCHANGED <<grid, turn, own, edited, shown>>
    BY <1>3 DEF SendsEnd, match, ui
  <2>2. <<End>> \in Seq(Notices) /\ toClient[w] \in Seq(Notices)
    BY NoticeTypes, Two DEF TypeInv, TypeOK
  <2>3. \A v, e : Pending(toClient[w], v, e) => Pending(toClient[w] \o <<End>>, v, e)
    BY <2>2, PendingSent
  <2> QED
    BY <1>0, <2>1, <2>3 DEF Follows, OwnShows, ShotsShown
<1>4. ASSUME NEW u \in Players, NEW c \in Cells, Play(u, c), UNCHANGED ui
      PROVE  Follows(toClient'[w], w, d, own'[w][d], w \notin edited', shown'[w][d], grid')
  <2>1. turn # Nobody
    <3>1. Shot(u, c)
      BY <1>4, PlayFacts DEF TypeInv, TypeOK
    <3>2. turn = u
      BY <3>1, ShotFacts DEF TypeInv
    <3> QED
      BY <3>2, ScreenAssumption
  <2> QED
    BY <1>0, <1>4, <2>1, ShotFollows
<1>5. ASSUME NEW u \in Players, Handle(u)
      PROVE  Follows(toClient'[w], w, d, own'[w][d], w \notin edited', shown'[w][d], grid')
  <2>1. UNCHANGED match
    BY <1>5, HandleFacts
  <2>2. Follows(toClient[w], w, d, own[w][d], w \notin edited, shown[w][d], grid)
    BY <1>0, <2>1 DEF match
  <2>3. CASE w = u
    BY <1>5, <2>2, <2>3, HandleFollows
  <2>4. CASE w # u
    BY <1>5, <2>1, <2>2, <2>4, HandleFacts DEF match
  <2> QED
    BY <2>3, <2>4
<1>6. ASSUME NEW u \in Players, NEW f \in Fleets, Place(u, f)
      PROVE  FALSE
  <2>1. turn' = turn /\ stored[u] = None
    BY <1>6 DEF Place, Server!Place, Server!None, None
  <2> QED
    BY <2>1 DEF StoredInv
<1>7. ASSUME NEW u \in Players, Clicks(u)
      PROVE  UNCHANGED <<match, toClient, own, edited, shown>>
  BY <1>7, ClickFacts
<1>8. ASSUME TimeoutRemoves \/ UNCHANGED vars
      PROVE  UNCHANGED <<match, toClient, own, edited, shown>>
  BY <1>8 DEF TimeoutRemoves, vars, ui
<1>9. ASSUME NEW u \in Players, Serve(u)
      PROVE  Follows(toClient'[w], w, d, own'[w][d], w \notin edited', shown'[w][d], grid')
  BY <1>2, <1>3, <1>4, <1>9, ServeFacts DEF ui
<1>10. ASSUME NEW u \in Players, Edit(u)
       PROVE  Follows(toClient'[w], w, d, own'[w][d], w \notin edited', shown'[w][d], grid')
  BY <1>0, <1>10, EditFollows
<1> QED
  BY <1>1, <1>2, <1>3, <1>5, <1>6, <1>7, <1>8, <1>9, <1>10, StepKinds, AnnounceFacts

LEMMA StepEdit ==
  TypeInv /\ IdleInv /\ StoredInv /\ EditInv /\ [Next]_vars => EditInv'
<1> SUFFICES ASSUME TypeInv, IdleInv, StoredInv, EditInv, [Next]_vars,
                    turn' # Nobody, NEW w \in Players, screen'[w] = "placement"
             PROVE  Unstarted(toClient'[w], w, stored'[w], grid')
  BY DEF EditInv, Unstarted, Message
<1>0. turn # Nobody /\ screen[w] = "placement"
        => Unstarted(toClient[w], w, stored[w], grid)
  BY DEF EditInv, Unstarted, Message
<1>1. CASE Start
  <2>1. PICK first \in Players : toClient'[w] = <<Ready, Turn(first)>>
    BY <1>1, StartFacts
  <2>2. toClient'[w] # <<>> /\ Head(toClient'[w]) = Ready
    BY <2>1
  <2>3. \A d \in Cells : grid'[w][d] = Drawn(stored'[w], Types)[d]
    BY <1>1, StartFacts
  <2> QED
    BY <2>2, <2>3, NoticeTypes DEF Unstarted, OwnShows
<1>2. ASSUME UNCHANGED <<match, toClient>>, screen[w] = "placement"
      PROVE  Unstarted(toClient'[w], w, stored'[w], grid')
  BY <1>0, <1>2 DEF match
<1>3. ASSUME SendsEnd, UNCHANGED ui
      PROVE  Unstarted(toClient'[w], w, stored'[w], grid')
  <2>1. /\ toClient'[w] = toClient[w] \o <<End>>
        /\ UNCHANGED <<grid, stored, turn, screen>>
    BY <1>3 DEF SendsEnd, match, ui
  <2>2. <<End>> \in Seq(Notices) /\ toClient[w] \in Seq(Notices)
    BY NoticeTypes, Two DEF TypeInv, TypeOK
  <2>3. \A v, e : Pending(toClient[w], v, e) => Pending(toClient[w] \o <<End>>, v, e)
    BY <2>2, PendingSent
  <2>4. Unstarted(toClient[w], w, stored[w], grid)
    BY <1>0, <2>1
  <2>5. toClient'[w] # <<>> /\ Head(toClient'[w]) = Head(toClient[w])
    BY <2>1, <2>2, <2>4 DEF Unstarted
  <2> QED
    BY <2>1, <2>3, <2>4, <2>5 DEF Unstarted, OwnShows
<1>4. ASSUME NEW u \in Players, NEW c \in Cells, Play(u, c), UNCHANGED ui
      PROVE  Unstarted(toClient'[w], w, stored'[w], grid')
  <2>1. Shot(u, c)
    BY <1>4, PlayFacts DEF TypeInv, TypeOK
  <2>2. turn # Nobody /\ stored' = stored /\ screen' = screen
    BY <1>4, <2>1, ShotFacts, ScreenAssumption DEF TypeInv, ui
  <2>3. Unstarted(toClient[w], w, stored[w], grid)
    BY <1>0, <2>2
  <2>4. toClient'[w] # <<>> /\ Head(toClient'[w]) = Head(toClient[w])
    BY <1>4, <2>3, ShotQueue DEF Unstarted
  <2>5. \A d \in Cells : OwnShows(Drawn(stored[w], Types)[d], grid'[w][d],
                                 Pending(toClient'[w], w, d))
    BY <1>4, <2>3, ShotOwn DEF Unstarted
  <2> QED
    BY <2>2, <2>3, <2>4, <2>5 DEF Unstarted
<1>5. ASSUME NEW u \in Players, Handle(u)
      PROVE  Unstarted(toClient'[w], w, stored'[w], grid')
  <2>1. UNCHANGED match
    BY <1>5, HandleFacts
  <2>2. CASE w # u
    BY <1>0, <1>5, <2>1, <2>2, HandleFacts DEF match
  <2>3. CASE w = u
    <3>1. screen[w] = "placement" /\ ~MatchReady(w)
      BY <1>5, <2>3 DEF Handle, MatchReady, OwnShot, TheirShot, TurnUpdate, MatchEnd,
                        TypeInv, TypeOK
    <3>2. Message(w).kind = "ready"
      BY <1>0, <2>1, <3>1 DEF match, Unstarted, Message
    <3> QED
      BY <1>5, <2>3, <3>1, <3>2 DEF Handle, OwnShot, TheirShot, TurnUpdate, MatchEnd,
                                    Arrives
  <2> QED
    BY <2>2, <2>3
<1>6. ASSUME NEW u \in Players, NEW f \in Fleets, Place(u, f)
      PROVE  FALSE
  <2>1. turn' = turn /\ stored[u] = None
    BY <1>6 DEF Place, Server!Place, Server!None, None
  <2> QED
    BY <2>1 DEF StoredInv
<1>7. ASSUME NEW u \in Players, Clicks(u)
      PROVE  UNCHANGED <<match, toClient>> /\ screen[w] = "placement"
  BY <1>7, ClickFacts
<1>8. ASSUME NEW u \in Players, Edit(u)
      PROVE  UNCHANGED <<match, toClient>> /\ screen[w] = "placement"
  BY <1>8 DEF Edit
<1>9. ASSUME TimeoutRemoves \/ UNCHANGED vars
      PROVE  UNCHANGED <<match, toClient>> /\ screen[w] = "placement"
  BY <1>9 DEF TimeoutRemoves, vars, ui
<1>10. ASSUME NEW u \in Players, Serve(u)
       PROVE  Unstarted(toClient'[w], w, stored'[w], grid')
  BY <1>2, <1>3, <1>4, <1>10, ServeFacts DEF ui
<1> QED
  BY <1>1, <1>2, <1>3, <1>5, <1>6, <1>7, <1>8, <1>9, <1>10, StepKinds, AnnounceFacts

BoardInv ==
  TypeInv /\ IdleInv /\ StoredInv /\ ResultInv /\ OwnInv /\ EditInv /\ ShownInv

LEMMA BoardInvAlways == Spec => []BoardInv
<1>1. Init => BoardInv
  BY InitScreen, InitBoards DEF ScreenInv, BoardInv
<1>2. BoardInv /\ [Next]_vars => BoardInv'
  BY StepTypeInv, StepIdle, StepResults, StepBoards, StepEdit DEF BoardInv
<1> QED
  BY <1>1, <1>2, PTL DEF Spec

\* A client that has handled all its messages shows both boards as the
\* server has them, after any shots of both players, reveals of sunk ships
\* included, and whatever the two did in between; of its own fleet only the
\* shots, if the player has changed it after READY.
THEOREM BoardsFollowServer == Spec => []BoardsFollow
<1>1. ASSUME BoardInv, NEW u \in Players, toClient[u] = <<>>, turn # Nobody
      PROVE  /\ u \notin edited => own[u] = grid[u]
             /\ \A c \in Cells :
                  /\ own[u][c] \in ShotAt <=> grid[u][c] \in ShotAt
                  /\ grid[Other(u)][c] = "miss" => shown[u][c] = "miss"
                  /\ grid[Other(u)][c] = "hit" => shown[u][c] # "empty"
  <2>1. \A v, c : ~Pending(toClient[u], v, c)
    BY <1>1 DEF Pending
  <2>2. \A c \in Cells : /\ own[u][c] \in ShotAt <=> grid[u][c] \in ShotAt
                         /\ Marked(shown[u][c], grid[Other(u)][c])
    BY <1>1, <2>1 DEF BoardInv, OwnInv, ShotsShown, ShownInv
  <2>3. u \notin edited => \A c \in Cells : own[u][c] = grid[u][c]
    BY <1>1, <2>1 DEF BoardInv, OwnInv, OwnShows
  <2>4. own[u] \in [Cells -> CellStates] /\ grid[u] \in [Cells -> CellStates]
    BY <1>1, MatchFacts DEF BoardInv, TypeInv, TypeOK, Boards
  <2>5. u \notin edited => own[u] = grid[u]
    BY <2>3, <2>4
  <2> QED
    BY <2>2, <2>5 DEF Marked
<1>2. BoardInv => BoardsFollow
  BY <1>1 DEF BoardsFollow
<1> QED
  BY <1>2, BoardInvAlways, PTL

=============================================================================
