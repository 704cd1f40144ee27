----------------------------- MODULE MatchGame -----------------------------
(***************************************************************************)
(* One match object of the server with its two boards: the placements the  *)
(* server accepts, how it loads them, and MatchState::processMove with     *)
(* Board::processShot (server/src/gameplay_handler.cpp,                    *)
(* common/src/game_state.cpp).  Sessions, threads and the other ways a     *)
(* match ends are in module MatchServer; the turn and move numbers, which  *)
(* only label records, are left out.                                       *)
(***************************************************************************)
EXTENDS Board

CONSTANTS
  Players,   \* the two users of the match
  Nobody     \* user id 0

ASSUME PlayersAssumption ==
  /\ \E p, q \in Players : p # q /\ Players = {p, q}
  /\ Nobody \notin Players

VARIABLES
  stored,   \* match_boards: the placement of each player, None before
  grid,     \* Board::grid of each player's board
  ships,    \* Board::ships: those placed, by type
  left,     \* Board::ships_remaining
  active,   \* MatchState::is_active
  turn,     \* MatchState::current_turn_player_id
  winner    \* MatchState::winner_id

boards == <<grid, ships, left>>
vars == <<stored, boards, active, turn, winner>>

-----------------------------------------------------------------------------
None == <<>>
Other(u) == CHOOSE v \in Players : v # u

NumShips == Cardinality(Types)
CellsOf(f, t) == Covers(t, f[t].pos, f[t].orient)

\* validateShipPlacement: one ship of each type, each on the board.  Nothing
\* compares the ships with each other.
Placements == {f \in [Types -> [pos : Cells, orient : Orientations]] :
                 \A t \in Types : f[t] \in Spots(t)}
Disjoint(f, K) ==
  \A s, t \in K : s # t => CellsOf(f, s) \cap CellsOf(f, t) = {}

\* loadShips places the ships one by one, in the order of the message, and
\* ignores one that does not go with those before it: whatever the order,
\* the ships kept are disjoint, and none could be added.
Kept(f) == {K \in SUBSET Types :
              /\ Disjoint(f, K)
              /\ \A t \in Types \ K : ~Disjoint(f, K \cup {t})}

Afloat(f, K) == UNION {CellsOf(f, t) : t \in K}

Init ==
  /\ stored = [u \in Players |-> None]
  /\ grid = [u \in Players |-> [c \in Cells |-> "empty"]]
  /\ ships = [u \in Players |-> <<>>]
  /\ left = [u \in Players |-> NumShips]
  /\ active = FALSE
  /\ turn = Nobody
  /\ winner = Nobody

\* SHIP_PLACEMENT of a player who has none stored (module MatchServer has
\* the repeated ones).
Place(u, f) ==
  /\ stored[u] = None
  /\ stored' = [stored EXCEPT ![u] = f]
  /\ UNCHANGED <<boards, active, turn, winner>>

\* Both are ready: load the boards, start, and draw the first player.
Start(K, first) ==
  /\ turn = Nobody
  /\ \A u \in Players : stored[u] # None /\ K[u] \in Kept(stored[u])
  /\ grid' = [u \in Players |-> [c \in Cells |->
                IF c \in Afloat(stored[u], K[u]) THEN "ship" ELSE "empty"]]
  /\ ships' = [u \in Players |-> [t \in K[u] |->
                [cells |-> CellsOf(stored[u], t), hits |-> 0, sunk |-> FALSE]]]
  /\ left' = [u \in Players |-> NumShips]
  /\ active' = TRUE
  /\ turn' = first
  /\ UNCHANGED <<stored, winner>>

\* Mutant: the miss is marked on the shooter's own board.
MissOnOwnBoard(u, c) ==
  LET v == Other(u) IN
  /\ active /\ turn = u
  /\ grid[v][c] # "ship"
  /\ grid' = IF grid[v][c] = "empty" THEN [grid EXCEPT ![u][c] = "miss"] ELSE grid
  /\ turn' = v
  /\ UNCHANGED <<stored, ships, left, active, winner>>

\* The cell of a shot at water becomes a miss; a cell shot before stays.
\* Either way the turn goes to the other player.
Miss(u, c) ==
  LET v == Other(u) IN
  /\ active /\ turn = u
  /\ grid[v][c] # "ship"
  /\ grid' = IF grid[v][c] = "empty" THEN [grid EXCEPT ![v][c] = "miss"] ELSE grid
  /\ turn' = v
  /\ UNCHANGED <<stored, ships, left, active, winner>>

\* Mutant: the last cell of a ship does not sink it.
HitOffByOne(u, c) ==
  LET v == Other(u) IN
  /\ active /\ turn = u
  /\ grid[v][c] = "ship"
  /\ grid' = [grid EXCEPT ![v][c] = "hit"]
  /\ \E t \in DOMAIN ships[v] :
       LET s == ships[v][t]
           sinks == s.hits > Cardinality(s.cells)
       IN
       /\ c \in s.cells
       /\ ships' = [ships EXCEPT ![v][t] =
                      [s EXCEPT !.hits = @ + 1, !.sunk = @ \/ sinks]]
       /\ left' = IF sinks THEN [left EXCEPT ![v] = @ - 1] ELSE left
  /\ IF left'[v] = 0
       THEN active' = FALSE /\ winner' = u
       ELSE UNCHANGED <<active, winner>>
  /\ UNCHANGED <<stored, turn>>

\* Mutant: a cell hit before counts again.
HitAgain(u, c) ==
  LET v == Other(u) IN
  /\ active /\ turn = u
  /\ grid[v][c] \in {"ship", "hit"}
  /\ grid' = [grid EXCEPT ![v][c] = "hit"]
  /\ \E t \in DOMAIN ships[v] :
       LET s == ships[v][t]
           sinks == s.hits + 1 >= Cardinality(s.cells)
       IN
       /\ c \in s.cells
       /\ ships' = [ships EXCEPT ![v][t] =
                      [s EXCEPT !.hits = @ + 1, !.sunk = @ \/ sinks]]
       /\ left' = IF sinks THEN [left EXCEPT ![v] = @ - 1] ELSE left
  /\ IF left'[v] = 0
       THEN active' = FALSE /\ winner' = u
       ELSE UNCHANGED <<active, winner>>
  /\ UNCHANGED <<stored, turn>>

\* A shot at a ship: count the hit, sink the ship with the last one, and end
\* the match when no ship remains.  The shooter keeps the turn.
Hit(u, c) ==
  LET v == Other(u) IN
  /\ active /\ turn = u
  /\ grid[v][c] = "ship"
  /\ grid' = [grid EXCEPT ![v][c] = "hit"]
  /\ \E t \in DOMAIN ships[v] :
       LET s == ships[v][t]
           sinks == s.hits + 1 >= Cardinality(s.cells)
       IN
       /\ c \in s.cells
       /\ ships' = [ships EXCEPT ![v][t] =
                      [s EXCEPT !.hits = @ + 1, !.sunk = @ \/ sinks]]
       /\ left' = IF sinks THEN [left EXCEPT ![v] = @ - 1] ELSE left
  /\ IF left'[v] = 0
       THEN active' = FALSE /\ winner' = u
       ELSE UNCHANGED <<active, winner>>
  /\ UNCHANGED <<stored, turn>>

Next ==
  \/ \E u \in Players : \E f \in Placements : Place(u, f)
  \/ \E K \in [Players -> SUBSET Types], first \in Players : Start(K, first)
  \/ \E u \in Players, c \in Cells : Miss(u, c) \/ Hit(u, c)

Spec == Init /\ [][Next]_vars

-----------------------------------------------------------------------------
(* Properties.                                                             *)

Ships == [cells : SUBSET Cells, hits : 0..Size, sunk : BOOLEAN]

\* Every variable holds a value of its type.
TypeOK ==
  /\ stored \in [Players -> Placements \cup {None}]
  /\ grid \in [Players -> [Cells -> CellStates]]
  /\ DOMAIN ships = Players
  /\ \A u \in Players : \E K \in SUBSET Types : ships[u] \in [K -> Ships]
  /\ left \in [Players -> 0..NumShips]
  /\ active \in BOOLEAN
  /\ turn \in Players \cup {Nobody}
  /\ winner \in Players \cup {Nobody}

HitCells(u, s) == {c \in s.cells : grid[u][c] = "hit"}

\* The counters of a board agree with its grid: each ship has as many hits
\* as hit cells and is sunk exactly when all its cells are hit, and
\* ships_remaining counts the ships that are not sunk, those that loadShips
\* dropped included.
CountersMatchGrid ==
  \A u \in Players :
    /\ \A t \in DOMAIN ships[u] :
         LET s == ships[u][t] IN
         /\ s.hits = Cardinality(HitCells(u, s))
         /\ s.sunk <=> HitCells(u, s) = s.cells
    /\ left[u] = NumShips - Cardinality({t \in DOMAIN ships[u] : ships[u][t].sunk})

\* A match that started runs until somebody wins, and the winner has sunk
\* the whole fleet of the other and still has a ship.  Whoever sinks all the
\* ships of the other has won, unless loadShips dropped one: that fleet is
\* never sunk, because ships_remaining counts it.
WinnerSankFleet ==
  turn # Nobody =>
    /\ active <=> winner = Nobody
    /\ \A u \in Players :
         winner = u <=> /\ DOMAIN ships[Other(u)] = Types
                        /\ \A c \in Cells : grid[Other(u)][c] # "ship"

-----------------------------------------------------------------------------
(* What the threads of the server need of a match: module MatchObject.     *)

\* The places of a fleet: the cells of each ship, counted along the ship.
Segments == {p \in Types \X (0..Size-1) : p[2] < Length[p[1]]}
CellOf(f, p) == CellAt(f[p[1]].pos, f[p[1]].orient, p[2])

\* Those not hit yet.  Nobody can hit a ship that loadShips dropped.
Remaining(u) ==
  {p \in Segments : p[1] \in DOMAIN ships[u] =>
                       grid[u][CellOf(stored[u], p)] = "ship"}

Object == INSTANCE MatchObject WITH
  Users  <- Players,
  Fleet  <- Cardinality(Segments),
  live   <- active,
  afloat <- [u \in Players |-> Cardinality(Remaining(u))]

\* The grids, ships and counters make a match object as the threads use it:
\* each hit takes one cell of the other fleet, no other shot takes any, and
\* ships_remaining ends the match with the last cell.
ImplementsObject == Object!ObjectSpec
=============================================================================
