-------------------------- MODULE MatchGame_proofs --------------------------
(***************************************************************************)
(* Proofs about MatchGame, for boards, fleets and lengths of any size: the *)
(* counters of a board agree with its grid after any number of shots, and  *)
(* the match ends with the shot that sinks the last ship, and that all of  *)
(* it makes a match object as in MatchObject.                              *)
(***************************************************************************)
EXTENDS MatchGame, FiniteSetTheorems, TLAPS

Sunk(u) == {t \in DOMAIN ships[u] : ships[u][t].sunk}

\* Before the match starts the boards are those of the constructor.
IdleInv ==
  turn = Nobody =>
    /\ ~active /\ winner = Nobody
    /\ \A u \in Players : /\ ships[u] = <<>> /\ left[u] = NumShips
                          /\ \A c \in Cells : grid[u][c] = "empty"

\* Ships have cells, no two ships one, and the grid shows them and no others.
FleetInv ==
  \A u \in Players :
    /\ DOMAIN ships[u] \subseteq Types
    /\ \A t \in DOMAIN ships[u] :
         LET C == ships[u][t].cells IN
         C \subseteq Cells /\ C # {} /\ IsFiniteSet(C) /\ Cardinality(C) <= Size
    /\ \A s, t \in DOMAIN ships[u] :
         s # t => ships[u][s].cells \cap ships[u][t].cells = {}
    /\ \A c \in Cells : grid[u][c] \in {"ship", "hit"} <=>
                          \E t \in DOMAIN ships[u] : c \in ships[u][t].cells

\* The match is over when one of the two has no ship left.
OverInv ==
  /\ active <=> turn # Nobody /\ winner = Nobody
  /\ \A u \in Players : winner = u <=> left[Other(u)] = 0

Inv == TypeOK /\ IdleInv /\ FleetInv /\ CountersMatchGrid /\ OverInv

-----------------------------------------------------------------------------
(* Players, ships and cells.                                               *)

LEMMA TwoPlayers ==
  \A u \in Players :
    /\ Other(u) \in Players /\ Other(u) # u
    /\ \A v \in Players : v = u \/ v = Other(u)
    /\ Other(Other(u)) = u
<1> SUFFICES ASSUME NEW u \in Players
             PROVE  /\ Other(u) \in Players /\ Other(u) # u
                    /\ \A v \in Players : v = u \/ v = Other(u)
                    /\ Other(Other(u)) = u
  OBVIOUS
<1>1. \A w \in Players : Other(w) \in Players /\ Other(w) # w
  <2> TAKE w \in Players
  <2>1. \E v \in Players : v # w
    BY PlayersAssumption
  <2> QED
    BY <2>1 DEF Other
<1>2. \A v \in Players : v = u \/ v = Other(u)
  BY <1>1, PlayersAssumption
<1> QED
  BY <1>1, <1>2

\* A ship that fits lies on the board.
LEMMA CoversOnBoard ==
  ASSUME NEW t \in Types, NEW s \in Spots(t)
  PROVE  /\ Covers(t, s.pos, s.orient) \subseteq Cells
         /\ Covers(t, s.pos, s.orient) # {}
<1>1. /\ s.pos \in Cells /\ s.orient \in Orientations
      /\ Fits(t, s.pos, s.orient)
  BY DEF Spots
<1>2. Length[t] \in 1..Size /\ Size \in Nat
  BY BoardAssumption
<1>3. PICK x \in 0..Size-1, y \in 0..Size-1 : s.pos = <<x, y>>
  BY <1>1 DEF Cells
<1>4. \A i \in 0..Length[t]-1 : CellAt(s.pos, s.orient, i) \in Cells
  <2> TAKE i \in 0..Length[t]-1
  <2>1. CASE s.orient = "vertical"
    <3>1. x + i \in 0..Size-1
      BY <1>1, <1>2, <1>3, <2>1 DEF Fits
    <3> QED
      BY <1>3, <2>1, <3>1 DEF CellAt, Cells
  <2>2. CASE s.orient = "horizontal"
    <3>1. y + i \in 0..Size-1
      BY <1>1, <1>2, <1>3, <2>2 DEF Fits
    <3> QED
      BY <1>3, <2>2, <3>1 DEF CellAt, Cells
  <2> QED
    BY <1>1, <2>1, <2>2 DEF Orientations
<1>5. 0 \in 0..Length[t]-1
  BY <1>2
<1> QED
  BY <1>4, <1>5 DEF Covers

\* It has no more cells than its length.
LEMMA CoversCount ==
  ASSUME NEW t \in Types, NEW s \in Spots(t)
  PROVE  /\ IsFiniteSet(Covers(t, s.pos, s.orient))
         /\ Cardinality(Covers(t, s.pos, s.orient)) <= Size
         /\ Cardinality(Covers(t, s.pos, s.orient)) \in Nat
<1> DEFINE I == 0..Length[t]-1
           C == Covers(t, s.pos, s.orient)
           f == [i \in I |-> CellAt(s.pos, s.orient, i)]
<1>1. Length[t] \in 1..Size /\ Size \in Nat
  BY BoardAssumption
<1>2. IsFiniteSet(I) /\ Cardinality(I) = Length[t]
  BY <1>1, FS_Interval
<1>3. f \in Surjection(I, C)
  BY DEF Surjection, Covers
<1>4. IsFiniteSet(C) /\ Cardinality(C) <= Cardinality(I)
  BY <1>2, <1>3, FS_Surjection
<1>5. Cardinality(C) \in Nat
  BY <1>4, FS_CardinalityType
<1> QED
  BY <1>1, <1>2, <1>4, <1>5

LEMMA NumShipsType == NumShips \in Nat \ {0}
BY BoardAssumption, FS_CardinalityType, FS_EmptySet DEF NumShips

-----------------------------------------------------------------------------
(* Placements and the start.                                               *)

LEMMA PlaceStep ==
  ASSUME Inv, NEW u \in Players, NEW f \in Placements, Place(u, f)
  PROVE  Inv'
<1>0. TypeOK /\ IdleInv /\ FleetInv /\ CountersMatchGrid /\ OverInv
  BY DEF Inv
<1>1. /\ stored' = [stored EXCEPT ![u] = f]
      /\ grid' = grid /\ ships' = ships /\ left' = left
      /\ active' = active /\ turn' = turn /\ winner' = winner
  BY DEF Place, boards
<1>2. TypeOK'
  BY <1>0, <1>1 DEF TypeOK
<1>3. IdleInv' /\ FleetInv' /\ OverInv'
  BY <1>0, <1>1 DEF IdleInv, FleetInv, OverInv
<1>4. CountersMatchGrid'
  <2>1. \A w \in Players : \A t \in DOMAIN ships[w] :
          HitCells(w, ships[w][t])' = HitCells(w, ships[w][t])
    BY <1>1 DEF HitCells
  <2> QED
    BY <1>0, <1>1, <2>1 DEF CountersMatchGrid
<1> QED
  BY <1>2, <1>3, <1>4 DEF Inv

LEMMA StartStep ==
  ASSUME Inv, NEW K \in [Players -> SUBSET Types], NEW first \in Players,
         Start(K, first)
  PROVE  Inv'
<1>0. TypeOK /\ IdleInv /\ FleetInv /\ CountersMatchGrid /\ OverInv
  BY DEF Inv
<1> DEFINE C(u, t) == CellsOf(stored[u], t)
           start(u, t) == [cells |-> C(u, t), hits |-> 0, sunk |-> FALSE]
<1>1. \A u \in Players : stored[u] \in Placements /\ K[u] \in Kept(stored[u])
  BY <1>0 DEF Start, TypeOK
<1>2. ASSUME NEW u \in Players, NEW t \in Types
      PROVE  /\ C(u, t) \subseteq Cells /\ C(u, t) # {} /\ IsFiniteSet(C(u, t))
             /\ Cardinality(C(u, t)) <= Size
  <2>1. stored[u][t] \in Spots(t)
    BY <1>1 DEF Placements
  <2> QED
    BY <2>1, CoversOnBoard, CoversCount DEF CellsOf
<1>3. \A u \in Players : \A s, t \in K[u] : s # t => C(u, s) \cap C(u, t) = {}
  BY <1>1 DEF Kept, Disjoint
<1>4. /\ grid' = [u \in Players |-> [c \in Cells |->
                    IF c \in Afloat(stored[u], K[u]) THEN "ship" ELSE "empty"]]
      /\ ships' = [u \in Players |-> [t \in K[u] |-> start(u, t)]]
      /\ left' = [u \in Players |-> NumShips]
      /\ active' = TRUE /\ turn' = first
      /\ stored' = stored /\ winner' = winner /\ turn = Nobody
  BY DEF Start
<1>5. \A u \in Players, c \in Cells :
        c \in Afloat(stored[u], K[u]) <=> \E t \in K[u] : c \in C(u, t)
  BY DEF Afloat
<1>6. \A u \in Players, t \in Types : start(u, t) \in Ships
  BY <1>2, BoardAssumption DEF Ships
<1>7. \A u \in Players : \A t \in K[u] :
        /\ ships'[u][t].cells = C(u, t) /\ ships'[u][t].hits = 0
        /\ ships'[u][t].sunk = FALSE
  BY <1>4
<1>8. \A u \in Players : DOMAIN ships'[u] = K[u] /\ K[u] \subseteq Types
  BY <1>4
<1> HIDE DEF C
<1>9. TypeOK'
  <2>1. grid' \in [Players -> [Cells -> CellStates]]
    BY <1>4 DEF CellStates
  <2>2. \A u \in Players : ships'[u] \in [K[u] -> Ships] /\ K[u] \in SUBSET Types
    BY <1>4, <1>6
  <2>3. DOMAIN ships' = Players
    BY <1>4
  <2>4. left' \in [Players -> 0..NumShips]
    BY <1>4, NumShipsType
  <2> QED
    BY <1>0, <1>4, <2>1, <2>2, <2>3, <2>4 DEF TypeOK
<1>10. IdleInv'
  BY <1>4, PlayersAssumption DEF IdleInv
<1>11. FleetInv'
  BY <1>2, <1>3, <1>4, <1>5, <1>7, <1>8 DEF FleetInv
<1>12. CountersMatchGrid'
  <2>1. \A u \in Players, c \in Cells : grid'[u][c] # "hit"
    BY <1>4
  <2>2. \A u \in Players : \A t \in K[u] : HitCells(u, ships[u][t])' = {}
    BY <1>2, <1>7, <1>8, <2>1 DEF HitCells
  <2>3. \A u \in Players : {t \in DOMAIN ships'[u] : ships'[u][t].sunk} = {}
    BY <1>7, <1>8
  <2>4. Cardinality({}) = 0
    BY FS_EmptySet
  <2>5. \A u \in Players : left'[u] = NumShips - 0
    BY <1>4, NumShipsType
  <2>6. ASSUME NEW u \in Players, NEW t \in DOMAIN ships'[u]
        PROVE  LET s == ships'[u][t] IN
               /\ s.hits = Cardinality(HitCells(u, ships[u][t])')
               /\ s.sunk <=> HitCells(u, ships[u][t])' = s.cells
    <3>1. t \in K[u] /\ t \in Types
      BY <1>8
    <3>2. ships'[u][t].cells = C(u, t) /\ ships'[u][t].sunk = FALSE
          /\ ships'[u][t].hits = 0
      BY <1>7, <3>1
    <3>3. HitCells(u, ships[u][t])' = {}
      BY <2>2, <3>1
    <3>4. C(u, t) # {}
      BY <1>2, <3>1
    <3> QED
      BY <2>4, <3>2, <3>3, <3>4
  <2>7. \A u \in Players :
          left'[u] = NumShips
                     - Cardinality({t \in DOMAIN ships'[u] : ships'[u][t].sunk})
    BY <2>3, <2>4, <2>5
  <2> QED
    BY <2>6, <2>7 DEF CountersMatchGrid, HitCells
<1>13. OverInv'
  BY <1>0, <1>4, NumShipsType, TwoPlayers, PlayersAssumption DEF OverInv, IdleInv
<1> QED
  BY <1>9, <1>10, <1>11, <1>12, <1>13 DEF Inv

-----------------------------------------------------------------------------
(* Shots.                                                                  *)

LEMMA MissStep ==
  ASSUME Inv, NEW u \in Players, NEW c \in Cells, Miss(u, c)
  PROVE  Inv'
<1> DEFINE v == Other(u)
<1>0. /\ TypeOK /\ IdleInv /\ FleetInv /\ CountersMatchGrid /\ OverInv
      /\ v \in Players /\ v # u /\ u # Nobody /\ v # Nobody
  BY TwoPlayers, PlayersAssumption DEF Inv
<1>1. /\ active /\ turn = u /\ turn' = v /\ grid[v][c] # "ship"
      /\ grid' = IF grid[v][c] = "empty" THEN [grid EXCEPT ![v][c] = "miss"] ELSE grid
      /\ stored' = stored /\ ships' = ships /\ left' = left /\ active' = active
      /\ winner' = winner
  BY DEF Miss
<1> HIDE DEF v
<1>2. TypeOK'
  BY <1>0, <1>1 DEF TypeOK, CellStates
<1>3. \A w \in Players, d \in Cells :
        /\ grid'[w][d] = "ship" <=> grid[w][d] = "ship"
        /\ grid'[w][d] = "hit" <=> grid[w][d] = "hit"
  BY <1>0, <1>1 DEF TypeOK
<1>4. IdleInv' /\ OverInv'
  BY <1>0, <1>1 DEF IdleInv, OverInv
<1>5. FleetInv'
  BY <1>0, <1>1, <1>3 DEF FleetInv
<1>6. CountersMatchGrid'
  <2>1. \A w \in Players : \A t \in DOMAIN ships[w] :
          HitCells(w, ships[w][t])' = HitCells(w, ships[w][t])
    BY <1>0, <1>1, <1>3 DEF HitCells, FleetInv
  <2> QED
    BY <1>0, <1>1, <2>1 DEF CountersMatchGrid
<1> QED
  BY <1>2, <1>4, <1>5, <1>6 DEF Inv

\* What a shot does to the ship it hits: one more of its cells is hit, and the
\* counter says so.
OneMore(C, H, c) ==
  /\ Cardinality(H) + 1 = Cardinality(H \cup {c})
  /\ Cardinality(H) + 1 >= Cardinality(C) <=> H \cup {c} = C
  /\ Cardinality(H) + 1 <= Cardinality(C)
  /\ Cardinality(H) \in Nat /\ Cardinality(C) \in Nat /\ H # C

LEMMA HitCount ==
  ASSUME NEW C, IsFiniteSet(C), NEW H \in SUBSET C, NEW c \in C \ H
  PROVE  OneMore(C, H, c)
<1>1. IsFiniteSet(H)
  BY FS_Subset
<1>2. Cardinality(H \cup {c}) = Cardinality(H) + 1
  BY <1>1, FS_AddElement
<1>3. H \cup {c} \in SUBSET C
  OBVIOUS
<1>4. /\ Cardinality(H \cup {c}) <= Cardinality(C)
      /\ Cardinality(C) = Cardinality(H \cup {c}) => C = H \cup {c}
  BY <1>3, FS_Subset
<1>5. Cardinality(H) \in Nat /\ Cardinality(C) \in Nat
  BY <1>1, FS_CardinalityType
<1>6. Cardinality(H) + 1 >= Cardinality(C) <=> H \cup {c} = C
  <2>1. CASE H \cup {c} = C
    <3>1. Cardinality(H \cup {c}) = Cardinality(C)
      BY <2>1
    <3> QED
      BY <1>2, <1>5, <2>1, <3>1
  <2>2. CASE H \cup {c} # C
    BY <1>2, <1>4, <1>5, <2>2
  <2> QED
    BY <2>1, <2>2
<1>7. Cardinality(H) + 1 <= Cardinality(C) /\ H # C
  BY <1>2, <1>4
<1> QED
  BY <1>2, <1>5, <1>6, <1>7 DEF OneMore

LEMMA HitStep ==
  ASSUME Inv, NEW u \in Players, NEW c \in Cells, Hit(u, c)
  PROVE  Inv'
<1> DEFINE v == Other(u)
<1>0. /\ TypeOK /\ IdleInv /\ FleetInv /\ CountersMatchGrid /\ OverInv
      /\ v \in Players /\ v # u /\ u # Nobody /\ v # Nobody
      /\ v = Other(u) /\ Other(v) = u /\ \A w \in Players : w = u \/ w = v
  BY TwoPlayers, PlayersAssumption DEF Inv
<1>1. PICK t \in DOMAIN ships[v] :
        LET s == ships[v][t]
            sinks == s.hits + 1 >= Cardinality(s.cells)
        IN
        /\ c \in s.cells
        /\ ships' = [ships EXCEPT ![v][t] =
                       [s EXCEPT !.hits = @ + 1, !.sunk = @ \/ sinks]]
        /\ left' = IF sinks THEN [left EXCEPT ![v] = @ - 1] ELSE left
  BY DEF Hit
<1>2. /\ active /\ turn = u /\ grid[v][c] = "ship"
      /\ grid' = [grid EXCEPT ![v][c] = "hit"]
      /\ IF left'[v] = 0 THEN active' = FALSE /\ winner' = u
                         ELSE active' = active /\ winner' = winner
      /\ stored' = stored /\ turn' = turn
  BY DEF Hit
<1> HIDE DEF v
<1>20. \A w \in Players : \A x \in DOMAIN ships[w] :
         /\ ships[w][x].hits = Cardinality(HitCells(w, ships[w][x]))
         /\ ships[w][x].sunk <=> HitCells(w, ships[w][x]) = ships[w][x].cells
  BY <1>0 DEF CountersMatchGrid
<1> DEFINE s == ships[v][t]
           H == HitCells(v, s)
           sinks == s.hits + 1 >= Cardinality(s.cells)
<1>3. /\ s \in Ships /\ t \in Types /\ c \in s.cells
      /\ s.cells \subseteq Cells /\ IsFiniteSet(s.cells) /\ Cardinality(s.cells) <= Size
      /\ s.hits = Cardinality(H) /\ (s.sunk <=> H = s.cells)
      /\ H \in SUBSET s.cells /\ c \notin H
  <2>1. PICK K \in SUBSET Types : ships[v] \in [K -> Ships]
    BY <1>0 DEF TypeOK
  <2>2. s \in Ships /\ t \in Types
    BY <1>1, <2>1
  <2>3. c \in s.cells /\ H \in SUBSET s.cells /\ c \notin H
    BY <1>1, <1>2 DEF HitCells
  <2>4. s.hits = Cardinality(H) /\ (s.sunk <=> H = s.cells)
    BY <1>0, <1>20
  <2>5. s.cells \subseteq Cells /\ IsFiniteSet(s.cells) /\ Cardinality(s.cells) <= Size
    BY <1>0, <1>1 DEF FleetInv
  <2> QED
    BY <2>2, <2>3, <2>4, <2>5
<1>4. /\ s.hits + 1 = Cardinality(H \cup {c}) /\ (sinks <=> H \cup {c} = s.cells)
      /\ s.hits + 1 \in 0..Size /\ s.sunk = FALSE
  <2> HIDE DEF s, H
  <2>1. /\ IsFiniteSet(s.cells) /\ H \in SUBSET s.cells /\ c \in s.cells \ H
    BY <1>3
  <2>2. OneMore(s.cells, H, c)
    BY <2>1, HitCount
  <2> QED
    BY <1>3, <2>2, BoardAssumption DEF OneMore, Ships
<1> DEFINE r == [s EXCEPT !.hits = @ + 1, !.sunk = @ \/ sinks]
<1>5. /\ r \in Ships /\ r.cells = s.cells /\ r.hits = s.hits + 1 /\ (r.sunk <=> sinks)
  BY <1>3, <1>4 DEF Ships
<1>6. /\ ships' = [ships EXCEPT ![v][t] = r]
      /\ left' = IF sinks THEN [left EXCEPT ![v] = @ - 1] ELSE left
  BY <1>1
<1> HIDE DEF s, sinks, r
<1>7. /\ DOMAIN ships' = Players
      /\ ships'[u] = ships[u] /\ ships'[v] = [ships[v] EXCEPT ![t] = r]
      /\ DOMAIN ships'[v] = DOMAIN ships[v] /\ ships'[v][t] = r
      /\ \A x \in DOMAIN ships[v] \ {t} : ships'[v][x] = ships[v][x]
  BY <1>0, <1>6 DEF TypeOK
<1>8. /\ \A d \in Cells : grid'[u][d] = grid[u][d]
      /\ grid'[v][c] = "hit" /\ \A d \in Cells \ {c} : grid'[v][d] = grid[v][d]
  BY <1>0, <1>2 DEF TypeOK
<1>9. \A w \in Players : \A x \in DOMAIN ships[w] :
        /\ DOMAIN ships'[w] = DOMAIN ships[w]
        /\ ships'[w][x].cells = ships[w][x].cells
  BY <1>0, <1>5, <1>7 DEF s
<1>10. FleetInv'
  <2>1. \A w \in Players : DOMAIN ships'[w] = DOMAIN ships[w]
    BY <1>0, <1>7
  <2>2. \A w \in Players, d \in Cells :
          grid'[w][d] \in {"ship", "hit"} <=> grid[w][d] \in {"ship", "hit"}
    BY <1>0, <1>2, <1>8
  <2>3. ASSUME NEW w \in Players
        PROVE  /\ DOMAIN ships'[w] \subseteq Types
               /\ \A x \in DOMAIN ships'[w] :
                    LET C == ships'[w][x].cells IN
                    /\ C \subseteq Cells /\ C # {}
                    /\ IsFiniteSet(C) /\ Cardinality(C) <= Size
    BY <1>0, <1>9, <2>1 DEF FleetInv
  <2>4. ASSUME NEW w \in Players
        PROVE  /\ \A x, y \in DOMAIN ships'[w] :
                    x # y => ships'[w][x].cells \cap ships'[w][y].cells = {}
               /\ \A d \in Cells : grid[w][d] \in {"ship", "hit"} <=>
                                     \E x \in DOMAIN ships'[w] : d \in ships'[w][x].cells
    BY <1>0, <1>9, <2>1 DEF FleetInv
  <2> QED
    BY <2>2, <2>3, <2>4 DEF FleetInv
<1>11. /\ \A x \in DOMAIN ships[u] : HitCells(u, ships[u][x])' = HitCells(u, ships[u][x])
       /\ \A x \in DOMAIN ships[v] \ {t} :
            HitCells(v, ships[v][x])' = HitCells(v, ships[v][x])
       /\ HitCells(v, ships[v][t])' = H \cup {c}
  <2>1. \A x \in DOMAIN ships[u] : HitCells(u, ships[u][x])' = HitCells(u, ships[u][x])
    BY <1>0, <1>7, <1>8 DEF HitCells, FleetInv
  <2>2. ASSUME NEW x \in DOMAIN ships[v] \ {t}
        PROVE  HitCells(v, ships[v][x])' = HitCells(v, ships[v][x])
    <3>1. c \notin ships[v][x].cells
      BY <1>0, <1>1, <1>3 DEF FleetInv, s
    <3>2. ships[v][x].cells \subseteq Cells
      BY <1>0 DEF FleetInv
    <3> QED
      BY <1>7, <1>8, <3>1, <3>2 DEF HitCells
  <2>3. HitCells(v, ships[v][t])' = H \cup {c}
    BY <1>3, <1>5, <1>7, <1>8 DEF HitCells
  <2> QED
    BY <2>1, <2>2, <2>3
<1>12. IsFiniteSet(Sunk(v)) /\ Cardinality(Sunk(v)) \in Nat /\ Sunk(v) \subseteq Types
  BY <1>0, BoardAssumption, FS_Subset, FS_CardinalityType DEF FleetInv, Sunk
<1>13. /\ Sunk(u)' = Sunk(u)
       /\ Sunk(v)' = IF sinks THEN Sunk(v) \cup {t} ELSE Sunk(v)
       /\ t \notin Sunk(v)
  <2>1. Sunk(u)' = Sunk(u)
    BY <1>7 DEF Sunk
  <2>2. t \notin Sunk(v)
    BY <1>4 DEF Sunk, s
  <2>3. \A x \in DOMAIN ships[v] : ships'[v][x].sunk <=>
          IF x = t THEN sinks ELSE ships[v][x].sunk
    BY <1>5, <1>7
  <2>4. Sunk(v)' = IF sinks THEN Sunk(v) \cup {t} ELSE Sunk(v)
    <3>1. CASE sinks
      BY <1>1, <1>7, <2>3, <3>1 DEF Sunk
    <3>2. CASE ~sinks
      BY <1>7, <2>2, <2>3, <3>2 DEF Sunk
    <3> QED
      BY <3>1, <3>2
  <2> QED
    BY <2>1, <2>2, <2>4
<1>14. /\ left'[u] = left[u] /\ left[v] \in 0..NumShips
       /\ left'[v] = NumShips - Cardinality(Sunk(v)')
       /\ left'[v] \in 0..NumShips
  <2>1. left[v] = NumShips - Cardinality(Sunk(v)) /\ left[v] \in 0..NumShips
    BY <1>0 DEF CountersMatchGrid, TypeOK, Sunk
  <2>2. left'[v] = (IF sinks THEN left[v] - 1 ELSE left[v]) /\ left'[u] = left[u]
    BY <1>0, <1>6 DEF TypeOK
  <2>3. Cardinality(Sunk(v)') = IF sinks THEN Cardinality(Sunk(v)) + 1
                                         ELSE Cardinality(Sunk(v))
    BY <1>12, <1>13, FS_AddElement
  <2>4. Sunk(v)' \subseteq Types
    BY <1>3, <1>12, <1>13
  <2>5. Cardinality(Sunk(v)') <= NumShips
    BY <2>4, BoardAssumption, FS_Subset DEF NumShips
  <2>6. Cardinality(Sunk(v)') \in Nat
    BY <1>12, <2>3
  <2> QED
    BY <1>12, <2>1, <2>2, <2>3, <2>5, <2>6, NumShipsType
<1>15. CountersMatchGrid'
  <2>1. ASSUME NEW x \in DOMAIN ships'[u]
        PROVE  /\ ships'[u][x].hits = Cardinality(HitCells(u, ships[u][x])')
               /\ ships'[u][x].sunk <=> HitCells(u, ships[u][x])' = ships'[u][x].cells
    BY <1>0, <1>7, <1>11, <1>20
  <2>2. ASSUME NEW x \in DOMAIN ships'[v]
        PROVE  /\ ships'[v][x].hits = Cardinality(HitCells(v, ships[v][x])')
               /\ ships'[v][x].sunk <=> HitCells(v, ships[v][x])' = ships'[v][x].cells
    <3>1. CASE x = t
      BY <1>4, <1>5, <1>7, <1>11, <3>1
    <3>2. CASE x # t
      BY <1>0, <1>7, <1>11, <1>20, <3>2
    <3> QED
      BY <3>1, <3>2
  <2>3. left'[u] = NumShips - Cardinality(Sunk(u)')
    BY <1>0, <1>13, <1>14 DEF CountersMatchGrid, Sunk
  <2> QED
    <3>1. ASSUME NEW w \in Players
          PROVE  /\ \A x \in DOMAIN ships'[w] :
                      /\ ships'[w][x].hits = Cardinality(HitCells(w, ships[w][x])')
                      /\ ships'[w][x].sunk
                           <=> HitCells(w, ships[w][x])' = ships'[w][x].cells
                 /\ left'[w] = NumShips - Cardinality(Sunk(w)')
      <4>1. w = u \/ w = v
        BY <1>0
      <4> QED
        BY <1>14, <2>1, <2>2, <2>3, <4>1
    <3> QED
      BY <3>1 DEF CountersMatchGrid, HitCells, Sunk
<1>16. TypeOK'
  <2>1. \A w \in Players : \E K \in SUBSET Types : ships'[w] \in [K -> Ships]
    <3>1. PICK K \in SUBSET Types : ships[v] \in [K -> Ships]
      BY <1>0 DEF TypeOK
    <3>2. ships'[v] \in [K -> Ships]
      BY <1>5, <1>7, <3>1
    <3>3. \E L \in SUBSET Types : ships'[u] \in [L -> Ships]
      BY <1>0, <1>7 DEF TypeOK
    <3> QED
      BY <1>0, <3>2, <3>3
  <2>2. left' \in [Players -> 0..NumShips]
    BY <1>0, <1>6, <1>14 DEF TypeOK
  <2>3. active' \in BOOLEAN /\ winner' \in Players \cup {Nobody}
    BY <1>0, <1>2 DEF TypeOK
  <2>4. grid' \in [Players -> [Cells -> CellStates]]
    BY <1>0, <1>2 DEF TypeOK, CellStates
  <2> QED
    BY <1>0, <1>2, <1>7, <2>1, <2>2, <2>3, <2>4 DEF TypeOK
<1>17. IdleInv'
  BY <1>0, <1>2 DEF IdleInv
<1>18. OverInv'
  <2>1. winner = Nobody /\ left[u] # 0 /\ left[v] # 0
    BY <1>0, <1>2 DEF OverInv
  <2>2. left'[u] # 0
    BY <1>14, <2>1
  <2>3. CASE left'[v] = 0
    BY <1>0, <1>2, <2>2, <2>3 DEF OverInv
  <2>4. CASE left'[v] # 0
    BY <1>0, <1>2, <2>1, <2>2, <2>4 DEF OverInv
  <2> QED
    BY <2>3, <2>4
<1> QED
  BY <1>10, <1>15, <1>16, <1>17, <1>18 DEF Inv

-----------------------------------------------------------------------------
(* The invariant.                                                          *)

LEMMA InvInit == Init => Inv
<1> SUFFICES ASSUME Init
             PROVE  Inv
  OBVIOUS
<1>1. \A u \in Players : ships[u] = <<>> /\ DOMAIN ships[u] = {}
  BY DEF Init
<1>2. TypeOK
  <2>1. \A u \in Players : ships[u] \in [{} -> Ships]
    <3>1. <<>> \in [{} -> Ships]
      OBVIOUS
    <3> QED
      BY <1>1, <3>1
  <2>2. DOMAIN ships = Players
    BY DEF Init
  <2>3. grid \in [Players -> [Cells -> CellStates]]
    BY DEF Init, CellStates
  <2>4. left \in [Players -> 0..NumShips]
    BY NumShipsType DEF Init
  <2>5. \A u \in Players : \E K \in SUBSET Types : ships[u] \in [K -> Ships]
    BY <2>1
  <2> QED
    BY <2>2, <2>3, <2>4, <2>5 DEF Init, TypeOK
<1>3. IdleInv /\ FleetInv
  BY <1>1 DEF Init, IdleInv, FleetInv
<1>4. CountersMatchGrid
  <2>1. \A u \in Players : {t \in DOMAIN ships[u] : ships[u][t].sunk} = {}
    BY <1>1
  <2>2. Cardinality({}) = 0 /\ \A u \in Players : left[u] = NumShips - 0
    BY NumShipsType, FS_EmptySet DEF Init
  <2> QED
    BY <1>1, <2>1, <2>2 DEF CountersMatchGrid
<1>5. OverInv
  BY NumShipsType, TwoPlayers, PlayersAssumption DEF Init, OverInv
<1> QED
  BY <1>2, <1>3, <1>4, <1>5 DEF Inv

LEMMA InvNext == Inv /\ [Next]_vars => Inv'
<1> SUFFICES ASSUME Inv, [Next]_vars
             PROVE  Inv'
  OBVIOUS
<1>1. ASSUME NEW u \in Players, NEW f \in Placements, Place(u, f)
      PROVE  Inv'
  BY <1>1, PlaceStep
<1>2. ASSUME NEW K \in [Players -> SUBSET Types], NEW first \in Players,
             Start(K, first)
      PROVE  Inv'
  BY <1>2, StartStep
<1>3. ASSUME NEW u \in Players, NEW c \in Cells, Miss(u, c) \/ Hit(u, c)
      PROVE  Inv'
  BY <1>3, MissStep, HitStep
<1>4. CASE UNCHANGED vars
  <2>1. TypeOK' /\ IdleInv' /\ FleetInv' /\ OverInv'
    BY <1>4 DEF Inv, TypeOK, IdleInv, FleetInv, OverInv, vars, boards
  <2>2. CountersMatchGrid'
    <3>1. grid' = grid /\ ships' = ships /\ left' = left
      BY <1>4 DEF vars, boards
    <3>2. CountersMatchGrid
      BY DEF Inv
    <3>3. \A u \in Players : \A t \in DOMAIN ships[u] :
            HitCells(u, ships[u][t])' = HitCells(u, ships[u][t])
      BY <3>1 DEF HitCells
    <3> QED
      BY <3>1, <3>2, <3>3 DEF CountersMatchGrid
  <2> QED
    BY <2>1, <2>2 DEF Inv
<1> QED
  BY <1>1, <1>2, <1>3, <1>4 DEF Next

LEMMA InvAlways == Spec => []Inv
BY InvInit, InvNext, PTL DEF Spec

-----------------------------------------------------------------------------
(* The theorems.                                                           *)

\* Boards, ships and counters keep their types: ships_remaining never goes
\* below zero, and no ship counts more hits than it has cells.
THEOREM TypeCorrect == Spec => []TypeOK
<1>1. Inv => TypeOK
  BY DEF Inv
<1> QED
  BY <1>1, InvAlways, PTL

\* The hits of a ship, its sunk flag and ships_remaining agree with the grid
\* after every sequence of shots, repeated ones included, whatever placements
\* the players sent and whichever ships loadShips dropped.
THEOREM CountersAgree == Spec => []CountersMatchGrid
<1>1. Inv => CountersMatchGrid
  BY DEF Inv
<1> QED
  BY <1>1, InvAlways, PTL

LEMMA WinnerFacts == Inv => WinnerSankFleet
<1> SUFFICES ASSUME Inv, turn # Nobody, NEW u \in Players
             PROVE  winner = u <=>
                      /\ DOMAIN ships[Other(u)] = Types
                      /\ \A c \in Cells : grid[Other(u)][c] # "ship"
  BY DEF WinnerSankFleet, Inv, OverInv
<1> DEFINE v == Other(u)
<1>0. v \in Players /\ FleetInv /\ IsFiniteSet(Types) /\ NumShips \in Nat
  BY TwoPlayers, NumShipsType, BoardAssumption DEF Inv
<1>1. winner = u <=> left[v] = 0
  BY DEF Inv, OverInv
<1>2. /\ left[v] = NumShips - Cardinality(Sunk(v))
      /\ \A t \in DOMAIN ships[v] : ships[v][t].sunk <=>
           HitCells(v, ships[v][t]) = ships[v][t].cells
  BY <1>0 DEF Inv, CountersMatchGrid, Sunk
<1> HIDE DEF v
<1>3. Sunk(v) \in SUBSET Types
  BY <1>0 DEF FleetInv, Sunk
<1>4. /\ Cardinality(Sunk(v)) \in Nat
      /\ Cardinality(Sunk(v)) = NumShips => Sunk(v) = Types
  BY <1>0, <1>3, FS_Subset, FS_CardinalityType DEF NumShips
<1>5. left[v] = 0 <=> Sunk(v) = Types
  <2>1. Sunk(v) = Types => Cardinality(Sunk(v)) = NumShips
    BY DEF NumShips
  <2>2. NumShips - Cardinality(Sunk(v)) = 0 <=> Cardinality(Sunk(v)) = NumShips
    BY <1>0, <1>4
  <2> QED
    BY <1>2, <1>4, <2>1, <2>2
<1>6. ASSUME Sunk(v) = Types
      PROVE  DOMAIN ships[v] = Types /\ \A c \in Cells : grid[v][c] # "ship"
  <2>1. DOMAIN ships[v] = Types
    BY <1>0, <1>6 DEF FleetInv, Sunk
  <2>2. \A t \in DOMAIN ships[v] : HitCells(v, ships[v][t]) = ships[v][t].cells
    BY <1>2, <1>6, <2>1 DEF Sunk
  <2>3. ASSUME NEW c \in Cells, grid[v][c] = "ship"
        PROVE  FALSE
    <3>1. PICK t \in DOMAIN ships[v] : c \in ships[v][t].cells
      BY <1>0, <2>3 DEF FleetInv
    <3> QED
      BY <2>2, <2>3, <3>1 DEF HitCells
  <2> QED
    BY <2>1, <2>3
<1>7. ASSUME DOMAIN ships[v] = Types, \A c \in Cells : grid[v][c] # "ship"
      PROVE  Sunk(v) = Types
  <2>1. ASSUME NEW t \in Types
        PROVE  ships[v][t].sunk
    <3>1. \A c \in ships[v][t].cells : grid[v][c] = "hit"
      BY <1>0, <1>7 DEF FleetInv
    <3>2. HitCells(v, ships[v][t]) = ships[v][t].cells
      BY <3>1 DEF HitCells
    <3> QED
      BY <1>2, <1>7, <3>2
  <2> QED
    BY <1>7, <2>1 DEF Sunk
<1> QED
  BY <1>1, <1>5, <1>6, <1>7 DEF v

\* Nobody wins but by sinking the whole fleet of the other, and the shot that
\* sinks it ends the match.
THEOREM WinnerSankAll == Spec => []WinnerSankFleet
BY WinnerFacts, InvAlways, PTL

\* A shot only touches the board of the player who is not to move, one cell
\* of it, and hands over the turn only if it found no ship.
ShotDiscipline ==
  [][turn # Nobody =>
       /\ grid'[turn] = grid[turn]
       /\ Cardinality({c \in Cells : grid'[Other(turn)][c] # grid[Other(turn)][c]}) <= 1
       /\ turn' # turn =>
            \A c \in Cells : grid[Other(turn)][c] = "ship"
                               <=> grid'[Other(turn)][c] = "ship"]_vars

\* Whoever shoots, only the board of the other changes, by one cell at most,
\* and the turn stays with a player who has hit a ship.
THEOREM ShotsDisciplined == Spec => ShotDiscipline
<1> DEFINE
      Change == {c \in Cells : grid'[Other(turn)][c] # grid[Other(turn)][c]}
      Fair == /\ grid'[turn] = grid[turn]
              /\ Cardinality(Change) <= 1
              /\ turn' # turn =>
                   \A c \in Cells : grid[Other(turn)][c] = "ship"
                                      <=> grid'[Other(turn)][c] = "ship"
<1>1. ASSUME TypeOK, [Next]_vars, turn # Nobody
      PROVE  Fair \/ UNCHANGED vars
  <2> DEFINE v == Other(turn)
  <2>0. turn \in Players /\ v \in Players /\ v # turn
    BY <1>1, TwoPlayers DEF TypeOK
  <2>1. ASSUME UNCHANGED <<grid, turn>>
        PROVE  Fair
    <3>1. Change = {}
      BY <2>1
    <3>2. Cardinality({}) = 0
      BY FS_EmptySet
    <3> QED
      BY <2>1, <3>1, <3>2
  <2>2. ASSUME NEW c \in Cells, \A d \in Cells \ {c} : grid'[v][d] = grid[v][d]
        PROVE  Cardinality(Change) <= 1
    <3>1. Change \in SUBSET {c}
      BY <2>2
    <3>2. IsFiniteSet({c}) /\ Cardinality({c}) = 1
      BY FS_Singleton
    <3> QED
      BY <3>1, <3>2, FS_Subset
  <2>3. ASSUME NEW u \in Players, NEW f \in Placements, Place(u, f)
        PROVE  Fair
    BY <2>1, <2>3 DEF Place, boards
  <2>4. ASSUME NEW K, NEW first, Start(K, first)
        PROVE  Fair
    BY <1>1, <2>4 DEF Start
  <2>5. ASSUME NEW u \in Players, NEW c \in Cells, Miss(u, c)
        PROVE  Fair
    <3>1. /\ u = turn /\ grid[v][c] # "ship"
          /\ grid' = IF grid[v][c] = "empty" THEN [grid EXCEPT ![v][c] = "miss"]
                                             ELSE grid
      BY <2>5 DEF Miss
    <3> HIDE DEF v
    <3>2. /\ grid'[turn] = grid[turn]
          /\ \A d \in Cells \ {c} : grid'[v][d] = grid[v][d]
          /\ \A d \in Cells : grid[v][d] = "ship" <=> grid'[v][d] = "ship"
      BY <1>1, <2>0, <3>1 DEF TypeOK
    <3> QED
      BY <2>2, <3>2 DEF v
  <2>6. ASSUME NEW u \in Players, NEW c \in Cells, Hit(u, c)
        PROVE  Fair
    <3>1. /\ u = turn /\ turn' = turn
          /\ grid' = [grid EXCEPT ![v][c] = "hit"]
      BY <2>6 DEF Hit
    <3> HIDE DEF v
    <3>2. /\ grid'[turn] = grid[turn]
          /\ \A d \in Cells \ {c} : grid'[v][d] = grid[v][d]
      BY <1>1, <2>0, <3>1 DEF TypeOK
    <3> QED
      BY <2>2, <3>1, <3>2 DEF v
  <2> QED
    BY <1>1, <2>3, <2>4, <2>5, <2>6 DEF Next
<1>2. TypeOK /\ [Next]_vars => [turn # Nobody => Fair]_vars
  BY <1>1
<1> QED
  BY <1>2, TypeCorrect, PTL DEF Spec, ShotDiscipline

-----------------------------------------------------------------------------
(* A game is a match object as the threads of the server use it.           *)

\* The ships are where the stored placements have them.
PlacedInv ==
  turn # Nobody => \A u \in Players :
    /\ stored[u] \in Placements
    /\ \A t \in DOMAIN ships[u] : ships[u][t].cells = CellsOf(stored[u], t)

LEMMA NoneIsNoPlacement == None \notin Placements
<1> SUFFICES ASSUME None \in Placements
             PROVE  FALSE
  OBVIOUS
<1>1. DOMAIN None = Types
  BY DEF Placements
<1>2. Types = {}
  BY <1>1 DEF None
<1> QED
  BY <1>2, BoardAssumption

LEMMA StepPlaced == Inv /\ PlacedInv /\ [Next]_vars => PlacedInv'
<1> SUFFICES ASSUME Inv, PlacedInv, [Next]_vars
             PROVE  PlacedInv'
  OBVIOUS
<1>0. TypeOK
  BY DEF Inv
<1>1. ASSUME NEW u \in Players, NEW f \in Placements, Place(u, f)
      PROVE  PlacedInv'
  <2>1. /\ stored[u] = None /\ stored' = [stored EXCEPT ![u] = f]
        /\ ships' = ships /\ turn' = turn
    BY <1>1 DEF Place, boards
  <2>2. \A w \in Players : stored'[w] \in Placements \/ stored'[w] = stored[w]
    BY <1>0, <2>1 DEF TypeOK
  <2>3. \A w \in Players \ {u} : stored'[w] = stored[w]
    BY <1>0, <2>1 DEF TypeOK
  <2>4. CASE turn = Nobody
    BY <2>1, <2>4 DEF PlacedInv
  <2>5. CASE turn # Nobody
    BY <2>1, <2>5, NoneIsNoPlacement DEF PlacedInv
  <2> QED
    BY <2>4, <2>5
<1>2. ASSUME NEW K \in [Players -> SUBSET Types], NEW first \in Players,
             Start(K, first)
      PROVE  PlacedInv'
  <2>1. /\ ships' = [u \in Players |-> [t \in K[u] |->
                      [cells |-> CellsOf(stored[u], t), hits |-> 0, sunk |-> FALSE]]]
        /\ stored' = stored /\ \A u \in Players : stored[u] # None
    BY <1>2 DEF Start
  <2>2. \A u \in Players : /\ stored'[u] \in Placements
                           /\ DOMAIN ships'[u] = K[u]
    BY <1>0, <2>1 DEF TypeOK
  <2>3. ASSUME NEW u \in Players, NEW t \in DOMAIN ships'[u]
        PROVE  ships'[u][t].cells = CellsOf(stored'[u], t)
    BY <2>1, <2>2, <2>3
  <2> QED
    BY <2>2, <2>3 DEF PlacedInv, CellsOf
<1>3. ASSUME NEW u \in Players, NEW c \in Cells, Miss(u, c)
      PROVE  PlacedInv'
  <2>1. stored' = stored /\ ships' = ships /\ turn # Nobody
    BY <1>3, PlayersAssumption DEF Miss
  <2> QED
    BY <2>1 DEF PlacedInv, CellsOf
<1>4. ASSUME NEW u \in Players, NEW c \in Cells, Hit(u, c)
      PROVE  PlacedInv'
  <2>1. stored' = stored /\ turn' = turn
    BY <1>4 DEF Hit
  <2>2. Other(u) \in Players
    BY TwoPlayers
  <2>3. PICK t \in DOMAIN ships[Other(u)] :
          LET s == ships[Other(u)][t]
              sinks == s.hits + 1 >= Cardinality(s.cells)
          IN ships' = [ships EXCEPT ![Other(u)][t] =
                         [s EXCEPT !.hits = @ + 1, !.sunk = @ \/ sinks]]
    BY <1>4 DEF Hit
  <2>4. \A w \in Players : \A x \in DOMAIN ships[w] :
          ships[w][x] \in Ships
    BY <1>0 DEF TypeOK
  <2>5. \A w \in Players : /\ DOMAIN ships'[w] = DOMAIN ships[w]
                           /\ \A x \in DOMAIN ships[w] :
                                ships'[w][x].cells = ships[w][x].cells
    BY <1>0, <2>2, <2>3, <2>4 DEF TypeOK, Ships
  <2> QED
    BY <2>1, <2>5 DEF PlacedInv, CellsOf
<1>5. CASE UNCHANGED vars
  BY <1>5 DEF vars, boards, PlacedInv, CellsOf
<1> QED
  BY <1>1, <1>2, <1>3, <1>4, <1>5 DEF Next

\* Two places of a fleet that is kept share no cell.
LEMMA CellOfFacts ==
  ASSUME Inv, PlacedInv, turn # Nobody, NEW u \in Players
  PROVE  /\ \A p \in Segments : p[1] \in DOMAIN ships[u] =>
              /\ CellOf(stored[u], p) \in ships[u][p[1]].cells
              /\ CellOf(stored[u], p) \in Cells
         /\ \A t \in DOMAIN ships[u] : \A c \in ships[u][t].cells :
              \E p \in Segments : p[1] = t /\ CellOf(stored[u], p) = c
         /\ \A p, q \in Segments :
              /\ p[1] \in DOMAIN ships[u] /\ q[1] \in DOMAIN ships[u]
              /\ CellOf(stored[u], p) = CellOf(stored[u], q)
              => p = q
<1> DEFINE f == stored[u]
<1>1. /\ f \in Placements /\ FleetInv
      /\ \A t \in DOMAIN ships[u] : ships[u][t].cells = CellsOf(f, t)
  BY DEF PlacedInv, Inv
<1>2. /\ DOMAIN ships[u] \subseteq Types
      /\ \A t \in DOMAIN ships[u] : ships[u][t].cells \subseteq Cells
      /\ \A s, t \in DOMAIN ships[u] :
           s # t => ships[u][s].cells \cap ships[u][t].cells = {}
  BY <1>1 DEF FleetInv
<1>3. Size \in Nat /\ \A t \in Types : Length[t] \in 1..Size
  BY BoardAssumption
<1>4. \A p \in Segments : /\ p = <<p[1], p[2]>> /\ p[1] \in Types
                          /\ p[2] \in Nat /\ p[2] \in 0..Length[p[1]]-1
  BY <1>3 DEF Segments
<1>5. \A t \in Types : \A i \in 0..Length[t]-1 :
        /\ <<t, i>> \in Segments
        /\ CellOf(f, <<t, i>>) = CellAt(f[t].pos, f[t].orient, i)
  BY <1>3 DEF Segments, CellOf
<1>6. \A p \in Segments : CellOf(f, p) = CellAt(f[p[1]].pos, f[p[1]].orient, p[2])
  BY DEF CellOf
<1> HIDE DEF f
<1>7. ASSUME NEW p \in Segments, p[1] \in DOMAIN ships[u]
      PROVE  CellOf(f, p) \in ships[u][p[1]].cells /\ CellOf(f, p) \in Cells
  <2>1. CellOf(f, p) \in CellsOf(f, p[1])
    BY <1>4, <1>6 DEF CellsOf, Covers
  <2> QED
    BY <1>1, <1>2, <1>7, <2>1
<1>8. ASSUME NEW t \in DOMAIN ships[u], NEW c \in ships[u][t].cells
      PROVE  \E p \in Segments : p[1] = t /\ CellOf(f, p) = c
  <2>1. t \in Types /\ c \in CellsOf(f, t)
    BY <1>1, <1>2
  <2>2. PICK i \in 0..Length[t]-1 : c = CellAt(f[t].pos, f[t].orient, i)
    BY <2>1 DEF CellsOf, Covers
  <2>3. <<t, i>> \in Segments /\ <<t, i>>[1] = t /\ CellOf(f, <<t, i>>) = c
    BY <1>5, <2>1, <2>2
  <2> QED
    BY <2>3
<1>9. ASSUME NEW p \in Segments, NEW q \in Segments,
             p[1] \in DOMAIN ships[u], q[1] \in DOMAIN ships[u],
             CellOf(f, p) = CellOf(f, q)
      PROVE  p = q
  <2>1. p[1] = q[1]
    BY <1>2, <1>7, <1>9
  <2>2. f[p[1]].pos \in Cells
    BY <1>1, <1>4 DEF Placements
  <2>3. PICK x \in 0..Size-1, y \in 0..Size-1 : f[p[1]].pos = <<x, y>>
    BY <2>2 DEF Cells
  <2>4. CellAt(f[p[1]].pos, f[p[1]].orient, p[2])
          = CellAt(f[p[1]].pos, f[p[1]].orient, q[2])
    BY <1>6, <1>9, <2>1
  <2>5. p[2] = q[2]
    <3>1. CASE f[p[1]].orient = "vertical"
      BY <1>3, <1>4, <2>3, <2>4, <3>1 DEF CellAt
    <3>2. CASE f[p[1]].orient # "vertical"
      BY <1>3, <1>4, <2>3, <2>4, <3>2 DEF CellAt
    <3> QED
      BY <3>1, <3>2
  <2> QED
    BY <1>4, <2>1, <2>5
<1> QED
  BY <1>7, <1>8, <1>9 DEF f

LEMMA SegmentsFinite ==
  /\ IsFiniteSet(Segments)
  /\ \A u \in Players : /\ Remaining(u) \subseteq Segments
                        /\ IsFiniteSet(Remaining(u))
                        /\ Cardinality(Remaining(u)) \in Nat
<1>1. IsFiniteSet(Types) /\ Size \in Nat
  BY BoardAssumption
<1>2. IsFiniteSet(0..Size-1)
  BY <1>1, FS_Interval
<1>3. IsFiniteSet(Types \X (0..Size-1))
  BY <1>1, <1>2, FS_Product
<1>4. Segments \in SUBSET (Types \X (0..Size-1))
  BY DEF Segments
<1>5. IsFiniteSet(Segments)
  BY <1>3, <1>4, FS_Subset
<1>6. \A u \in Players : Remaining(u) \in SUBSET Segments
  BY DEF Remaining
<1>7. \A u \in Players : IsFiniteSet(Remaining(u))
  BY <1>5, <1>6, FS_Subset
<1> QED
  BY <1>5, <1>6, <1>7, FS_CardinalityType

\* Nothing remains of a fleet that was loaded whole and has no ship cell left.
EmptyInv ==
  turn # Nobody => \A u \in Players :
    Remaining(u) = {} <=> /\ DOMAIN ships[u] = Types
                          /\ \A c \in Cells : grid[u][c] # "ship"

LEMMA NothingRemains == Inv /\ PlacedInv => EmptyInv
<1> SUFFICES ASSUME Inv, PlacedInv, turn # Nobody, NEW u \in Players
             PROVE  Remaining(u) = {} <=> /\ DOMAIN ships[u] = Types
                                          /\ \A c \in Cells : grid[u][c] # "ship"
  BY DEF EmptyInv
<1>1. FleetInv
  BY DEF Inv
<1>2. \A t \in Types : <<t, 0>> \in Segments
  BY BoardAssumption DEF Segments
<1>3. ASSUME Remaining(u) = {}
      PROVE  /\ DOMAIN ships[u] = Types
             /\ \A c \in Cells : grid[u][c] # "ship"
  <2>1. ASSUME NEW t \in Types
        PROVE  t \in DOMAIN ships[u]
    <3>1. <<t, 0>> \in Segments /\ <<t, 0>>[1] = t
      BY <1>2
    <3>2. <<t, 0>> \notin Remaining(u)
      BY <1>3
    <3> QED
      BY <3>1, <3>2 DEF Remaining
  <2>2. ASSUME NEW c \in Cells, grid[u][c] = "ship"
        PROVE  FALSE
    <3>1. PICK t \in DOMAIN ships[u] : c \in ships[u][t].cells
      BY <1>1, <2>2 DEF FleetInv
    <3>2. PICK p \in Segments : p[1] = t /\ CellOf(stored[u], p) = c
      BY <3>1, CellOfFacts
    <3>3. p \in Remaining(u)
      BY <2>2, <3>2 DEF Remaining
    <3> QED
      BY <1>3, <3>3
  <2> QED
    BY <1>1, <2>1, <2>2 DEF FleetInv
<1>4. ASSUME DOMAIN ships[u] = Types, \A c \in Cells : grid[u][c] # "ship"
      PROVE  Remaining(u) = {}
  <2>1. ASSUME NEW p \in Remaining(u)
        PROVE  FALSE
    <3>1. p \in Segments /\ p[1] \in Types
      BY DEF Remaining, Segments
    <3>2. CellOf(stored[u], p) \in Cells /\ grid[u][CellOf(stored[u], p)] = "ship"
      BY <1>4, <2>1, <3>1, CellOfFacts DEF Remaining
    <3> QED
      BY <1>4, <3>2
  <2> QED
    BY <2>1
<1> QED
  BY <1>3, <1>4

LEMMA NothingRemainsThen == Inv' /\ PlacedInv' => EmptyInv' /\ WinnerSankFleet'
BY NothingRemains, WinnerFacts, PTL

LEMMA IdleRemains ==
  ASSUME Inv, turn = Nobody, NEW u \in Players
  PROVE  Remaining(u) = Segments
<1>1. DOMAIN ships[u] = {}
  BY DEF Inv, IdleInv
<1> QED
  BY <1>1 DEF Remaining

LEMMA ObjectBegins ==
  ASSUME Inv, NEW K \in [Players -> SUBSET Types], NEW first \in Players,
         Start(K, first)
  PROVE  Object!Begin
<1>1. /\ grid' = [u \in Players |-> [c \in Cells |->
                    IF c \in Afloat(stored[u], K[u]) THEN "ship" ELSE "empty"]]
      /\ ships' = [u \in Players |-> [t \in K[u] |->
                    [cells |-> CellsOf(stored[u], t), hits |-> 0, sunk |-> FALSE]]]
      /\ stored' = stored /\ turn = Nobody /\ turn' = first /\ active' = TRUE
  BY DEF Start
<1>2. \A u \in Players : /\ stored[u] \in Placements
                         /\ K[u] \subseteq Types /\ DOMAIN ships'[u] = K[u]
  BY <1>1 DEF Inv, TypeOK, Start
<1>3. ASSUME NEW u \in Players, NEW p \in Segments, p[1] \in K[u]
      PROVE  grid'[u][CellOf(stored[u], p)] = "ship"
  <2>1. p[1] \in Types /\ p[2] \in 0..Length[p[1]]-1
    BY BoardAssumption DEF Segments
  <2>2. CellOf(stored[u], p) \in CellsOf(stored[u], p[1])
    BY <2>1 DEF CellOf, CellsOf, Covers
  <2>3. stored[u][p[1]] \in Spots(p[1])
    BY <1>2, <2>1 DEF Placements
  <2>4. CellsOf(stored[u], p[1]) \subseteq Cells
    BY <2>1, <2>3, CoversOnBoard DEF CellsOf
  <2>5. CellOf(stored[u], p) \in Afloat(stored[u], K[u])
    BY <1>3, <2>2 DEF Afloat
  <2> QED
    BY <1>1, <2>2, <2>4, <2>5
<1>4. ASSUME NEW u \in Players
      PROVE  Remaining(u)' = Remaining(u)
  <2>1. Remaining(u) = Segments
    BY <1>1, IdleRemains
  <2>2. Remaining(u)' = {p \in Segments : p[1] \in K[u] =>
                           grid'[u][CellOf(stored[u], p)] = "ship"}
    BY <1>1, <1>2 DEF Remaining, CellOf
  <2> QED
    BY <1>3, <2>1, <2>2
<1> QED
  BY <1>1, <1>4 DEF Object!Begin

LEMMA ObjectPasses ==
  ASSUME Inv, PlacedInv, NEW u \in Players, NEW c \in Cells, Miss(u, c)
  PROVE  Object!Pass
<1> DEFINE v == Other(u)
<1>0. v \in Players /\ v # u /\ TypeOK /\ turn # Nobody
  BY TwoPlayers, PlayersAssumption DEF Inv, Miss
<1>1. /\ active /\ turn = u /\ turn' = v /\ grid[v][c] # "ship"
      /\ grid' = IF grid[v][c] = "empty" THEN [grid EXCEPT ![v][c] = "miss"] ELSE grid
      /\ stored' = stored /\ ships' = ships /\ active' = active
  BY DEF Miss
<1> HIDE DEF v
<1>2. \A w \in Players, d \in Cells : grid'[w][d] = "ship" <=> grid[w][d] = "ship"
  BY <1>0, <1>1 DEF TypeOK
<1>3. ASSUME NEW w \in Players
      PROVE  Remaining(w)' = Remaining(w)
  <2>1. \A p \in Segments : p[1] \in DOMAIN ships[w] => CellOf(stored[w], p) \in Cells
    BY <1>0, CellOfFacts
  <2> QED
    BY <1>1, <1>2, <2>1 DEF Remaining, CellOf
<1> QED
  BY <1>0, <1>1, <1>3 DEF Object!Pass

LEMMA ObjectIsStruck ==
  ASSUME Inv, PlacedInv, Inv', PlacedInv', NEW u \in Players, NEW c \in Cells, Hit(u, c)
  PROVE  Object!Strike
<1> DEFINE v == Other(u)
<1>0. /\ v \in Players /\ v # u /\ TypeOK /\ FleetInv /\ turn # Nobody
      /\ \A w \in Players : w = u \/ w = v
  BY TwoPlayers, PlayersAssumption DEF Inv, Hit
<1>1. /\ active /\ turn = u /\ turn' = turn /\ stored' = stored /\ grid[v][c] = "ship"
      /\ grid' = [grid EXCEPT ![v][c] = "hit"]
  BY DEF Hit
<1>2. \A w \in Players : DOMAIN ships'[w] = DOMAIN ships[w]
  BY <1>0 DEF Hit, TypeOK
<1> HIDE DEF v
<1>3. PICK t \in DOMAIN ships[v] : c \in ships[v][t].cells
  BY <1>0, <1>1 DEF FleetInv
<1>4. PICK p \in Segments : p[1] = t /\ CellOf(stored[v], p) = c
  BY <1>0, <1>3, CellOfFacts
<1>5. /\ \A d \in Cells : grid'[u][d] = grid[u][d]
      /\ grid'[v][c] = "hit" /\ \A d \in Cells \ {c} : grid'[v][d] = grid[v][d]
  BY <1>0, <1>1 DEF TypeOK
<1>6. Remaining(u)' = Remaining(u)
  <2>1. \A q \in Segments : q[1] \in DOMAIN ships[u] => CellOf(stored[u], q) \in Cells
    BY <1>0, CellOfFacts
  <2> QED
    BY <1>1, <1>2, <1>5, <2>1 DEF Remaining, CellOf
<1>7. p \in Remaining(v) /\ Remaining(v)' = Remaining(v) \ {p}
  <2>1. p \in Remaining(v)
    BY <1>1, <1>4 DEF Remaining
  <2>2. Remaining(v)' = {q \in Segments : q[1] \in DOMAIN ships[v] =>
                           grid'[v][CellOf(stored[v], q)] = "ship"}
    BY <1>0, <1>1, <1>2 DEF Remaining, CellOf
  <2>3. p \notin Remaining(v)'
    BY <1>3, <1>4, <1>5, <2>2
  <2>4. ASSUME NEW q \in Segments, q # p, q[1] \in DOMAIN ships[v]
        PROVE  grid'[v][CellOf(stored[v], q)] = grid[v][CellOf(stored[v], q)]
    <3>1. CellOf(stored[v], q) \in Cells
      BY <1>0, <2>4, CellOfFacts
    <3>2. CellOf(stored[v], q) # c
      BY <1>0, <1>3, <1>4, <2>4, CellOfFacts
    <3> QED
      BY <1>5, <3>1, <3>2
  <2> QED
    BY <2>1, <2>2, <2>3, <2>4 DEF Remaining
<1>8. /\ Cardinality(Remaining(v)') = Cardinality(Remaining(v)) - 1
      /\ Cardinality(Remaining(v)) > 0
      /\ Cardinality(Remaining(v)') \in Nat
      /\ Cardinality(Remaining(v)') = 0 <=> Remaining(v)' = {}
  <2>1. IsFiniteSet(Remaining(v)) /\ Cardinality(Remaining(v)) \in Nat
    BY <1>0, SegmentsFinite
  <2>2. /\ IsFiniteSet(Remaining(v)')
        /\ Cardinality(Remaining(v)') = Cardinality(Remaining(v)) - 1
    BY <1>7, <2>1, FS_RemoveElement
  <2>3. /\ Cardinality(Remaining(v)') \in Nat
        /\ Cardinality(Remaining(v)') = 0 <=> Remaining(v)' = {}
    BY <2>2, FS_CardinalityType, FS_EmptySet
  <2> QED
    BY <2>1, <2>2, <2>3
<1>9. active' <=> Cardinality(Remaining(v)') # 0
  <2>1. EmptyInv' /\ WinnerSankFleet' /\ turn' # Nobody
    BY <1>0, <1>1, NothingRemainsThen
  <2>2. Remaining(v)' = {} <=> /\ DOMAIN ships'[v] = Types
                               /\ \A d \in Cells : grid'[v][d] # "ship"
    BY <1>0, <2>1 DEF EmptyInv
  <2>3. /\ active' <=> winner' = Nobody
        /\ winner' = u <=> /\ DOMAIN ships'[v] = Types
                           /\ \A d \in Cells : grid'[v][d] # "ship"
    BY <2>1 DEF WinnerSankFleet, v
  <2>4. winner' = u \/ winner' = Nobody
    BY <1>0, <1>1 DEF Hit, Inv, OverInv
  <2> QED
    BY <1>0, <1>1, <1>8, <2>2, <2>3, <2>4, PlayersAssumption
<1> QED
  BY <1>0, <1>1, <1>6, <1>8, <1>9 DEF Object!Strike

\* Whatever placements the players send and wherever they shoot, grids, ships
\* and counters amount to a match object as the threads use it: each hit takes
\* one cell of the other fleet, nothing else takes any, and ships_remaining
\* ends the match exactly with the last cell.
THEOREM ObjectImplemented == Spec => ImplementsObject
<1>1. Init => PlacedInv /\ Object!ObjectInit
  <2> SUFFICES ASSUME Init
               PROVE  PlacedInv /\ Object!ObjectInit
    OBVIOUS
  <2>1. \A u \in Players : Remaining(u) = Segments
    BY DEF Init, Remaining
  <2> QED
    BY <2>1 DEF Init, PlacedInv, Object!ObjectInit
<1>2. Inv /\ PlacedInv /\ Inv' /\ PlacedInv' /\ [Next]_vars
        => [Object!ObjectNext]_(Object!objectVars)
  <2> SUFFICES ASSUME Inv, PlacedInv, Inv', PlacedInv', [Next]_vars
               PROVE  Object!ObjectNext \/ UNCHANGED Object!objectVars
    OBVIOUS
  <2>1. ASSUME NEW u \in Players, NEW f \in Placements, Place(u, f)
        PROVE  UNCHANGED Object!objectVars
    <3>1. /\ grid' = grid /\ ships' = ships /\ turn' = turn /\ active' = active
          /\ stored[u] = None /\ stored' = [stored EXCEPT ![u] = f]
      BY <2>1 DEF Place, boards
    <3>2. turn = Nobody
      BY <3>1, NoneIsNoPlacement DEF PlacedInv
    <3>3. \A w \in Players : DOMAIN ships[w] = {}
      BY <3>2 DEF Inv, IdleInv
    <3>4. \A w \in Players : Remaining(w)' = Remaining(w)
      BY <3>1, <3>3 DEF Remaining
    <3> QED
      BY <3>1, <3>4 DEF Object!objectVars
  <2>2. ASSUME NEW K \in [Players -> SUBSET Types], NEW first \in Players,
               Start(K, first)
        PROVE  Object!Begin
    BY <2>2, ObjectBegins
  <2>3. ASSUME NEW u \in Players, NEW c \in Cells, Miss(u, c)
        PROVE  Object!Pass
    BY <2>3, ObjectPasses
  <2>4. ASSUME NEW u \in Players, NEW c \in Cells, Hit(u, c)
        PROVE  Object!Strike
    BY <2>4, ObjectIsStruck
  <2>5. CASE UNCHANGED vars
    BY <2>5 DEF vars, boards, Object!objectVars, Remaining, CellOf
  <2> QED
    BY <2>1, <2>2, <2>3, <2>4, <2>5 DEF Next, Object!ObjectNext
<1> QED
  BY <1>1, <1>2, StepPlaced, InvAlways, PTL DEF Spec, ImplementsObject, Object!ObjectSpec
=============================================================================
