-------------------------- MODULE Placement_proofs --------------------------
(***************************************************************************)
(* Proofs about Placement, for boards and fleets of any size: whatever the *)
(* player clicks, the grid is the ships on it, and what READY sends for a  *)
(* match is a whole fleet.                                                 *)
(***************************************************************************)
EXTENDS Placement, FiniteSetTheorems, WellFoundedInduction, TLAPS

\* A type that is marked [OK] for a match has a ship on the board.
FlagsInv ==
  ~overrun /\ opened = "match" =>
    \A t \in placed : \E i \in DOMAIN ships : ships[i].type = t

Inv == TypeOK /\ GridIsFleet /\ FlagsInv /\ SentFleetWhole

-----------------------------------------------------------------------------
(* Numbers, the order of the types, and cells.                             *)

LEMMA Least ==
  ASSUME NEW T \in SUBSET Nat, T # {}
  PROVE  \E x \in T : \A y \in T : x <= y
<1> DEFINE Before == {ss \in Nat \X Nat : ss[1] < ss[2]}
<1>1. IsWellFoundedOn(Before, Nat)
  BY NatLessThanWellFounded DEF OpToRel
<1>2. \A y, x \in Nat : y < x => <<y, x>> \in Before
  OBVIOUS
<1> HIDE DEF Before
<1>3. PICK x \in T : \A y \in T : <<y, x>> \notin Before
  BY <1>1, WFMin
<1>4. ASSUME NEW y \in T
      PROVE  x <= y
  <2>1. x \in Nat /\ y \in Nat /\ ~(y < x)
    BY <1>2, <1>3
  <2> QED
    BY <2>1
<1> QED
  BY <1>4

LEMMA OrderOfTypes ==
  /\ NumShips = Cardinality(Types) /\ NumShips \in Nat \ {0}
  /\ Order \in [1..NumShips -> Types] /\ Order[1] \in Types
  /\ \A t \in Types : \E i \in 1..NumShips : Order[i] = t
  /\ \A i, j \in 1..NumShips : Order[i] = Order[j] => i = j
<1>1. NumShips = Cardinality(Types) /\ NumShips \in Nat \ {0}
  BY BoardAssumption, PlacementAssumption, FS_CardinalityType, FS_EmptySet DEF NumShips
<1>2. Order \in [1..NumShips -> Types] /\ Order[1] \in Types
  BY <1>1, PlacementAssumption DEF NumShips
<1>3. \A t \in Types : \E i \in 1..NumShips : Order[i] = t
  BY PlacementAssumption DEF NumShips
<1>4. \A i, j \in 1..NumShips : Order[i] = Order[j] => i = j
  <2>1. IsFiniteSet(1..NumShips) /\ Cardinality(1..NumShips) = Cardinality(Types)
    BY <1>1, FS_Interval
  <2>2. Order \in Surjection(1..NumShips, Types)
    BY <1>2, <1>3 DEF Surjection
  <2>3. Order \in Injection(1..NumShips, Types)
    BY <2>1, <2>2, FS_SurjSameCardinalityImpliesInj
  <2> QED
    BY <2>3 DEF Injection, IsInjective
<1> QED
  BY <1>1, <1>2, <1>3, <1>4

LEMMA NextTypeIn ==
  ASSUME selected \in Types, NEW marked \in SUBSET Types
  PROVE  NextType(marked) \in Types
<1>1. CASE marked = Types
  BY <1>1 DEF NextType
<1>2. CASE marked # Types
  <2> DEFINE T == {i \in 1..NumShips : Order[i] \notin marked}
  <2>1. T \in SUBSET Nat /\ T # {}
    <3>1. PICK t \in Types : t \notin marked
      BY <1>2
    <3>2. PICK k \in 1..NumShips : Order[k] = t
      BY OrderOfTypes
    <3>3. NumShips \in Nat /\ k \in T
      BY <3>1, <3>2, OrderOfTypes
    <3> QED
      BY <3>3
  <2>2. PICK i \in T : \A j \in T : i <= j
    BY <2>1, Least
  <2>3. i \in 1..NumShips /\ Order[i] \notin marked
    OBVIOUS
  <2>4. \A j \in 1..i-1 : Order[j] \in marked
    <3> SUFFICES ASSUME NEW j \in 1..i-1, Order[j] \notin marked
                 PROVE  FALSE
      OBVIOUS
    <3>1. j \in 1..NumShips /\ j < i /\ j \in Nat /\ i \in Nat
      BY <2>3, OrderOfTypes
    <3> QED
      BY <2>2, <3>1
  <2>5. (CHOOSE k \in 1..NumShips :
           Order[k] \notin marked /\ \A j \in 1..k-1 : Order[j] \in marked)
        \in 1..NumShips
    BY <2>3, <2>4
  <2> QED
    BY <1>2, <2>5, OrderOfTypes DEF NextType
<1> QED
  BY <1>1, <1>2

\* A ship that fits lies on the board.
LEMMA CoversOnBoard ==
  ASSUME NEW t \in Types, NEW pos \in Cells, NEW orient \in Orientations,
         Fits(t, pos, orient)
  PROVE  Covers(t, pos, orient) \subseteq Cells
<1>1. Length[t] \in 1..Size /\ Size \in Nat
  BY BoardAssumption
<1>2. PICK x \in 0..Size-1, y \in 0..Size-1 : pos = <<x, y>>
  BY DEF Cells
<1>3. \A i \in 0..Length[t]-1 : CellAt(pos, orient, i) \in Cells
  <2> TAKE i \in 0..Length[t]-1
  <2>1. CASE orient = "vertical"
    <3>1. x + i \in 0..Size-1
      BY <1>1, <1>2, <2>1 DEF Fits
    <3> QED
      BY <1>2, <2>1, <3>1 DEF CellAt, Cells
  <2>2. CASE orient = "horizontal"
    <3>1. y + i \in 0..Size-1
      BY <1>1, <1>2, <2>2 DEF Fits
    <3> QED
      BY <1>2, <2>2, <3>1 DEF CellAt, Cells
  <2> QED
    BY <2>1, <2>2 DEF Orientations
<1> QED
  BY <1>3 DEF Covers

-----------------------------------------------------------------------------
(* Ships in the array.                                                     *)

LEMMA CellsAppended ==
  ASSUME NEW s \in Seq(Ships), NEW e \in Ships
  PROVE  /\ Append(s, e) \in Seq(Ships) /\ Len(Append(s, e)) = Len(s) + 1
         /\ \A i \in 1..Len(s) : Append(s, e)[i] = s[i]
         /\ Append(s, e)[Len(s) + 1] = e
         /\ CellsOf(Append(s, e)) = CellsOf(s) \cup e.cells
<1> DEFINE a == Append(s, e)
<1>1. /\ a \in Seq(Ships) /\ Len(a) = Len(s) + 1 /\ Len(s) \in Nat
      /\ \A i \in 1..Len(s) : a[i] = s[i]
      /\ a[Len(s) + 1] = e
      /\ DOMAIN a = 1..Len(s) + 1 /\ DOMAIN s = 1..Len(s)
  OBVIOUS
<1> HIDE DEF a
<1>2. CellsOf(a) \subseteq CellsOf(s) \cup e.cells
  <2> SUFFICES ASSUME NEW i \in 1..Len(s) + 1, NEW c \in a[i].cells
               PROVE  c \in CellsOf(s) \cup e.cells
    BY <1>1 DEF CellsOf
  <2>1. CASE i \in 1..Len(s)
    BY <1>1, <2>1 DEF CellsOf
  <2>2. CASE i = Len(s) + 1
    BY <1>1, <2>2
  <2> QED
    BY <1>1, <2>1, <2>2
<1>3. CellsOf(s) \cup e.cells \subseteq CellsOf(a)
  <2>1. ASSUME NEW i \in 1..Len(s), NEW c \in s[i].cells
        PROVE  c \in CellsOf(a)
    <3>1. i \in DOMAIN a /\ c \in a[i].cells
      BY <1>1
    <3> QED
      BY <3>1 DEF CellsOf
  <2>2. ASSUME NEW c \in e.cells
        PROVE  c \in CellsOf(a)
    <3>1. Len(s) + 1 \in DOMAIN a /\ c \in a[Len(s) + 1].cells
      BY <1>1
    <3> QED
      BY <3>1 DEF CellsOf
  <2> QED
    BY <1>1, <2>1, <2>2 DEF CellsOf
<1> QED
  BY <1>1, <1>2, <1>3 DEF a

\* Without(s, i) has the elements of s but the i-th, each once.
LEMMA WithoutOne ==
  ASSUME NEW s \in Seq(Ships), NEW i \in 1..Len(s)
  PROVE  /\ Without(s, i) \in Seq(Ships) /\ Len(Without(s, i)) = Len(s) - 1
         /\ \A j \in DOMAIN Without(s, i) :
              Without(s, i)[j] = s[IF j < i THEN j ELSE j + 1]
         /\ \A k \in 1..Len(s) : k # i =>
              \E j \in DOMAIN Without(s, i) : Without(s, i)[j] = s[k]
<1> DEFINE w == Without(s, i)
<1>1. Len(s) \in Nat /\ i \in Nat /\ DOMAIN s = 1..Len(s) /\ Len(s) - 1 \in Nat
  OBVIOUS
<1>2. DOMAIN w = 1..Len(s) - 1
  BY DEF Without
<1>3. \A j \in 1..Len(s) - 1 : w[j] = s[IF j < i THEN j ELSE j + 1]
  BY DEF Without
<1>4. w \in Seq(Ships) /\ Len(w) = Len(s) - 1
  <2>1. \A j \in 1..Len(s) - 1 : (IF j < i THEN s[j] ELSE s[j + 1]) \in Ships
    BY <1>1
  <2> QED
    BY <1>1, <2>1 DEF Without
<1>5. ASSUME NEW k \in 1..Len(s), k # i
      PROVE  \E j \in 1..Len(s) - 1 : w[j] = s[k]
  <2>1. CASE k < i
    <3>1. k \in 1..Len(s) - 1 /\ w[k] = s[k]
      BY <1>1, <1>3, <2>1
    <3> QED
      BY <3>1
  <2>2. CASE i < k
    <3>1. k - 1 \in 1..Len(s) - 1 /\ ~(k - 1 < i) /\ k - 1 + 1 = k
      BY <1>1, <2>2
    <3>2. w[k - 1] = s[k]
      BY <1>3, <3>1
    <3> QED
      BY <3>1, <3>2
  <2> QED
    BY <1>1, <1>5, <2>1, <2>2
<1> QED
  BY <1>2, <1>3, <1>4, <1>5

\* A ship of the type is found if there is one, and the board without it has
\* the other ships, on the cells that are left.
LEMMA RemoveOne ==
  ASSUME NEW s \in Seq(Ships), NEW i \in 1..Len(s),
         \A j, k \in DOMAIN s : j # k => s[j].cells \cap s[k].cells = {}
  PROVE  /\ CellsOf(Without(s, i)) = CellsOf(s) \ s[i].cells
         /\ \A j, k \in DOMAIN Without(s, i) :
              j # k => Without(s, i)[j].cells \cap Without(s, i)[k].cells = {}
<1> DEFINE w == Without(s, i)
           from(j) == IF j < i THEN j ELSE j + 1
<1>1. /\ DOMAIN w = 1..Len(s) - 1 /\ DOMAIN s = 1..Len(s) /\ Len(s) \in Nat
      /\ i \in Nat
      /\ \A j \in DOMAIN w : w[j] = s[from(j)]
      /\ \A k \in 1..Len(s) : k # i => \E j \in DOMAIN w : w[j] = s[k]
  BY WithoutOne DEF Without
<1>2. \A j \in DOMAIN w : from(j) \in 1..Len(s) /\ from(j) # i
  BY <1>1
<1>3. \A j, k \in DOMAIN w : j # k => from(j) # from(k)
  BY <1>1
<1> HIDE DEF w, from
<1>4. CellsOf(w) \subseteq CellsOf(s) \ s[i].cells
  <2> SUFFICES ASSUME NEW j \in DOMAIN w, NEW c \in w[j].cells
               PROVE  c \in CellsOf(s) \ s[i].cells
    BY DEF CellsOf
  <2>1. /\ from(j) \in DOMAIN s /\ i \in DOMAIN s /\ from(j) # i
        /\ c \in s[from(j)].cells
    BY <1>1, <1>2
  <2> QED
    BY <2>1 DEF CellsOf
<1>5. CellsOf(s) \ s[i].cells \subseteq CellsOf(w)
  <2> SUFFICES ASSUME NEW k \in DOMAIN s, NEW c \in s[k].cells, c \notin s[i].cells
               PROVE  c \in CellsOf(w)
    BY DEF CellsOf
  <2>1. PICK j \in DOMAIN w : w[j] = s[k]
    BY <1>1
  <2> QED
    BY <2>1 DEF CellsOf
<1>6. ASSUME NEW j \in DOMAIN w, NEW k \in DOMAIN w, j # k
      PROVE  w[j].cells \cap w[k].cells = {}
  <2>1. from(j) \in DOMAIN s /\ from(k) \in DOMAIN s /\ from(j) # from(k)
    BY <1>1, <1>2, <1>3, <1>6
  <2> QED
    BY <1>1, <2>1
<1> QED
  BY <1>4, <1>5, <1>6 DEF w

-----------------------------------------------------------------------------
(* The steps.                                                              *)

\* Steps that change neither the ships nor the flags.
LEMMA KeepBoard ==
  ASSUME Inv, UNCHANGED <<occupied, ships, overrun, placed, opened, sent>>
  PROVE  GridIsFleet' /\ FlagsInv' /\ SentFleetWhole'
BY DEF Inv, GridIsFleet, FlagsInv, SentFleetWhole, CellsOf

LEMMA EmptyBoard ==
  ASSUME Inv, occupied' = {}, ships' = <<>>, UNCHANGED overrun,
         placed' = {} \/ opened' = "bot"
  PROVE  GridIsFleet' /\ FlagsInv'
<1>1. DOMAIN ships' = {}
  OBVIOUS
<1>2. CellsOf(ships') = {}
  BY <1>1 DEF CellsOf
<1> QED
  BY <1>1, <1>2 DEF GridIsFleet, FlagsInv

LEMMA EnterStep ==
  ASSUME Inv, MatchStart \/ VsBot
  PROVE  Inv'
<1>1. /\ occupied' = {} /\ ships' = <<>> /\ overrun' = overrun
      /\ placed' = {} \/ (placed' = placed /\ opened' = "bot")
      /\ selected' \in {Order[1], selected} /\ sent' = None
      /\ screen' = "placement" /\ enabled' = Types /\ readyOn' = FALSE
      /\ opened' \in {"match", "bot"}
  BY DEF MatchStart, VsBot, ClearBoard, NewScreen
<1>2. TypeOK'
  <2>1. ships' \in Seq(Ships) /\ Len(ships') = 0 /\ sent' \in Seq(Types)
    BY <1>1 DEF None
  <2>2. placed' \subseteq Types /\ selected' \in Types /\ 0 <= NumShips
    BY <1>1, OrderOfTypes DEF Inv, TypeOK
  <2> QED
    BY <1>1, <2>1, <2>2 DEF Inv, TypeOK
<1>3. GridIsFleet' /\ FlagsInv'
  BY <1>1, EmptyBoard
<1>4. SentFleetWhole'
  BY <1>1 DEF SentFleetWhole
<1> QED
  BY <1>2, <1>3, <1>4 DEF Inv

\* Leaving, the answers of the server, and the choice of a type.
LEMMA QuietStep ==
  ASSUME Inv, Leave \/ MatchReady \/ MatchEnd \/ PlacementAccepted
              \/ (\E t \in Types : SelectShip(t)) \/ UNCHANGED vars
  PROVE  Inv'
<1>1. /\ UNCHANGED <<occupied, ships, overrun, placed, opened, sent, enabled>>
      /\ screen' \in {screen, "lobby", "game"} /\ selected' \in Types
      /\ readyOn' \in BOOLEAN
  BY DEF Leave, MatchReady, MatchEnd, PlacementAccepted, SelectShip, vars, board,
         widgets, Inv, TypeOK
<1>2. TypeOK'
  BY <1>1 DEF Inv, TypeOK
<1>3. GridIsFleet' /\ FlagsInv' /\ SentFleetWhole'
  BY <1>1, KeepBoard
<1> QED
  BY <1>2, <1>3 DEF Inv

LEMMA PlaceStep ==
  ASSUME Inv, NEW pos \in Cells, NEW orient \in Orientations,
         PlaceShipAt(pos, orient)
  PROVE  Inv'
<1> DEFINE cells == Covers(selected, pos, orient)
           e == [type |-> selected, cells |-> cells]
<1>0. TypeOK /\ GridIsFleet /\ FlagsInv /\ SentFleetWhole
  BY DEF Inv
<1>1. /\ ~overrun /\ cells \cap occupied = {} /\ Fits(selected, pos, orient)
      /\ occupied' = occupied \cup cells
      /\ \/ /\ Len(ships) < NumShips /\ ships' = Append(ships, e) /\ overrun' = overrun
         \/ overrun' = TRUE /\ ships' = ships
      /\ placed' = placed \cup {selected} /\ selected' = NextType(placed')
      /\ enabled' = Types \ placed' /\ readyOn' = (placed' = Types)
      /\ screen' = screen /\ sent' = sent /\ opened' = opened
  BY DEF PlaceShipAt, Editing, Valid, UpdateShipStatusUI
<1>2. /\ selected \in Types /\ cells \subseteq Cells /\ e \in Ships
      /\ ships \in Seq(Ships) /\ placed' \in SUBSET Types /\ Len(ships) \in Nat
  BY <1>0, <1>1, CoversOnBoard DEF TypeOK, Ships
<1> HIDE DEF cells
<1>3. selected' \in Types
  BY <1>1, <1>2, NextTypeIn
<1>4. CASE overrun'
  <2>1. TypeOK'
    <3>1. ships' \in Seq(Ships) /\ Len(ships') <= NumShips
      BY <1>0, <1>1, <1>4 DEF TypeOK
    <3> QED
      BY <1>0, <1>1, <1>2, <1>3, <1>4, <3>1 DEF TypeOK
  <2>2. GridIsFleet' /\ FlagsInv'
    BY <1>4 DEF GridIsFleet, FlagsInv
  <2>3. SentFleetWhole'
    BY <1>0, <1>1 DEF SentFleetWhole
  <2> QED
    BY <2>1, <2>2, <2>3 DEF Inv
<1>5. CASE ~overrun'
  <2>1. Len(ships) < NumShips /\ ships' = Append(ships, e) /\ overrun' = overrun
    BY <1>1, <1>5
  <2>2. /\ ships' \in Seq(Ships) /\ Len(ships') = Len(ships) + 1
        /\ DOMAIN ships = 1..Len(ships) /\ DOMAIN ships' = 1..Len(ships) + 1
        /\ \A i \in DOMAIN ships : ships'[i] = ships[i]
        /\ ships'[Len(ships) + 1] = e
        /\ CellsOf(ships') = CellsOf(ships) \cup cells
    BY <1>2, <2>1, CellsAppended
  <2>3. TypeOK'
    <3>1. Len(ships') <= NumShips
      BY <1>2, <2>1, <2>2, OrderOfTypes
    <3> QED
      BY <1>0, <1>1, <1>2, <1>3, <2>1, <2>2, <3>1 DEF TypeOK
  <2>4. GridIsFleet'
    <3>1. occupied' = CellsOf(ships')
      BY <1>0, <1>1, <2>2 DEF GridIsFleet
    <3>2. \A i \in DOMAIN ships : ships[i].cells \subseteq occupied
      BY <1>0, <1>1 DEF GridIsFleet, CellsOf
    <3>3. ASSUME NEW i \in DOMAIN ships', NEW j \in DOMAIN ships', i # j
          PROVE  ships'[i].cells \cap ships'[j].cells = {}
      <4>1. CASE i \in DOMAIN ships /\ j \in DOMAIN ships
        BY <1>0, <1>1, <2>2, <3>3, <4>1 DEF GridIsFleet
      <4>2. CASE i = Len(ships) + 1 /\ j \in DOMAIN ships
        BY <1>1, <2>2, <3>2, <4>2
      <4>3. CASE j = Len(ships) + 1 /\ i \in DOMAIN ships
        BY <1>1, <2>2, <3>2, <4>3
      <4> QED
        BY <1>2, <2>2, <3>3, <4>1, <4>2, <4>3
    <3> QED
      BY <3>1, <3>3 DEF GridIsFleet
  <2>5. FlagsInv'
    <3>1. Len(ships) + 1 \in DOMAIN ships' /\ DOMAIN ships \subseteq DOMAIN ships'
      BY <1>2, <2>2
    <3>2. ASSUME opened = "match", NEW t \in placed'
          PROVE  \E i \in DOMAIN ships' : ships'[i].type = t
      <4>1. CASE t \in placed
        BY <1>0, <1>1, <2>2, <3>1, <3>2, <4>1 DEF FlagsInv
      <4>2. CASE t = selected
        BY <2>2, <3>1, <4>2
      <4> QED
        BY <1>1, <3>2, <4>1, <4>2
    <3> QED
      BY <1>1, <3>2 DEF FlagsInv
  <2>6. SentFleetWhole'
    BY <1>0, <1>1 DEF SentFleetWhole
  <2> QED
    BY <2>3, <2>4, <2>5, <2>6 DEF Inv
<1> QED
  BY <1>4, <1>5

LEMMA ClearShipStep ==
  ASSUME Inv, NEW type \in Types, ClearShip(type)
  PROVE  Inv'
<1> DEFINE I == {i \in DOMAIN ships : ships[i].type = type}
           first == CHOOSE i \in I : \A j \in I : i <= j
<1>0. TypeOK /\ GridIsFleet /\ FlagsInv /\ SentFleetWhole
  BY DEF Inv
<1>1. /\ ~overrun
      /\ ships' = IF I = {} THEN ships ELSE Without(ships, first)
      /\ occupied' = IF I = {} THEN occupied ELSE occupied \ ships[first].cells
      /\ placed' = placed \ {type}
      /\ enabled' = Types \ placed' /\ readyOn' = (placed' = Types)
      /\ screen' = screen /\ overrun' = overrun /\ selected' = selected
      /\ sent' = sent /\ opened' = opened
  BY DEF ClearShip, Editing, UpdateShipStatusUI
<1>2. /\ ships \in Seq(Ships) /\ DOMAIN ships = 1..Len(ships) /\ Len(ships) \in Nat
      /\ occupied = CellsOf(ships)
      /\ \A i, j \in DOMAIN ships : i # j => ships[i].cells \cap ships[j].cells = {}
  BY <1>0, <1>1 DEF TypeOK, GridIsFleet
<1>3. SentFleetWhole'
  BY <1>0, <1>1 DEF SentFleetWhole
<1>4. CASE I = {}
  <2>1. ships' = ships /\ occupied' = occupied
    BY <1>1, <1>4
  <2>2. TypeOK'
    BY <1>0, <1>1, <2>1 DEF TypeOK
  <2>3. CellsOf(ships') = CellsOf(ships)
    BY <2>1
  <2>4. GridIsFleet'
    BY <1>0, <1>1, <2>1, <2>3 DEF GridIsFleet
  <2>5. FlagsInv'
    <3>1. placed' \subseteq placed
      BY <1>1
    <3> QED
      BY <1>0, <1>1, <2>1, <3>1 DEF FlagsInv
  <2> QED
    BY <1>3, <2>2, <2>4, <2>5 DEF Inv
<1>5. CASE I # {}
  <2>1. first \in I
    <3>1. I \in SUBSET Nat
      BY <1>2
    <3>2. \E i \in I : \A j \in I : i <= j
      BY <1>5, <3>1, Least
    <3> QED
      BY <3>2
  <2>2. first \in DOMAIN ships /\ first \in 1..Len(ships) /\ ships[first].type = type
    BY <1>2, <2>1
  <2>3. ships' = Without(ships, first) /\ occupied' = occupied \ ships[first].cells
    BY <1>1, <1>5
  <2> HIDE DEF first, I
  <2>4. /\ ships' \in Seq(Ships) /\ Len(ships') = Len(ships) - 1
        /\ \A k \in 1..Len(ships) : k # first =>
             \E j \in DOMAIN ships' : ships'[j] = ships[k]
    <3> DEFINE w == Without(ships, first)
    <3>1. /\ w \in Seq(Ships) /\ Len(w) = Len(ships) - 1
          /\ \A k \in 1..Len(ships) : k # first => \E j \in DOMAIN w : w[j] = ships[k]
      BY <1>2, <2>2, WithoutOne
    <3> HIDE DEF w
    <3> QED
      BY <2>3, <3>1 DEF w
  <2>5. /\ CellsOf(ships') = CellsOf(ships) \ ships[first].cells
        /\ \A j, k \in DOMAIN ships' : j # k => ships'[j].cells \cap ships'[k].cells = {}
    BY <1>2, <2>2, <2>3, RemoveOne
  <2>6. TypeOK'
    <3>1. Len(ships') <= NumShips
      BY <1>0, <1>2, <2>4, OrderOfTypes DEF TypeOK
    <3> QED
      BY <1>0, <1>1, <2>3, <2>4, <3>1 DEF TypeOK
  <2>7. GridIsFleet'
    BY <1>2, <2>3, <2>5 DEF GridIsFleet
  <2>8. FlagsInv'
    <3> SUFFICES ASSUME opened = "match", NEW t \in placed, t # type
                 PROVE  \E j \in DOMAIN ships' : ships'[j].type = t
      BY <1>1 DEF FlagsInv
    <3>1. PICK k \in DOMAIN ships : ships[k].type = t
      BY <1>0, <1>1 DEF FlagsInv
    <3>2. k \in 1..Len(ships) /\ k # first
      BY <1>2, <2>2, <3>1
    <3> QED
      BY <2>4, <3>1, <3>2
  <2> QED
    BY <1>3, <2>6, <2>7, <2>8 DEF Inv
<1> QED
  BY <1>4, <1>5

LEMMA ClearAllStep ==
  ASSUME Inv, ClearAllShips
  PROVE  Inv'
<1>1. /\ occupied' = {} /\ ships' = <<>> /\ overrun' = overrun
      /\ placed' = {} /\ selected' = Order[1]
      /\ enabled' = Types \ placed' /\ readyOn' = (placed' = Types)
      /\ screen' = screen /\ sent' = sent /\ opened' = opened
  BY DEF ClearAllShips, ClearBoard, UpdateShipStatusUI
<1>2. TypeOK'
  BY <1>1, OrderOfTypes DEF Inv, TypeOK
<1>3. GridIsFleet' /\ FlagsInv'
  BY <1>1, EmptyBoard
<1>4. SentFleetWhole'
  BY <1>1 DEF Inv, SentFleetWhole
<1> QED
  BY <1>2, <1>3, <1>4 DEF Inv

LEMMA RandomizeStep ==
  ASSUME Inv, NEW f \in RandomFleets, RandomPlaceAllShips(f)
  PROVE  Inv'
<1> DEFINE C(t) == Covers(t, f[t].pos, f[t].orient)
           e(i) == [type |-> Order[i], cells |-> C(Order[i])]
<1>0. TypeOK /\ SentFleetWhole
  BY DEF Inv
<1>1. /\ ships' = [i \in 1..NumShips |-> e(i)] /\ occupied' = CellsOf(ships')
      /\ placed' = Types
      /\ enabled' = Types \ placed' /\ readyOn' = (placed' = Types)
      /\ screen' = screen /\ overrun' = overrun /\ selected' = selected
      /\ sent' = sent /\ opened' = opened
  BY DEF RandomPlaceAllShips, UpdateShipStatusUI
<1>2. \A t \in Types : C(t) \subseteq Cells
  <2> TAKE t \in Types
  <2>1. f[t].pos \in Cells /\ f[t].orient \in Orientations /\ Fits(t, f[t].pos, f[t].orient)
    BY DEF RandomFleets, Spots
  <2> QED
    BY <2>1, CoversOnBoard
<1>3. \A s, t \in Types : s # t => C(s) \cap C(t) = {}
  BY DEF RandomFleets
<1> HIDE DEF C
<1>4. \A i \in 1..NumShips : e(i) \in Ships /\ Order[i] \in Types
  BY <1>2, OrderOfTypes DEF Ships
<1>5. /\ ships' \in Seq(Ships) /\ Len(ships') = NumShips /\ DOMAIN ships' = 1..NumShips
      /\ \A i \in 1..NumShips : ships'[i].type = Order[i] /\ ships'[i].cells = C(Order[i])
  BY <1>1, <1>4, OrderOfTypes
<1>6. CellsOf(ships') \subseteq Cells
  BY <1>2, <1>4, <1>5 DEF CellsOf
<1>7. TypeOK'
  <2>1. Len(ships') <= NumShips
    BY <1>5, OrderOfTypes
  <2> QED
    BY <1>0, <1>1, <1>5, <1>6, <2>1 DEF TypeOK
<1>8. GridIsFleet'
  <2>1. ASSUME NEW i \in 1..NumShips, NEW j \in 1..NumShips, i # j
        PROVE  ships'[i].cells \cap ships'[j].cells = {}
    <3>1. Order[i] # Order[j] /\ Order[i] \in Types /\ Order[j] \in Types
      BY <2>1, OrderOfTypes
    <3> QED
      BY <1>3, <1>5, <3>1
  <2> QED
    BY <1>1, <1>5, <2>1 DEF GridIsFleet
<1>9. FlagsInv'
  BY <1>1, <1>5, OrderOfTypes DEF FlagsInv
<1>10. SentFleetWhole'
  BY <1>0, <1>1 DEF SentFleetWhole
<1> QED
  BY <1>7, <1>8, <1>9, <1>10 DEF Inv

\* All types are on the array, which has no more places than there are types:
\* it holds each once.
LEMMA ReadyStep ==
  ASSUME Inv, Ready
  PROVE  Inv'
<1>0. TypeOK /\ GridIsFleet /\ FlagsInv
  BY DEF Inv
<1>1. /\ ~overrun /\ placed = Types
      /\ sent' = [i \in DOMAIN ships |-> ships[i].type]
      /\ UNCHANGED <<screen, occupied, ships, overrun, placed, selected, enabled,
                     readyOn, opened>>
  BY DEF Ready, Editing, board, widgets
<1>2. /\ ships \in Seq(Ships) /\ Len(ships) <= NumShips
      /\ DOMAIN ships = 1..Len(ships) /\ Len(ships) \in Nat
  BY <1>0 DEF TypeOK
<1>3. sent' \in Seq(Types) /\ Len(sent') = Len(ships)
  <2>1. \A i \in 1..Len(ships) : ships[i].type \in Types
    <3>1. \A i \in 1..Len(ships) : ships[i] \in Ships
      BY <1>2
    <3>2. \A s \in Ships : s.type \in Types
      BY DEF Ships
    <3> QED
      BY <3>1, <3>2
  <2> QED
    BY <1>1, <1>2, <2>1
<1>4. TypeOK'
  BY <1>0, <1>1, <1>3 DEF TypeOK
<1>5. GridIsFleet' /\ FlagsInv'
  BY <1>0, <1>1 DEF GridIsFleet, FlagsInv, CellsOf
<1>6. SentFleetWhole'
  <2> SUFFICES ASSUME opened = "match"
               PROVE  /\ Len(sent') = NumShips
                      /\ \A t \in Types : \E i \in DOMAIN sent' : sent'[i] = t
    BY <1>1 DEF SentFleetWhole
  <2>1. \A t \in Types : \E i \in DOMAIN sent' : sent'[i] = t
    BY <1>0, <1>1 DEF FlagsInv
  <2>2. Len(ships) >= NumShips
    <3>1. sent' \in [1..Len(ships) -> Types]
      BY <1>3
    <3>2. sent' \in Surjection(1..Len(ships), Types)
      BY <2>1, <3>1 DEF Surjection
    <3>3. IsFiniteSet(1..Len(ships)) /\ Cardinality(1..Len(ships)) = Len(ships)
      <4>1. \A n \in Nat : IsFiniteSet(1..n) /\ Cardinality(1..n) = n
        BY FS_Interval
      <4> QED
        BY <1>2, <4>1
    <3>4. Cardinality(Types) <= Cardinality(1..Len(ships))
      BY <3>2, <3>3, FS_Surjection
    <3> QED
      BY <3>3, <3>4, OrderOfTypes
  <2> QED
    BY <1>2, <1>3, <2>1, <2>2, OrderOfTypes
<1> QED
  BY <1>4, <1>5, <1>6 DEF Inv

-----------------------------------------------------------------------------
(* The invariant and the theorems.                                         *)

LEMMA InvInit == Init => Inv
<1> SUFFICES ASSUME Init
             PROVE  Inv
  OBVIOUS
<1>1. DOMAIN ships = {} /\ Len(ships) = 0
  BY DEF Init
<1>2. TypeOK
  <2>1. ships \in Seq(Ships) /\ sent \in Seq(Types)
    BY DEF Init, None
  <2>2. selected \in Types /\ 0 <= NumShips
    BY OrderOfTypes DEF Init
  <2> QED
    BY <1>1, <2>1, <2>2 DEF Init, TypeOK
<1>3. CellsOf(ships) = {}
  BY <1>1 DEF CellsOf
<1> QED
  BY <1>1, <1>2, <1>3 DEF Init, Inv, GridIsFleet, FlagsInv, SentFleetWhole

LEMMA InvNext == Inv /\ [Next]_vars => Inv'
<1> SUFFICES ASSUME Inv, [Next]_vars
             PROVE  Inv'
  OBVIOUS
<1>1. CASE MatchStart \/ VsBot
  BY <1>1, EnterStep
<1>2. CASE Leave \/ MatchReady \/ MatchEnd \/ PlacementAccepted
           \/ (\E t \in Types : SelectShip(t)) \/ UNCHANGED vars
  BY <1>2, QuietStep
<1>3. ASSUME NEW t \in Types, ClearShip(t)
      PROVE  Inv'
  BY <1>3, ClearShipStep
<1>4. ASSUME NEW pos \in Cells, NEW orient \in Orientations, PlaceShipAt(pos, orient)
      PROVE  Inv'
  BY <1>4, PlaceStep
<1>5. ASSUME NEW f \in RandomFleets, RandomPlaceAllShips(f)
      PROVE  Inv'
  BY <1>5, RandomizeStep
<1>6. CASE ClearAllShips
  BY <1>6, ClearAllStep
<1>7. CASE Ready
  BY <1>7, ReadyStep
<1> QED
  BY <1>1, <1>2, <1>3, <1>4, <1>5, <1>6, <1>7 DEF Next

LEMMA InvAlways == Spec => []Inv
BY InvInit, InvNext, PTL DEF Spec

\* The screen keeps its types; above all, ships_count never passes the length
\* of the array unless the overrun is noted.
THEOREM TypeCorrect == Spec => []TypeOK
<1>1. Inv => TypeOK
  BY DEF Inv
<1> QED
  BY <1>1, InvAlways, PTL

\* After every sequence of placing, removing, clearing and randomizing the
\* grid is the union of the ships, and no two of them share a cell.
THEOREM GridIsItsFleet == Spec => []GridIsFleet
<1>1. Inv => GridIsFleet
  BY DEF Inv
<1> QED
  BY <1>1, InvAlways, PTL

\* READY for a match sends one ship of each type and nothing twice, although
\* the flags it looks at are kept apart from the ships.
THEOREM SentFleetsWhole == Spec => []SentFleetWhole
<1>1. Inv => SentFleetWhole
  BY DEF Inv
<1> QED
  BY <1>1, InvAlways, PTL
=============================================================================
