------------------------------- MODULE Board -------------------------------
(***************************************************************************)
(* The geometry of a board (common/src/game_state.cpp): which cells a ship *)
(* covers and whether it fits.  The server's match and the client's ship   *)
(* placement screen both use class Board.                                  *)
(***************************************************************************)
EXTENDS Naturals, FiniteSets

CONSTANTS
  Size,    \* BOARD_SIZE
  Types,   \* the ship types, NUM_SHIPS of them
  Length   \* getShipLength

ASSUME BoardAssumption ==
  /\ Size \in Nat \ {0}
  /\ IsFiniteSet(Types) /\ Types # {}
  /\ Length \in [Types -> 1..Size]

Cells == (0..Size-1) \X (0..Size-1)
Orientations == {"horizontal", "vertical"}
CellStates == {"empty", "ship", "miss", "hit"}

\* The cell a ship at pos reaches after i steps.
CellAt(pos, orient, i) ==
  IF orient = "vertical" THEN <<pos[1] + i, pos[2]>> ELSE <<pos[1], pos[2] + i>>

Covers(type, pos, orient) ==
  {CellAt(pos, orient, i) : i \in 0..Length[type]-1}

\* The ship does not leave the board (pos is on it).
Fits(type, pos, orient) ==
  IF orient = "horizontal" THEN pos[2] + Length[type] <= Size
                           ELSE pos[1] + Length[type] <= Size

\* A ship type somewhere on the board: pos is a cell, and it fits.
Spots(type) ==
  {s \in [pos : Cells, orient : Orientations] : Fits(type, s.pos, s.orient)}
=============================================================================
