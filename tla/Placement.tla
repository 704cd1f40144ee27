----------------------------- MODULE Placement -----------------------------
(***************************************************************************)
(* The ship placement screen of the client: the board being edited, the    *)
(* ships_placed flags beside it, and which buttons can be pressed          *)
(* (client/src/ui_ship_placement.cpp, the screen in ui_screens.cpp, class  *)
(* Board of common/src/game_state.cpp).  The ships of the board are what   *)
(* READY sends to the server.                                              *)
(*                                                                         *)
(* Everything runs in the GTK main loop, so a step is a click or a message *)
(* of the server.  The orientation can be toggled at any time and is       *)
(* chosen with the click.                                                  *)
(***************************************************************************)
EXTENDS Board, Sequences

CONSTANTS
  Order    \* the ship types in the order of enum ShipType

ASSUME PlacementAssumption ==
  /\ Order \in Seq(Types) /\ Len(Order) = Cardinality(Types)
  /\ \A t \in Types : \E i \in 1..Len(Order) : Order[i] = t

VARIABLES
  screen,    \* "lobby" (or the main menu), "placement" or "game"
  occupied,  \* Board::grid: the cells that are not CELL_EMPTY
  ships,     \* Board::ships up to ships_count
  overrun,   \* has placeShip written behind the array ships?
  placed,    \* ships_placed: the types marked [OK]
  selected,  \* selected_ship_type
  enabled,   \* the types whose button is sensitive
  readyOn,   \* is READY sensitive?
  sent,      \* the ship types of the last SHIP_PLACEMENT, None before
  opened     \* history: what opened the screen last, "match" or "bot"

board == <<occupied, ships, overrun>>
widgets == <<enabled, readyOn>>
vars == <<screen, board, placed, selected, widgets, sent, opened>>

-----------------------------------------------------------------------------
None == <<>>
NumShips == Len(Order)
Ships == [type : Types, cells : SUBSET Cells]
CellsOf(s) == UNION {s[i].cells : i \in DOMAIN s}

\* Mutant: the bounds are not checked.
ValidAnywhere(type, pos, orient) == Covers(type, pos, orient) \cap occupied = {}

\* isValidPlacement: on the board, and no cell taken
Valid(type, pos, orient) ==
  Fits(type, pos, orient) /\ Covers(type, pos, orient) \cap occupied = {}

\* The ships without the i-th.
Without(s, i) == [j \in 1..Len(s)-1 |-> IF j < i THEN s[j] ELSE s[j+1]]

\* The first type that is not marked, or the one selected now.
NextType(marked) ==
  IF marked = Types THEN selected
  ELSE Order[CHOOSE i \in 1..NumShips :
               Order[i] \notin marked /\ \A j \in 1..i-1 : Order[j] \in marked]

\* updateShipStatusUI, with the flags as they are after the step.
UpdateShipStatusUI ==
  /\ enabled' = Types \ placed'
  /\ readyOn' = (placed' = Types)

ClearBoard == occupied' = {} /\ ships' = <<>> /\ UNCHANGED overrun

\* A new placement screen: every ship button can be pressed, READY cannot.
NewScreen ==
  /\ screen' = "placement"
  /\ enabled' = Types /\ readyOn' = FALSE

Init ==
  /\ screen = "lobby"
  /\ occupied = {} /\ ships = <<>> /\ overrun = FALSE
  /\ placed = {} /\ selected = Order[1]
  /\ enabled = {} /\ readyOn = FALSE
  /\ sent = None /\ opened = "match"

-----------------------------------------------------------------------------
(* Entering and leaving the screen.                                        *)

\* MATCH_START resets the board, the flags and the selection.
MatchStart ==
  /\ screen = "lobby"
  /\ ClearBoard /\ placed' = {} /\ selected' = Order[1] /\ sent' = None
  /\ NewScreen /\ opened' = "match"

\* "PLAY VS BOT" resets the board only.
VsBot ==
  /\ screen = "lobby"
  /\ ClearBoard /\ sent' = None
  /\ NewScreen /\ opened' = "bot"
  /\ UNCHANGED <<placed, selected>>

\* EXIT.  Board and flags stay as they are.
Leave ==
  /\ screen = "placement"
  /\ screen' = "lobby"
  /\ UNCHANGED <<board, placed, selected, widgets, sent, opened>>

\* MATCH_READY, after the server has accepted a placement.
MatchReady ==
  /\ screen = "placement" /\ sent # None
  /\ screen' = "game"
  /\ UNCHANGED <<board, placed, selected, widgets, sent, opened>>

MatchEnd ==
  /\ screen = "game"
  /\ screen' = "lobby"
  /\ UNCHANGED <<board, placed, selected, widgets, sent, opened>>

-----------------------------------------------------------------------------
(* Editing.  After an overrun the program's state is anybody's guess, and  *)
(* the model stops.                                                        *)

Editing == screen = "placement" /\ ~overrun

\* A button that is not grayed out.
SelectShip(type) ==
  /\ Editing /\ type \in enabled
  /\ selected' = type
  /\ UNCHANGED <<screen, board, placed, widgets, sent, opened>>

\* A click on the board: placeShipAt with Board::placeShip, which does not
\* compare ships_count with the size of the array.
PlaceShipAt(pos, orient) ==
  /\ Editing /\ Valid(selected, pos, orient)
  /\ LET cells == Covers(selected, pos, orient) IN
       /\ occupied' = occupied \cup cells
       /\ IF Len(ships) < NumShips
            THEN /\ ships' = Append(ships, [type |-> selected, cells |-> cells])
                 /\ UNCHANGED overrun
            ELSE overrun' = TRUE /\ UNCHANGED ships
  /\ placed' = placed \cup {selected}
  /\ selected' = NextType(placed')
  /\ UpdateShipStatusUI
  /\ UNCHANGED <<screen, sent, opened>>

\* Mutant: the cells of the removed ship stay taken.
ClearShipKeepsCells(type) ==
  /\ Editing
  /\ ships' = LET I == {i \in DOMAIN ships : ships[i].type = type} IN
              IF I = {} THEN ships
              ELSE Without(ships, CHOOSE i \in I : \A j \in I : i <= j)
  /\ placed' = placed \ {type}
  /\ UpdateShipStatusUI
  /\ UNCHANGED <<screen, occupied, overrun, selected, sent, opened>>

\* Mutant: the flag stays when the ship goes.
ClearShipKeepsFlag(type) ==
  LET I == {i \in DOMAIN ships : ships[i].type = type}
      first == CHOOSE i \in I : \A j \in I : i <= j
  IN
  /\ Editing
  /\ ships' = IF I = {} THEN ships ELSE Without(ships, first)
  /\ occupied' = IF I = {} THEN occupied ELSE occupied \ ships[first].cells
  /\ UNCHANGED placed
  /\ UpdateShipStatusUI
  /\ UNCHANGED <<screen, overrun, selected, sent, opened>>

\* The [X] beside a type: clearShip with Board::removeShip, which removes the
\* first ship of the type.  The selection stays.
ClearShip(type) ==
  LET I == {i \in DOMAIN ships : ships[i].type = type}
      first == CHOOSE i \in I : \A j \in I : i <= j
  IN
  /\ Editing
  /\ ships' = IF I = {} THEN ships ELSE Without(ships, first)
  /\ occupied' = IF I = {} THEN occupied ELSE occupied \ ships[first].cells
  /\ placed' = placed \ {type}
  /\ UpdateShipStatusUI
  /\ UNCHANGED <<screen, overrun, selected, sent, opened>>

ClearAllShips ==
  /\ Editing
  /\ ClearBoard /\ placed' = {} /\ selected' = Order[1]
  /\ UpdateShipStatusUI
  /\ UNCHANGED <<screen, sent, opened>>

\* A fleet that randomPlacement can produce: all types, on cells of their
\* own.  (A type for which 1000 attempts all fail is left out.)
RandomFleets ==
  {f \in [Types -> [pos : Cells, orient : Orientations]] :
     /\ \A t \in Types : f[t] \in Spots(t)
     /\ \A s, t \in Types : s # t =>
          Covers(s, f[s].pos, f[s].orient) \cap Covers(t, f[t].pos, f[t].orient) = {}}

\* RANDOMIZE.  The selection stays.
RandomPlaceAllShips(f) ==
  /\ Editing
  /\ ships' = [i \in 1..NumShips |->
                 [type |-> Order[i],
                  cells |-> Covers(Order[i], f[Order[i]].pos, f[Order[i]].orient)]]
  /\ occupied' = CellsOf(ships')
  /\ placed' = Types
  /\ UpdateShipStatusUI
  /\ UNCHANGED <<screen, overrun, selected, sent, opened>>

-----------------------------------------------------------------------------
(* READY.                                                                  *)

\* SHIP_PLACEMENT takes the array as it is (of which sent keeps the types).
Ready ==
  /\ Editing /\ readyOn /\ placed = Types
  /\ sent' = [i \in DOMAIN ships |-> ships[i].type]
  /\ UNCHANGED <<screen, board, placed, selected, widgets, opened>>

\* The acknowledgement disables READY, until the next edit.
PlacementAccepted ==
  /\ screen = "placement" /\ sent # None /\ readyOn
  /\ readyOn' = FALSE
  /\ UNCHANGED <<screen, board, placed, selected, enabled, sent, opened>>

Next ==
  \/ MatchStart \/ VsBot \/ Leave \/ MatchReady \/ MatchEnd
  \/ \E t \in Types : SelectShip(t) \/ ClearShip(t)
  \/ \E pos \in Cells, orient \in Orientations : PlaceShipAt(pos, orient)
  \/ ClearAllShips
  \/ \E f \in RandomFleets : RandomPlaceAllShips(f)
  \/ Ready \/ PlacementAccepted

Spec == Init /\ [][Next]_vars

-----------------------------------------------------------------------------
(* Properties.                                                             *)

\* Every variable holds a value of its type.
TypeOK ==
  /\ screen \in {"lobby", "placement", "game"}
  /\ occupied \subseteq Cells
  /\ ships \in Seq(Ships) /\ Len(ships) <= NumShips
  /\ overrun \in BOOLEAN
  /\ placed \subseteq Types /\ selected \in Types
  /\ enabled \subseteq Types /\ readyOn \in BOOLEAN
  /\ sent \in Seq(Types) /\ opened \in {"match", "bot"}

\* The grid is the union of the ships, and no two ships share a cell, after
\* any sequence of edits: removing a ship gives back its own cells only.
GridIsFleet ==
  ~overrun =>
    /\ occupied = CellsOf(ships)
    /\ \A i, j \in DOMAIN ships : i # j => ships[i].cells \cap ships[j].cells = {}

\* What the client sends for a match is a whole fleet: one ship of each type
\* and nothing twice, although types can be placed twice in between.  (PLAY
\* VS BOT keeps the flags of an earlier placement and breaks it.)
SentFleetWhole ==
  sent # None /\ opened = "match" =>
    /\ Len(sent) = NumShips
    /\ \A t \in Types : \E i \in DOMAIN sent : sent[i] = t

-----------------------------------------------------------------------------
(* What a comment in the repository says and the code does not do.         *)

\* updateShipStatusUI grays out the buttons of placed ships: no type is on
\* the board twice.
PlacedOnce ==
  ~overrun /\ \A i, j \in DOMAIN ships : i # j => ships[i].type # ships[j].type
=============================================================================
