---------------------------- MODULE MatchObject ----------------------------
(***************************************************************************)
(* What a match object is to the threads of the server: whether it takes   *)
(* moves, whose turn it is, and how many ship cells each player has left,  *)
(* the cells of ships that loadShips dropped included.  Module MatchServer *)
(* uses its objects in this way; module MatchGame, with boards, ships and  *)
(* counters (common/src/game_state.cpp), implements it.                    *)
(***************************************************************************)
EXTENDS Naturals

CONSTANTS
  Users,    \* who may play
  Nobody,   \* whose turn it is before the start
  Fleet     \* ship cells of a full fleet

VARIABLES
  live,     \* MatchState::is_active
  turn,     \* MatchState::current_turn_player_id
  afloat    \* ship cells left of each player

objectVars == <<live, turn, afloat>>

ObjectInit ==
  /\ live = FALSE
  /\ turn = Nobody
  /\ afloat = [u \in Users |-> Fleet]

\* An object starts once, with whole fleets.
Begin ==
  /\ turn = Nobody
  /\ live' = TRUE
  /\ turn' \in Users
  /\ UNCHANGED afloat

\* A shot that finds no ship hands the turn over.
Pass ==
  /\ live
  /\ turn' \in Users \ {turn}
  /\ UNCHANGED <<live, afloat>>

\* A hit takes one cell of another player, keeps the turn, and ends the play
\* when no cell is left.
Strike ==
  /\ live
  /\ \E v \in Users \ {turn} :
       /\ afloat[v] > 0
       /\ afloat' = [afloat EXCEPT ![v] = @ - 1]
       /\ live' = (afloat'[v] # 0)
  /\ UNCHANGED turn

ObjectNext == Begin \/ Pass \/ Strike

ObjectSpec == ObjectInit /\ [][ObjectNext]_objectVars
============================================================================
