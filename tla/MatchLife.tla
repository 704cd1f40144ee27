----------------------------- MODULE MatchLife -----------------------------
(***************************************************************************)
(* What the server promises about a match, without its threads, locks and  *)
(* tables: a game begins once, is closed once, and is not closed before    *)
(* its players were told a verdict; a verdict is reached only while the    *)
(* game is on, by each party at most once; and nothing is announced or     *)
(* kept as the result of a match but a verdict that was reached.  Module   *)
(* MatchServer implements it (gameplay_handler.cpp).                       *)
(***************************************************************************)

CONSTANTS
  Games,     \* the games that may be played
  Matches,   \* the matches, each with one result
  Verdicts,  \* records with a match m, a party by, and a winner
  Nobody     \* the winner of a draw

VARIABLES
  phase,    \* of each game: "unborn", "playing" or "over"
  decided,  \* verdicts reached for each game
  told,     \* verdicts the players of each game were told
  result    \* the winner of each match that is kept, Nobody if none

lifeVars == <<phase, decided, told, result>>

LifeInit ==
  /\ phase = [g \in Games |-> "unborn"]
  /\ decided = [g \in Games |-> {}]
  /\ told = [g \in Games |-> {}]
  /\ result = [m \in Matches |-> Nobody]

Begin(g) ==
  /\ phase[g] = "unborn"
  /\ phase' = [phase EXCEPT ![g] = "playing"]
  /\ UNCHANGED <<decided, told, result>>

Decide(g) ==
  /\ phase[g] = "playing"
  /\ \E v \in decided'[g] \ decided[g] :
       /\ v \in Verdicts
       /\ \A w \in decided[g] : w.by # v.by
       /\ decided' = [decided EXCEPT ![g] = @ \cup {v}]
  /\ UNCHANGED <<phase, told, result>>

Announce(g, v) ==
  /\ v \notin told[g]
  /\ told' = [told EXCEPT ![g] = @ \cup {v}]
  /\ UNCHANGED <<phase, decided, result>>

Keep(g, v) ==
  /\ v.winner # Nobody
  /\ result' = [result EXCEPT ![v.m] = v.winner]
  /\ UNCHANGED <<phase, decided, told>>

Close(g) ==
  /\ phase[g] = "playing" /\ told[g] # {}
  /\ phase' = [phase EXCEPT ![g] = "over"]
  /\ UNCHANGED <<decided, told, result>>

LifeNext ==
  \E g \in Games :
    \/ Begin(g) \/ Decide(g) \/ Close(g)
    \/ \E v \in decided[g] : Announce(g, v) \/ Keep(g, v)

LifeSpec == LifeInit /\ [][LifeNext]_lifeVars
============================================================================
