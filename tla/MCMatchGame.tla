---------------------------- MODULE MCMatchGame ----------------------------
(* Instances of MatchGame for TLC: a 2 x 2 board with a long and a short   *)
(* ship for each player.                                                   *)
EXTENDS MatchGame

TwoPlayers == {"ann", "bob"}
TwoTypes == {"destroyer", "raft"}
TwoLengths == [t \in TwoTypes |-> IF t = "destroyer" THEN 2 ELSE 1]
=============================================================================
