------------------------------ MODULE MCLobby ------------------------------
(* Instances of Lobby for TLC.                                             *)
EXTENDS Lobby, TLC

CONSTANTS c1, c2, ann, bob

TwoUsers == {ann, bob}
OneConn == {c1}
TwoConns == {c1, c2}
UserSymmetry == Permutations(TwoUsers)
=============================================================================
