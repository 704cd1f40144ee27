---------------------------- MODULE MCPlacement ----------------------------
(* Instances of Placement for TLC.                                         *)
EXTENDS Placement

TwoTypes == {"destroyer", "raft"}
ThreeTypes == {"canoe", "raft", "buoy"}
Lengths2 == [t \in TwoTypes |-> IF t = "destroyer" THEN 2 ELSE 1]
Lengths3 == [t \in ThreeTypes |-> IF t = "canoe" THEN 2 ELSE 1]
Order2 == <<"destroyer", "raft">>
Order3 == <<"canoe", "raft", "buoy">>
=============================================================================
