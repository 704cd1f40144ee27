--------------------------- MODULE MCMatchServer ---------------------------
(* Instances of MatchServer for TLC.                                       *)
EXTENDS MatchServer, TLC

CONSTANTS c1, c2, c3, m1

\* One match between two users.
PairUsers == {"ann", "bob"}
PairMatches == {m1}
PairP1 == [m \in {m1} |-> "ann"]
PairP2 == [m \in {m1} |-> "bob"]

TwoConns == {c1, c2}
ThreeConns == {c1, c2, c3}
OneConn == {c1}

\* Connections are interchangeable.
ConnSymmetry == Permutations({c1, c2, c3})
=============================================================================
