---------------------------- MODULE MCGameScreen ----------------------------
(* Instances of GameScreen for TLC.                                        *)
EXTENDS GameScreen

TwoPlayers == {"ann", "bob"}
At(r, c, o) == [pos |-> <<r, c>>, orient |-> o]

\* A destroyer on a 2 x 2 board: ann aims at it (and misses when
\* she hits a cell twice), bob at water.
OneType == {"destroyer"}
OneLength == [t \in OneType |-> 2]
SmallFleets == {[t \in OneType |-> At(0, 0, "horizontal")]}
FewAims == [u \in TwoPlayers |->
  IF u = "ann" THEN {<<0, 0>>, <<0, 1>>} ELSE {<<1, 1>>}]

\* Three destroyers side by side on a 3 x 3 board.
ThreeTypes == {"d1", "d2", "d3"}
ThreeLengths == [t \in ThreeTypes |-> 2]
TouchingFleets ==
  {[t \in ThreeTypes |->
      CASE t = "d1" -> At(1, 0, "vertical")
        [] t = "d2" -> At(1, 1, "vertical")
        [] t = "d3" -> At(0, 2, "vertical")]}
FourShots == {<<1, 0>>, <<1, 1>>, <<0, 2>>, <<1, 2>>}
OnlyAnnShoots == [u \in TwoPlayers |-> IF u = "ann" THEN FourShots ELSE {}]
Nobody1 == {}
OneQuitter == {"ann"}
OneEditor == {"bob"}
=============================================================================
