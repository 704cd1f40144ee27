SPECIFICATION Spec
CONSTANTS
  c1 = c1  c2 = c2  c3 = c3  m1 = m1
  Nobody = Nobody
  Users <- PairUsers
  Matches <- PairMatches
  P1 <- PairP1
  P2 <- PairP2
  Conns <- ThreeConns
  Leavers = {}
  Switchers <- ThreeConns
  MaxObj = 1
  Fleet = 1
  Resubmit = FALSE
  Requests = {"draw", "resign"}
INVARIANTS
  TypeOK
  RecordedWinnerAnnounced
  FreedAfterEnd
  VerdictsJustified
  NoSilentRemoval
  RestingMatchesPlayable
  NoSecondEnd
SYMMETRY ConnSymmetry
\* The server may be left alone by all clients.
CHECK_DEADLOCK FALSE
