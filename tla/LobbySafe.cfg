SPECIFICATION Spec
CONSTANTS
  c1 = c1  c2 = c2
  ann = ann  bob = bob
  Nobody = Nobody
  Users <- TwoUsers
  Conns <- TwoConns
  Viewers = {}
  Losable <- TwoConns
  Reusable <- OneConn
  MaxChallenge = 2
SYMMETRY UserSymmetry
INVARIANTS
  TypeOK
  EntryOwnerAlive
  AcceptedOnce
  InGameHasMatch
\* All clients may leave the server alone.
CHECK_DEADLOCK FALSE
