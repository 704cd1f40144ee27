SPECIFICATION FairSpec
CONSTANTS
  c1 = c1  c2 = c2
  ann = ann  bob = bob
  Nobody = Nobody
  Users <- TwoUsers
  Conns <- TwoConns
  Viewers <- OneConn
  Losable <- OneConn
  Reusable <- OneConn
  MaxChallenge = 1
PROPERTIES
  LostPlayerForgotten
\* All clients may leave the server alone.
CHECK_DEADLOCK FALSE
