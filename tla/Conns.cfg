SPECIFICATION FairSpec
CONSTANTS
  c1 = c1  c2 = c2  c3 = c3
  None = None
  Conns <- TwoConns
  Fds = {1, 2}
  Room = 1
INVARIANTS
  TypeOK
  EntryServed
PROPERTIES
  RouterReleased
  LostErased
\* All clients may leave the server alone.
CHECK_DEADLOCK FALSE
