SPECIFICATION Spec
CONSTANTS
  Size = 2
  Types <- TwoTypes
  Length <- TwoLengths
  Players <- TwoPlayers
  Nobody = Nobody
INVARIANTS
  TypeOK
  CountersMatchGrid
  WinnerSankFleet
PROPERTIES
  ImplementsObject
\* A match that is over stays over.
CHECK_DEADLOCK FALSE
