SPECIFICATION Spec
CONSTANTS
  Size = 3
  Types <- ThreeTypes
  Length <- ThreeLengths
  Players <- TwoPlayers
  Nobody = Nobody
  Fleets <- TouchingFleets
  Aims <- OnlyAnnShoots
  Quitters <- Nobody1
  Editors <- Nobody1
  Inbox = 2
  Outbox = 2
INVARIANTS
  HitsShownAreHits
CHECK_DEADLOCK FALSE
