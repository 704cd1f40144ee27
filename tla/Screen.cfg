SPECIFICATION FairSpec
CONSTANTS
  Size = 2
  Types <- OneType
  Length <- OneLength
  Players <- TwoPlayers
  Nobody = Nobody
  Fleets <- SmallFleets
  Aims <- FewAims
  Quitters <- OneQuitter
  Editors <- OneEditor
  Inbox = 3
  Outbox = 1
INVARIANTS
  TypeOK
  TurnBelief
  GameScreenHasMatch
  BoardsFollow
PROPERTIES
  TurnReachesPlayer
\* A match that is over stays over.
CHECK_DEADLOCK FALSE
