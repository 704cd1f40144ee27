SPECIFICATION Spec
CONSTANTS
  Size = 2
  Types <- ThreeTypes
  Length <- Lengths3
  Order <- Order3
INVARIANTS
  TypeOK
  SentFleetWhole
  GridIsFleet
