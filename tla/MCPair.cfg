SPECIFICATION Spec
CONSTANTS
  A = A
  B = B
  NoToken = NoToken
  Shapes <- ThreeShapes
  Size = 1
  Grace = 1
  ChaseWindow = 2
  MakerTimeout = 1
  MaxBought = 1
  MaxDeaths = 1
INVARIANT FillsReachTheBook
PROPERTIES  NakedLegUnwound
