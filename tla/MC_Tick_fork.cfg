SPECIFICATION MatchSpec
CONSTANTS
  Player = {1, 2}
  Cell <- ForkCells
  Edges <- ForkEdges
  Position <- ForkPositions
  MaxOrders = 2
  Capacity <- ForkCapacity
  Rough <- ForkRough
  Throughput <- ForkTwo
  Frontage <- ForkTwo
  Uphill <- ForkHill
  UphillBps = 7500
  Lethality = 5000
  RequiredControl = 4
  StartOwner <- ForkOwner
  StartInfantry <- ForkInfantry
  Shares = {5000, 10000}
  MaxLegs = 0
  MaxRecruits = 0
  Harness = FALSE
INVARIANTS LawfulAttacks WavesWhole
