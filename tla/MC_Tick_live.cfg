SPECIFICATION MatchSpec
CONSTANTS
  Player = {1, 2}
  Cell <- LineCells
  Edges <- LineEdges
  Position <- LinePositions
  MaxOrders = 2
  Capacity <- RaceCapacity
  Rough <- RaceRough
  Throughput <- One
  Frontage <- Two
  Uphill = {}
  UphillBps = 7500
  Lethality = 5000
  RequiredControl = 3
  StartOwner <- RaceOwner
  StartInfantry <- RaceInfantry
  Shares = {5000, 10000}
  MaxLegs = 1
  MaxRecruits = 1
  Harness = TRUE
INVARIANTS LedgerInv
PROPERTIES OrdersEnd TamperedParked
