SPECIFICATION MatchSpec
CONSTANTS
  Player = {1, 2}
  Cell <- MarchCells
  Edges <- MarchEdges
  Position <- MarchPositions
  MaxOrders = 2
  Capacity <- MarchCapacity
  Rough <- MarchRough
  Throughput <- MarchOne
  Frontage <- MarchTwo
  Uphill = {}
  UphillBps = 7500
  Lethality = 10000
  RequiredControl = 4
  StartOwner <- MarchOwner
  StartInfantry <- MarchInfantry
  Shares = {10000}
  MaxLegs = 1
  MaxRecruits = 1
  Harness = FALSE
INVARIANTS ClaimsBacked NeverFrozen
PROPERTIES InfantryConserved ClosedForGood LedgerIsLedger
