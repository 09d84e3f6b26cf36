SPECIFICATION MatchSpec
CONSTANTS
  Player = {1, 2, 3}
  Cell <- StarCells
  Edges <- StarEdges
  Position <- StarPositions
  MaxOrders = 2
  Capacity <- StarCapacity
  Rough <- StarRough
  Throughput <- StarTwo
  Frontage <- StarTwo
  Uphill <- StarHill
  UphillBps = 7500
  Lethality = 5000
  RequiredControl = 3
  StartOwner <- StarOwner
  StartInfantry <- StarInfantry
  Shares = {5000, 10000}
  MaxLegs = 1
  MaxRecruits = 1
  Harness = FALSE
INVARIANTS CapacityRespected DebtFollowsOwner ControlIsRecount
