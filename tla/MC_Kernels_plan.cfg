CONSTANTS
  Idle = Idle
  Ignored = Ignored
  Neutral = Neutral
  MaxArrivals = 4
  Intent <- MC_Intent
  Place <- MC_Place
  Calls <- MC_Calls
  Journeys <- MC_Journeys
  Nodes <- MC_Nodes
  Gifts <- MC_Gifts
  Drawings <- MC_Drawings
  Regions <- MC_Regions
  Pushes <- MC_Pushes
  Boards <- MC_Boards
  Asks <- MC_Asks
  Worlds <- MC_Worlds
  Me = Me
  Nobody = Nobody
  Shares = {50, 100}
  Rings = 2
  MaxBattles = 2
SPECIFICATION PlanSpec
INVARIANTS MoveContract SearchesExact FairTurns TargetsFit WavesHonest MatchGranted
PROPERTIES ReliefEnds
CHECK_DEADLOCK FALSE
