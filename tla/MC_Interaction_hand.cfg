SPECIFICATION InteractionSpec
CONSTANTS
  Cell <- MCCell
  Edge <- MCEdge
  Lands <- MCLands
  OrderCells <- MCOrderCells
  FrontOf <- MCFrontOf
  Footprints <- MCFootprints
  Ids = {1, 2}
  MaxKeys = 2
  MaxInFlight = 2
  MaxCommands = 2
  MaxUpdates = 2
CHECK_DEADLOCK FALSE
INVARIANTS PreviewFresh NothingStuck
PROPERTIES SentWhole ConfirmedAsShown
