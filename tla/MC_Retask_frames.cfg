SPECIFICATION RetaskSpec
CONSTANTS
  a = a
  b = b
  o1 = o1
  o2 = o2
  p1 = p1
  p2 = p2
  r1 = r1
  s1 = s1
  d1 = d1
  Player = {1, 2}
  Cell = {a, b}
  Terrain <- Maps
  Order = {o1, o2}
  Packet = {p1, p2}
  Route = {r1}
  Source = {s1}
  Destination = {d1}
  OrderRow <- Orders
  PacketRow <- Packets
  RouteRow <- Routes
  SourceRow <- Sources
  DestinationRow <- Destinations
  NoRow = NoRow
  Direct = Direct
  MaxBatch = 2
INVARIANTS ProjectionExact FlowsExact SelectionExact
CHECK_DEADLOCK FALSE
