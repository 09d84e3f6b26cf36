SPECIFICATION LobbySpec
CONSTANTS
  Identity = {a, b, c}
  NoOne = none
  Preset = {dev64}
  DevPreset = dev64
  PlayerCounts = {2, 3}
  MaxSeats = 3
  MaxConnections = 2
  MaxReconnects = 1
  Faults = TRUE
SYMMETRY Same
INVARIANTS LobbyInv PresenceIsReal
PROPERTIES SeatKept ConfigSettled
