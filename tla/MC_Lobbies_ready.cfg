SPECIFICATION Spec
CONSTANTS
  LobbyId = {l}
  Database = {l}
  Identity = {a, b, c}
  PlayerCounts = {2, 3}
  NoOne = none
  Service = service
  Strangers = TRUE
  NoDb = empty
  Request = {1, 2, 3}
  Faults = TRUE
  Retries = FALSE
SYMMETRY Players
PROPERTIES DirectoryIsDirectory
INVARIANTS OpenIsReady
