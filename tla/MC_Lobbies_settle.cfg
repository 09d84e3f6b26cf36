SPECIFICATION Spec
CONSTANTS
  LobbyId = {k, l}
  Database = {k, l}
  Identity = {a, b}
  PlayerCounts = {2}
  NoOne = none
  Service = service
  Strangers = FALSE
  NoDb = empty
  Request = {1, 2, 3}
  Faults = FALSE
  Retries = TRUE
INVARIANTS DirectoryInv
PROPERTIES ProvisioningEnds AssignedForGood
