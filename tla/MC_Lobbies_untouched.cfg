SPECIFICATION Spec
CONSTANTS
  LobbyId = {l}
  Database = {l}
  Identity = {a, b}
  PlayerCounts = {2}
  NoOne = none
  Service = service
  Strangers = FALSE
  NoDb = empty
  Request = {1, 2, 3, 4}
  Faults = FALSE
  Retries = FALSE
PROPERTIES LiveUntouched
