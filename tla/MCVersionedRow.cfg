SPECIFICATION RowSpec
CONSTANTS
  Worker = {w1, w2, w3}
  name = name
  deletedAt = deletedAt
  lastLogin = lastLogin
  Tracked = {name, deletedAt}
  Untracked = {lastLogin}
  DeletedAt = deletedAt
  MaxTick = 3
SYMMETRY WorkerSymmetry
INVARIANTS
  VersionIdentifiesContent
PROPERTIES
  NoLostUpdate
  VersionTellsChange
CHECK_DEADLOCK FALSE
