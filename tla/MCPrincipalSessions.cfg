SPECIFICATION SystemSpec
CONSTANTS
  Worker = {w1, w2}
  Login = {l1}
  AuthSession = {s1}
  Duration = {1}
  Lifetime = {}
  MaxNow = 3
  MaxOps = 5
SYMMETRY WorkerSymmetry
INVARIANTS
  NoSessionOutlivesRestriction
PROPERTIES
  KeepsSessionsPromise
CHECK_DEADLOCK FALSE
