SPECIFICATION TrailSpec
CONSTANTS
  Worker = {w1, w2}
  Field <- MCField
  State <- MCTwoStates
  Absent = Absent
  NoState = NoState
  Interval = 2
  MaxEvents = 4
SYMMETRY Symmetry
INVARIANTS
  TrailTypeOK
  HistoryIsConnected
  SavesNeverShareVersion
  QuietHistoryIsTrue
  DeadlocksTakeADelete
CHECK_DEADLOCK FALSE
