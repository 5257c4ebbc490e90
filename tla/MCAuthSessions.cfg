SPECIFICATION SessionsSpec
CONSTANTS
  Worker = {w1, w2}
  AuthSession = {s1}
  Duration = {1}
  MaxNow = 3
  MaxStamp = 3
  PrincipalLife <- MCPrincipalLife
SYMMETRY Symmetry
INVARIANTS
  NoSessionOutlivesCut
  FilterMatchesCheck
