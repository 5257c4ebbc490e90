SPECIFICATION Spec
CONSTANTS
  Worker = {w1, w2}
  Asking = {w1}
  r1 = r1
  r2 = r2
  r3 = r3
  Role = {r1, r2, r3}
  NoRole = NoRole
  System = {}
  Assignable = {r1, r3}
  Holds = {r1}
  Grants = {r2}
  Hierarchies <- MCHierarchies
  Policy = {p1}
  Rules <- MCRules
  Depth = 1
  MaxWrites = 2
INVARIANTS
  TypeOK
  QuietDecisionIsRight
  DenyIsRespected
  CyclesNeedARace
PROPERTIES
  RequestsEnd
