SPECIFICATION Spec
CONSTANTS
  Worker = {w1, w2, w3}
  Credential = {c1, c2, c3, c4}
  Family = {f1, f2}
  None = None
  Ttl = {1}
  MaxNow = 1
SYMMETRY Symmetry
INVARIANTS
  OneLivePerFamily
  LineageIsChain
PROPERTIES
  ImplementsChain
