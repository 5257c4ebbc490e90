SPECIFICATION Spec
CONSTANTS
  w1 = w1
  w2 = w2
  p1 = p1
  p2 = p2
  bob = bob
  Bob = Bob
  svc = svc
  i1 = i1
  Worker <- MCWorker
  Principal <- MCPrincipal
  Username <- MCUsername
  Identifier <- MCIdentifier
  None = None
  Lower <- MCLower
  Generated <- MCGenerated
  MaxVersion = 2
SYMMETRY MCSymmetry
INVARIANTS
  UsernamesDifferInMoreThanCase
  NoHalfAccounts
CHECK_DEADLOCK FALSE
