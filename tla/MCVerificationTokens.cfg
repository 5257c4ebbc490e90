SPECIFICATION Spec
CONSTANTS
  Worker = {w1, w2}
  Token = {t1, t2}
  None = None
  MaxAttempts = 2
  Cooldown = 1
  Ttl = {2}
  MaxNow = 2
SYMMETRY Symmetry
INVARIANTS
  GuessesBounded
PROPERTIES
  IsOneTime
CHECK_DEADLOCK FALSE
