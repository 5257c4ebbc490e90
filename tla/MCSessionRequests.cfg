SPECIFICATION Spec
CONSTANTS
  Request = {r1, r2}
  Session = {s1, s2, s3, s4}
  NoSession = NoSession
  Limit = 1
SYMMETRY Symmetry
INVARIANTS
  TypeOK
  AnsweredMeansEnded
PROPERTIES
  EndedStaysEnded
  LimitedLoginEvicts
