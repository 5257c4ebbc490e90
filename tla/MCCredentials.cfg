SPECIFICATION CredentialsSpec
CONSTANTS
  w1 = w1
  w2 = w2
  d1 = d1
  d2 = d2
  c1 = c1
  c2 = c2
  r1 = r1
  p1 = p1
  p2 = p2
  Client <- MCClient
  Device <- MCDevice
  Code <- MCCode
  Row <- MCRow
  Enrolled <- MCEnrolled
  Password <- MCPassword
  None = None
  Initial = p1
  CodeCount = 1
  HistoryCount = 1
  MaxFailedAttempts = 2
  MaxRequests = 3
INVARIANTS
  CredentialsTypeOK
  FailuresAreCounted
PROPERTIES
  OnlyUsableCodesPass
  WithdrawnStaysWithdrawn
  ChangeReplacesWhatItProved
CHECK_DEADLOCK FALSE
