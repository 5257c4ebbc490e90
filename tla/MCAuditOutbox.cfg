SPECIFICATION Spec
CONSTANTS
  Thread = {t1, t2}
  Event = {e1, e2}
  Principal = {p}
  Nobody = Nobody
  Name = {"redis", "kafka"}
INVARIANTS
  OutboxAccounts
  SinksAgree
  ChecksumHoldsWithActor
PROPERTIES
  CommittedIsOffered
