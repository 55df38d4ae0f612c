SPECIFICATION Spec
CONSTANTS
  m1 = m1
  m2 = m2
  m3 = m3
  m4 = m4
  m5 = m5
  s1 = s1
  s2 = s2
  p1 = p1
  p2 = p2
  Stream <- AnyThenWithdrawal
  Message = {m1, m2, m3, m4, m5}
  NoMessage = NoMessage
  Speaker = {s1, s2}
  Registered <- NobodyRegistered
  Prefix = {p1, p2}
  Valid <- ValidMessages
  Nlri <- Announced
  Withdrawn <- Removed
  AsnFits <- SmallAsn
  AsnMatches <- SameAsn
  AddressMatches <- SameAddress
  Workers = 2
  TaskRetries = 1
  IngestRetries = 1
  MaxRedeliveries = 1
  MaxFailures = 0
  MaxTime = 1
CHECK_DEADLOCK FALSE
INVARIANTS
  DatedAsSent
