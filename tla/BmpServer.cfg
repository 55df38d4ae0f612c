SPECIFICATION FairSpec
CONSTANTS
  c1 = c1
  c2 = c2
  c3 = c3
  r1 = r1
  r2 = r2
  s1 = s1
  s2 = s2
  p1 = p1
  p2 = p2
  Server = {p1, p2}
  None = None
  Conn = {c1, c2}
  Ip = {r1, r2}
  Speaker = {s1, s2}
  Registered <- NobodyRegistered
  Peer <- PeerOf
  Matches <- TwoRouters
  MaxMessages = 2
  MaxFailures = 2
  MaxRestarts = 2
CHECK_DEADLOCK FALSE
INVARIANTS
  TypeOK
  NoGaps
  TableHoldsNoEndedHandler
  StaleOnlyByFailure
  UnservedOnlyByCrash
PROPERTIES
  ClosedIsNoticed
