SPECIFICATION Spec
CONSTANTS
  c1 = c1
  c2 = c2
  c3 = c3
  r1 = r1
  r2 = r2
  s1 = s1
  s2 = s2
  p1 = p1
  p2 = p2
  Server = {p1, p2}
  None = None
  Conn = {c1, c2}
  Ip = {r1, r2}
  Speaker = {s1, s2}
  Registered <- AllRegistered
  Peer <- PeerOf
  Matches <- TwoRouters
  MaxMessages = 1
  MaxFailures = 0
  MaxRestarts = 0
CHECK_DEADLOCK FALSE
INVARIANTS
  ConnectedWhileOpen
