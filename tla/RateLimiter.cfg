SPECIFICATION Spec
CONSTANTS
  a1 = a1
  a2 = a2
  health = health
  Process = {a1, a2}
  Client = {"10.0.0.1"}
  Path = {health}
  Class <- ClassOf
  Limit <- SmallLimits
  Window = 3
  MaxStall = 1
  MaxRequests = 6
  MaxTime = 7
CHECK_DEADLOCK FALSE
INVARIANTS
  TypeOK
  AdmittedWithinLimit
PROPERTIES
  IsSlidingWindow
