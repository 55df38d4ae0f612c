SPECIFICATION FairAlertingSpec
CONSTANTS
  d1 = d1
  s1 = s1
  Task = {d1}
  Churn <- MCChurn
  Workers = 1
  CorrelatedThreshold = 1
  CorrelatedWindow = 1
  DedupWindow = 1
  TaskRetries = 1
  MaxRedeliveries = 0
  MaxEvents = 1
  MaxTime = 0
  Message = {m1, m2}
  NoAnomaly = NoAnomaly
  Sub = {s1}
  Severity <- MCSeverity
  SeverityMin <- MCSeverityMin
  TypesOf <- MCTypesOf
  MaxRetries = 0
  DispatchRetries = 0
  DispatchRedeliveries = 0
  MaxRequests = 1
CHECK_DEADLOCK FALSE
INVARIANTS
  RetryReachesFailedTarget
  AlertsRepeatOnlyByOverlap
PROPERTIES
  ImplementsDispatch
  EveryAnomalyAnswered
