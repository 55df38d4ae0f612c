SPECIFICATION Spec
CONSTANTS
  d1 = d1
  d2 = d2
  Task = {d1, d2}
  Churn <- NoChurn
  Workers = 2
  CorrelatedThreshold = 1
  CorrelatedWindow = 0
  DedupWindow = 0
  TaskRetries = 1
  MaxRedeliveries = 1
  MaxEvents = 1
  MaxTime = 1
CHECK_DEADLOCK FALSE
INVARIANTS
  TypeOK
  OneAlertPerRow
  DuplicatesOnlyByOverlap
