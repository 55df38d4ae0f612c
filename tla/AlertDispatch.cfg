SPECIFICATION FairSpec
CONSTANTS
  a1 = a1
  s1 = s1
  s2 = s2
  churn = churn
  correlated = correlated
  NoAnomaly = NoAnomaly
  Anomaly <- MCAnomaly
  Sub <- MCSub
  Type <- MCType
  SeverityOf <- MCSeverityOf
  TypeOf <- MCTypeOf
  SeverityMin <- MCSeverityMin
  TypesOf <- MCTypesOf
  Task = {t1, t2}
  MaxRetries = 1
  TaskRetries = 1
  MaxRedeliveries = 1
CONSTRAINT OperatorsWait
CHECK_DEADLOCK FALSE
INVARIANTS
  TypeOK
  RowsMatchPosts
  StopsOnSuccess
  AllOrNothing
  CommittedIsComplete
  RowsRepeatOnlyAfterCommit
PROPERTIES
  EveryTaskSettles
