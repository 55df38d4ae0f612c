SPECIFICATION ScoreSpec
CONSTANTS
  FlapCount = {0, 1}
  Neighbor = {n1, n2}
  NoNeighbor = NoNeighbor
  Period = 2
  MaxLatency = 0
  MaxRedeliveries = 1
  MaxIngested = 2
  MaxBeats = 2
  Lookback = 4
  Threshold = 1
  Warning = 1
  Critical = 2
  Precision = 1000
SYMMETRY Symmetry
CHECK_DEADLOCK FALSE
INVARIANTS
  EachFlapInOneRollup
  FewSamplesNeverAlarm
  OutsideOnlyIfNewer
  SteadyAlarmsOnlyByRollup
