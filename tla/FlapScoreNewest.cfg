SPECIFICATION ScoreSpec
CONSTANTS
  FlapCount = {0, 4}
  Neighbor = {n1, n2}
  NoNeighbor = NoNeighbor
  Period = 2
  MaxLatency = 0
  MaxRedeliveries = 0
  MaxIngested = 2
  MaxBeats = 1
  Lookback = 3
  Threshold = 1
  Warning = 1
  Critical = 2
  Precision = 1000
CHECK_DEADLOCK FALSE
INVARIANTS
  NewestPointJudged
