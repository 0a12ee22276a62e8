SPECIFICATION BothSpec
CONSTANTS
  Minute = 2
  Retention = 3
  RollupKeep = 5
  MaxPoints = 2
  Horizon = 9
  MaxFailures = 1
  Value = {1, 2}
  Zero = 0
  HistoryLen = 3
  SamplePeriod = 2
  MaxClock = 12
INVARIANTS
  HistoryFaithful
  ChartTrue
PROPERTIES
  SamplesCounted
CHECK_DEADLOCK FALSE
