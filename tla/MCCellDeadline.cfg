SPECIFICATION DSpec
CONSTANTS
  Word = 7
  MaxPassMs = 1
  StepPeriod = 2
  NearEchoMs = 1
  WatchMs = 16
  Period <- MCPeriod
INVARIANTS
  OutputsDeadline
  ObstacleStopsCell
