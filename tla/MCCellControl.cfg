SPECIFICATION OSpec
CONSTANTS
  Word = 7
  MaxPassMs = 1
  StepPeriod = 2
  NearEchoMs = 1
  Period <- MCPeriod
INVARIANTS
  SensorInStep
  BlockedIsCold
  HeldButtonNeverStarts
  OneTransitionPerPress
PROPERTIES
  
  TripIsJustified
  PressHonoured
