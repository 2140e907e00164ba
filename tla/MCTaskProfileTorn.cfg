SPECIFICATION PSpec
CONSTANTS
  TickWord = 9
  OneMs = 2
  FrameTicks = 7
  InitialDelay = 1
  MaxLag = 1
  ByteWord = 3
  PeriodTicks = 2
  MaxBody = 3
  MaxOverruns = 1
  MaxBusy = 4
INVARIANT
  MaximumWasObserved
