\* A timer of two base-3 digits, so that its high byte changes in the middle
\* of readings and executions; an overrun takes more than 2 ticks.
SPECIFICATION PSpec
CONSTANTS
  TickWord = 9
  OneMs = 2
  FrameTicks = 7
  InitialDelay = 1
  MaxLag = 1
  ByteWord = 3
  PeriodTicks = 2
  MaxBody = 3
  MaxOverruns = 1
  MaxBusy = 4
INVARIANTS
  ProfileIsExact
PROPERTIES
  PulseFits
  NoDrift
