\* A timer of eight ticks and a sensor task that returns just before it has
\* gone round: every start phase, every echo length, every interrupt delay.
SPECIFICATION HSpec
CONSTANTS
  TickWord = 8
  TicksPerCm = 2
  ThresholdCm = 1
  WindowTicks = 7
INVARIANTS
  ResultIsTrueWidth
PROPERTIES
  ImplementsRanging
