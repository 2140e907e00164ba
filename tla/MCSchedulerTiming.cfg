SPECIFICATION JSpec
CONSTANTS
  N = 3
  Word = 11
  MaxPassMs = 2
  Period <- MCPeriod
  MaxJitter = 2
INVARIANTS
  NeverTooLate
  JitterIsTrue
PROPERTIES
  NeverTooEarly
