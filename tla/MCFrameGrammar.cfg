SPECIFICATION GSpec
CONSTANTS
  Byte = {0, 1, 2, 3}
  Sof = 3
  Version = 1
  MaxPayload = 1
  Crc <- MCCrc
  Timeout = 2
  Word = 3
  Capacity = 1
  MaxCount = 1
  MaxInput = 8
  Width = 8
  Polynomial = {0, 1, 2}
  MaxData = 12
CHECK_DEADLOCK FALSE
INVARIANTS
  ParsesByGrammar
  CountersTellLosses
