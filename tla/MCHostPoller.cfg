SPECIFICATION Spec
CONSTANTS
  Cycle <- MCCycle
  Header = 2
  Body <- MCBody
  SeqWord = 7
  BufferSize = 4
  LineSize = 4
  MaxTroubles = 2
PROPERTIES
  OnlyCurrentAnswers
  PollerRecovers
  SilenceIsShown
