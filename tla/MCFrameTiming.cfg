SPECIFICATION FSpec
CONSTANTS
  Byte = {0, 1, 3}
  Sof = 3
  Version = 1
  MaxPayload = 1
  Crc <- MCCrc
  Timeout = 6
  Word = 9
  Capacity = 5
  MaxCount = 1
  Latency = 3
  Busy = 1
  MaxNoise = 5
  Frames <- MCFrames
INVARIANTS
  FrameAfterSilenceAccepted
  RingNeverOverflows
