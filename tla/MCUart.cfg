SPECIFICATION Spec
CONSTANTS
  TxSize = 4
  RxSize = 4
  Byte = {"x", "y"}
  Blocks <- MCBlocks
  MaxOverflow = 2
INVARIANTS
  NoLostWakeup
PROPERTIES
  TxImplementsFifo
  RxImplementsFifo
  
