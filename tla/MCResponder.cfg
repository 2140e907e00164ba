SPECIFICATION Spec
CONSTANTS
  Order <- MCOrder
  SeqNo = {1, 2}
  Size <- MCSize
  TxCapacity = 4
  Windows = {1, 4}
CHECK_DEADLOCK FALSE
INVARIANTS
  AnsweredSameRun
PROPERTIES
  AnsweredOnce
  
