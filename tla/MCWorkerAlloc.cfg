SPECIFICATION Spec
CONSTANTS
  Workers = {w1}
  LAS = FALSE
  NumWorkerCoros = 1
  DispatchRingSize = 2
  DispatchRingDequeuePeriod = 2
  TxQueueBurstSize = 1
  TxDequeuePeriod = 2
  ReturnRingBurstSize = 2
  TxRingSize = 1
  TxMbufPoolSize = 4
  U16 = 4
  ServicedQuanta = {0}
  MaxQuanta = 0
  MaxPackets = 7
INVARIANT TxAllocSucceeds
CHECK_DEADLOCK FALSE
