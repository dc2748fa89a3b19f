SPECIFICATION FairSpec
CONSTANTS
  Workers = {w1, w2}
  LAS = FALSE
  NumWorkerCoros = 1
  DispatchRingSize = 2
  U16 = 8
  MaxPackets = 2
  RxQueueBurstSize = 2
  CheckInPeriod = 1
  Policy = "random"
  IntMax = 7
  DispatchRingDequeuePeriod = 1
  TxQueueBurstSize = 2
  TxDequeuePeriod = 2
  ReturnRingBurstSize = 2
  TxRingSize = 1
  TxMbufPoolSize = 6
  ServicedQuanta = {0}
  MaxQuanta = 1
INVARIANT EveryBufferAccounted
PROPERTIES KeepsPromise DispatcherSpec WorkerSpec EveryRequestSettled
