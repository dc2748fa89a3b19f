SPECIFICATION FairSpec
CONSTANTS
  Workers = {w1}
  LAS = FALSE
  NumWorkerCoros = 2
  DispatchRingSize = 4
  DispatchRingDequeuePeriod = 2
  TxQueueBurstSize = 2
  TxDequeuePeriod = 2
  ReturnRingBurstSize = 2
  TxRingSize = 1
  TxMbufPoolSize = 6
  U16 = 4
  ServicedQuanta = {0, 5}
  MaxQuanta = 2
  MaxPackets = 4
INVARIANTS TypeOK BuffersFit CorosPartitioned NoResponseStuck
  IdleCorosPollSoon NewJobsFirst OneHolderPerBuffer TxBuffersAccounted
PROPERTIES SqFollowsQuanta QueuedIsServed
