SPECIFICATION Spec
CONSTANTS
  Workers = {w1}
  LAS = TRUE
  NumWorkerCoros = 2
  DispatchRingSize = 4
  DispatchRingDequeuePeriod = 3
  TxQueueBurstSize = 1
  TxDequeuePeriod = 2
  ReturnRingBurstSize = 2
  TxRingSize = 1
  TxMbufPoolSize = 5
  U16 = 5
  ServicedQuanta = {0}
  MaxQuanta = 2
  MaxPackets = 6
INVARIANTS CorosPartitioned IdleCorosPollSoon DiesOnlyOfRefusals PreemptibleWhileIdle
PROPERTIES SqFollowsQuanta LeastServedFirst
CHECK_DEADLOCK FALSE
