SPECIFICATION Spec
CONSTANTS
  Workers = {w1, w2}
  DispatchRingSize = 2
  RxQueueBurstSize = 3
  CheckInPeriod = 2
  NumWorkerCoros = 2
  Policy = "power_two"
  U16 = 2
  IntMax = 7
  ServicedQuanta = {0}
  MaxPackets = 6
SYMMETRY Symmetry
INVARIANTS NeverUnderestimates CheckInSeesCurrentVersion
