SPECIFICATION Spec
CONSTANTS
  Workers = {w1, w2}
  DispatchRingSize = 2
  RxQueueBurstSize = 2
  CheckInPeriod = 1
  NumWorkerCoros = 1
  Policy = "jsq"
  U16 = 16
  IntMax = 7
  ServicedQuanta = {0}
  MaxPackets = 4
PROPERTY ShortEnqueueForcesCheckIn
