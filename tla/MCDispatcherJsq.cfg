SPECIFICATION Spec
CONSTANTS
  Workers = {w1, w2}
  DispatchRingSize = 4
  RxQueueBurstSize = 4
  CheckInPeriod = 1
  NumWorkerCoros = 1
  Policy = "jsq"
  U16 = 4
  IntMax = 9
  ServicedQuanta = {0}
  MaxPackets = 7
SYMMETRY Symmetry
CONSTRAINTS FewUnread RoundFits
INVARIANTS TypeOK EstimateExact TotalIsSum FreedNotQueued CheckInSeesCurrentVersion
PROPERTY DropsOnlyUnderFullLoad
