SPECIFICATION Spec
CONSTANTS
  Functions <- MCFunctions
  CommitInterval = 12
  E2ELengths = {1, 15}
  FuncCallThreshold = 2
  MaxTrip = 5
  Trips = {1, 4, 11, 23}
INVARIANTS
  TypeOK
  AssertsHold
  LoopSpacing
  GapBounded
  E2EExact
