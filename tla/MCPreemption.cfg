SPECIFICATION FairSpec
CONSTANTS
  w1 = w1
  w2 = w2
  c1 = c1
  c2 = c2
  c3 = c3
  Workers = {w1, w2}
  Coros = {c1, c2, c3}
  ThreadOf <- MCThreadOf
  JobTypes <- MCJobTypes
  Tables = {0}
  MaxVersion = 2
  MaxFile = 2
  Free = Free
  Background = Background
INVARIANTS
  TypeOK
  Exclusion
  ReadsKept
  OneCompaction
PROPERTY JobsFinish
