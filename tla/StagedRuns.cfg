SPECIFICATION MCSpec
CONSTANTS
  i1 = i1
  w1 = w1
  w2 = w2
  Images <- OneImage
  Workers <- TwoWorkers
  MaxAttempt = 2
  Burst = 2
  MaxFaults = 1
INVARIANTS OriginalsKept
PROPERTIES OnlyNewestSeals ImplementsSubmissions
ACTION_CONSTRAINT Narrow
CHECK_DEADLOCK FALSE
