SPECIFICATION MCSpec
CONSTANTS
  m1 = m1
  m2 = m2
  p1 = p1
  w1 = w1
  w2 = w2
  Runs <- ThreeRuns
  Mains <- TwoMains
  First = m1
  Workers <- TwoWorkers
  Pages = 2
  MaxFaults = 1
  None = None
INVARIANT NeededIsKept
PROPERTIES ImplementsStore ReferenceStaysEligible GarbageGoes
CHECK_DEADLOCK FALSE
