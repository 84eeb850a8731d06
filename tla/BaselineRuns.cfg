SPECIFICATION MCSpec
CONSTANTS
  Runs <- MCReruns
  Passes = {p1, p2}
  None = None
  MaxActive = 1
  MaxRevision = 4
  MaxStops = 0
CHECK_DEADLOCK FALSE
INVARIANTS
  OpenRunIsCurrent
  AcceptedIsFinal
PROPERTY
  ImplementsHistory
SYMMETRY MCSymmetry
