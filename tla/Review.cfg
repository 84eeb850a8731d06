SPECIFICATION MCSpec
CONSTANTS
  r1 = r1
  r2 = r2
  Rows = {r1, r2}
  Items <- MCItems
  CopiedRows <- MCCopiedRows
  Commands = {c1, c2, c3}
  Actors = {reviewer}
  Workers = {w1}
  MaxRevision = 1
  NotSaved = NotSaved
  Copied = Copied
  None = None
  Shots = {s1, s2}
  d1 = d1
  d2 = d2
  d3 = d3
  Decisions = {d1, d2, d3}
  NoDecision = NoDecision
  MaxOthers = 1
  MaxFaults = 2
  MaxReads = 1
SYMMETRY MCSymmetry
INVARIANTS PromotedIsAccepted OneInForce ShownIsReal RefusalIsTrue
PROPERTIES DecidedAsShown ImplementsLedger
\* A page with no decision left may stop.
CHECK_DEADLOCK FALSE
