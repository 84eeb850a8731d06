SPECIFICATION MCSpec
CONSTANTS
  Passes = {p1, p2}
  Texts <- MCTexts
  InProgress <- MCInProgress
  MaxRevision = 2
  MaxAttempts = 2
  Lease = 1
  WriteTime = 1
  ReleaseDelay = 1
  ReadRetry <- MCReadRetry
  Starting = "starting"
  Superseded = "superseded"
  NoLease = NoLease
  Handlers = {h1, h2}
  LastAttempt = 2
  MaxHalts = 1
SYMMETRY MCBothSymmetry
INVARIANTS
  TypeOK
  OneWriteInFlight
  FenceExcludesSender
  CompleteIsShown
  PassedByPlan
PROPERTIES
  ImplementsFeed
  ImplementsChecks
\* The attempts of a workflow end.
CHECK_DEADLOCK FALSE
