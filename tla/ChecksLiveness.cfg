SPECIFICATION MCFairSpec
CONSTANTS
  Passes = {p1}
  Texts <- MCTexts
  InProgress <- MCInProgress
  MaxRevision = 2
  MaxAttempts = 2
  Lease = 1
  WriteTime = 1
  ReleaseDelay = 1
  ReadRetry <- MCReadRetry
  Starting = "starting"
  Superseded = "superseded"
  NoLease = NoLease
  Handlers = {h1}
  LastAttempt = 2
  MaxHalts = 1
PROPERTIES
  NewestResultSettles
  ListedLockIsReleased
  EndedAttemptSettles
\* The attempts of a workflow end.
CHECK_DEADLOCK FALSE
