SPECIFICATION FairSpec
CONSTANTS
  Passes = {p1}
  Texts <- MCTexts
  InProgress <- MCInProgress
  MaxRevision = 2
  MaxAttempts = 2
  Lease = 1
  WriteTime = 1
  ReleaseDelay = 1
  ReadRetry <- MCReadRetry
  Starting = "starting"
  Superseded = "superseded"
  NoLease = NoLease
PROPERTY LockIsReleased
