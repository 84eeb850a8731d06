SPECIFICATION FairQueueSpec
CONSTANTS
  r1 = r1
  r2 = r2
  Rows = {r1}
  Items = {{r1}}
  CopiedRows = {}
  Commands = {c1, c2}
  Actors = {reviewer}
  Workers = {w1, u1}
  Consumers = {w1}
  MaxRevision = 0
  MaxAttempts = 2
  NotSaved = NotSaved
  Copied = Copied
  None = None
PROPERTY DecisionsSettle
\* The system stops when every command is settled and the run is closed.
CHECK_DEADLOCK FALSE
