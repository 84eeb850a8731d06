SPECIFICATION MCFairSpec
CONSTANTS
  Runs <- MCSingle
  Passes = {p1, p2}
  None = None
  MaxActive = 2
  MaxRevision = 5
  MaxStops = 1
CHECK_DEADLOCK FALSE
PROPERTY PromotionSettles
