SPECIFICATION FairSpec
CONSTANTS
  i1 = i1
  w1 = w1
  w2 = w2
  Images <- OneImage
  Workers <- OneWorker
  MaxAttempt = 1
  Burst = 2
  MaxFaults = 2
PROPERTIES SubmissionSettles OldStageIsDeleted
CHECK_DEADLOCK FALSE
