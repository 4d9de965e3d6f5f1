SPECIFICATION FairSpec
CONSTANTS
  Counts = {1, 2}
  Env <- UpdatingEnv
  MaxEvents = 4
PROPERTIES UndisturbedSuspensionEnds ProbedJobDeleted
CHECK_DEADLOCK FALSE
