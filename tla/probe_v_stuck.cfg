SPECIFICATION FairSpec
CONSTANTS
  Counts = {1, 2}
  Env <- StatusEnv
  MaxEvents = 2
PROPERTIES SuspensionEnds
CHECK_DEADLOCK FALSE
