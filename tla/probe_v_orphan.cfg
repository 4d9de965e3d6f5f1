SPECIFICATION FairSpec
CONSTANTS
  Counts = {1, 2}
  Env <- DryRunEnv
  MaxEvents = 1
PROPERTIES OrphanJobDeleted
CHECK_DEADLOCK FALSE
