SPECIFICATION Spec
CONSTANTS
  Counts = {1, 2}
  Env <- TouchEnv
  MaxEvents = 2
INVARIANTS OriginalReplicasKept
CHECK_DEADLOCK FALSE
