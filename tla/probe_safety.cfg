SPECIFICATION Spec
CONSTANTS
  Counts = {1, 2}
  Env <- AnyEnv
  MaxEvents = 3
INVARIANTS TypeOK RefreshScriptMounted SuspendedUntilProbed WantedReplicasRemembered
PROPERTIES JobOutlivesSuspension RevivedByCompletedProbe ImplementsProbedService
CHECK_DEADLOCK FALSE
