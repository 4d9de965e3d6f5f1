SPECIFICATION Spec
CONSTANTS
  Groups <- MCGroups
  Teams <- MCTeams
  Points <- MCPoints
  Names <- MCNames
  Buckets <- MCBuckets
  Containers = {c1, c2}
  Images = {i1}
  Durations <- MCDurations
  Configs <- MCConfigs
  Suffix <- MCSuffix
  ReasonRequired <- MCReasonRequired
  ToTeam <- MCToTeam
  Volume <- MCVolume
  Extra <- MCExtra
  Shared <- MCShared
  SharedBucket <- MCSharedBucket
  Standard <- MCStandard
  NoGroup = NoGroup
  NoImage = NoImage
  NoTime = NoTime
  BadDur = BadDur
  Env <- AnyEnv
  MaxEvents = 3
  MaxTime = 2
INVARIANTS TypeOK WantedMounted RightBucket ActsForItsGroup ExpiredLeavesNothing RefusedOnlyAfterRename RevivedKeepsAccess
CHECK_DEADLOCK FALSE
