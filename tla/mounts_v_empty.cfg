SPECIFICATION Spec
CONSTANTS
  Groups <- MCGroups
  Teams <- MCTeams
  Points <- MCPoints
  Names <- MCNames
  Buckets <- MCBuckets
  Containers = {c1, c2}
  Images = {i1}
  Durations <- MCDurations
  Configs <- MCConfigs
  Suffix <- MCSuffix
  ReasonRequired <- MCReasonRequired
  ToTeam <- MCToTeam
  Volume <- MCVolume
  Extra <- MCExtra
  Shared <- MCShared
  SharedBucket <- MCSharedBucket
  Standard <- MCStandard
  NoGroup = NoGroup
  NoImage = NoImage
  NoTime = NoTime
  BadDur = BadDur
  Env <- CreateEnv
  MaxEvents = 1
  MaxTime = 2
INVARIANTS NoPrecreatorWithoutBuckets
CHECK_DEADLOCK FALSE
