SPECIFICATION FairSpec
CONSTANTS
  SAs = {"s1", "s2"}
  UserSAs = {"s1", "s2"}
  Groups = {"dev"}
  Configured = {"dev"}
  ReasonRequired = {}
  MaxDuration <- MCMaxDuration
  Durations = {1, BadDur}
  Reasons = {TRUE}
  Members <- MCMembers
  NoKey = NoKey
  NoGroup = NoGroup
  NoDur = NoDur
  BadDur = BadDur
  Env <- LiveEnv
  MaxEvents = 3
  MaxTime = 0
PROPERTIES OnlyOwnBinding DeletionCompletes BindingEstablished
CHECK_DEADLOCK FALSE
