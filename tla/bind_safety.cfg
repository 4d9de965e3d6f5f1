SPECIFICATION Spec
CONSTANTS
  SAs = {"s1"}
  UserSAs = {"s1"}
  Groups = {"dev", "adm", "odd"}
  Configured = {"dev", "adm"}
  ReasonRequired = {"adm"}
  MaxDuration <- MCMaxDuration
  Durations = {1, 2, NoDur}
  Reasons = {TRUE, FALSE}
  Members <- MCMembers
  NoKey = NoKey
  NoGroup = NoGroup
  NoDur = NoDur
  BadDur = BadDur
  Env <- AnyEnv
  MaxEvents = 3
  MaxTime = 1
INVARIANTS TypeOK NoOrphanBinding BindingWasAccepted LimitedAccess
PROPERTIES ImplementsGroupAccess
CHECK_DEADLOCK FALSE
