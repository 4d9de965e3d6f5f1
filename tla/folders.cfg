SPECIFICATION FairSpec
CONSTANTS
  Main = main
  Clients = {c1, c2}
  Buckets = {b1, b2}
  Folders = {"top", "sub"}
  Path <- MCPath
  NoBucket = NoBucket
  Env <- AnyEnv
  MaxEvents = 3
INVARIANTS TypeOK OneAtATime FoldersMade
PROPERTIES LockReleased RequestAnswered
CHECK_DEADLOCK FALSE
