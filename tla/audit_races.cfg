SPECIFICATION FairSpec
CONSTANTS
  Handlers = {h1, h2}
  Payloads = {p1, p2, p3}
  Window = 2
  NSinks = 2
  Buffered = {1}
  Empty = Empty
  Torn = Torn
  Env <- AnyEnv
  MaxEvents = 4
INVARIANTS TypeOK SuppressedIsTried
PROPERTIES AnsweredIsStored ImplementsDedupWindow
CHECK_DEADLOCK FALSE
