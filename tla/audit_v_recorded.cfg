SPECIFICATION Spec
CONSTANTS
  Handlers = {h1}
  Payloads = {p1}
  Window = 1
  NSinks = 2
  Buffered = {1}
  Empty = Empty
  Torn = Torn
  Env <- FailingEnv
  MaxEvents = 3
INVARIANTS SuppressedWasRecorded
CHECK_DEADLOCK FALSE
