SPECIFICATION Spec
CONSTANTS
  Clients = {c1, c2}
  Requests <- SomeRequests
  PoolSize <- OneConnectionEach
  ReadTimeout = 1
  WriteTimeout = 2
  HandlerTimeout = 1
  ShutdownTimeout = 1
  MaxConnections = 2
  MaxFaults = 1
INVARIANTS
  ServerInv
  NoPanic
  AnswersAreCounted
  LostIsLate
  ClosedIsOverdue
PROPERTIES
  Stops
  Answered
  Serves
CHECK_DEADLOCK FALSE
