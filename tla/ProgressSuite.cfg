SPECIFICATION SuiteFairSpec
CONSTANTS
  Pids = {pmProcess, appProcess}
  Section0 = {pmProcess}
  Notifications = {n1, n2}
  RingSize = 2
  MaxSubscribed = 1
  Services = {0, 1}
  NbStaticBuffers = 6
  CounterSize = 8
  SleepAlone = TRUE
  Customers = {k1, k2}
  NumServices = 2
  MaxSessionsOf = 2
  Callers = {c1, c2, c3}
  Ender = c1
  TerminateIdle = TRUE
  FreePages = {282, 400}
  TopModes = {"800px", "2d", "3d"}
  CardFails = TRUE
  MaxLines = 4
  MaxRepeat = 2
  Sizes = {0, 1}
  StackValues = 4
  CountValues = 8
  LineValues = 8
  Modes = {"plain", "extended"}
  Crossing = FALSE
INVARIANTS
  PermitsMatchPending
  PxiPassesOnce
  RightHandler
  SuccessMeansWholeFiles
  
PROPERTIES
  SuccessReachesAll
  RingsImplementQueues
  
  SlotImplementsHandOver
  ServersEnd
  MenuComesBack
  SessionsProgress
CHECK_DEADLOCK FALSE
