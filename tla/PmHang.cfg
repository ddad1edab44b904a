CONSTANTS
  MaxPid = 2
  Applications = {"game"}
  Sysmodules = {"dep"}
  Dependencies <- OnDep
  ExitAlone = FALSE
  LoadFails = FALSE
  Requests = {"launch", "process", "application"}
  OneTerminator = FALSE
  MaxRequests = 3
SPECIFICATION ApplicationsFairSpec
PROPERTIES TerminationEnds
CHECK_DEADLOCK FALSE
