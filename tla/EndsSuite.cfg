CONSTANTS
  MaxPid = 2
  Applications = {"app", "game"}
  Sysmodules = {"dep"}
  Dependencies <- OnDep
  ExitAlone = TRUE
  LoadFails = FALSE
  Requests = {"launch", "process", "application", "unregister"}
  OneTerminator = TRUE
  MaxRequests = 3
  MaxLoads = 2
  OneAsker = TRUE
  LaunchAfterTask = TRUE
  KillsApps = FALSE
  RemountFails = FALSE
SPECIFICATION SuiteFairSpec
INVARIANTS
  OneApplication
  PluginHasItsMemory
PROPERTIES
  TerminationEnds
  KernelAnswered
CHECK_DEADLOCK FALSE
