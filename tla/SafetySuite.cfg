SPECIFICATION SuiteSpec
CONSTANTS
  Sessions = {s1, s2, s3}
  Servers = {v1}
  ServiceNames = {"svc"}
  PortNames = {"port"}
  MaxPorts = 2
  PortSizes = {1}
  PoolSize = 4
  Lists = {free, used, waiting}
  FreeList = free
  MaxTaken = 6
  MaxPid = 2
  Applications = {"app"}
  ModuleTitles = {m1, m2, m3}
  CxiModules = {m1, m2}
  AppTitles = {a1}
  Launchers = {l1, l2}
  Handles = {h1, h2}
  NoTitle = NoTitle
  Overlap = FALSE
  Sysmodules = {"dep"}
  Dependencies <- OnDep
  ExitAlone = TRUE
  LoadFails = TRUE
  Requests = {"launch", "sysmodule", "debug", "process", "application", "unregister", "chainload"}
  OneTerminator = FALSE
  MaxRequests = 2
  FreePages = {1, 2, 56, 57, 58, 70, 71, 281, 282, 283}
  TopModes = {"800px", "2d", "3d"}
  CardFails = TRUE
  Processes = {21, 22, 23}
  Syscalls = {c1, c2}
  ArmCode = {4, 8, 12}
  ThumbCode = {16, 18, 20}
  MaxBreakpoint = 5
  MaxMasked = 2
  MaxDebug = 2
  DebugPids = {30}
  FetchResults = {TRUE}
  CheatTitles = {"t1", "t2"}
  MaxLaunched = 2
  MaxFileLines = 7
  BufferSize = 9
  DescriptionSize = 2
  CountSize = 3
  MaxLines = 5
  MaxRepeat = 2
  Sizes = {0, 1, 9}
  StackValues = 4
  CountValues = 8
  LineValues = 8
  EmuIndices = {0, 1}
  Presses = {{}, {"SELECT"}, {"L1"}, {"RIGHT"}, {"R1", "L1", "A", "UP"}}
  AutobootModes = {0, 2}
  TlncLengths = {0, 24}
INVARIANTS
  SuiteTypeOK
  RequestsAccounted
  SavedInOrder
  SectionLeavesNothing
  LinesAccounted
  
  UnlistedNotSignalled
  BreakpointsMatchMemory
  ClientsKeepTheirContexts
  ProcessOfItsTitle
  CheatsActAsWritten
  FirmlaunchKeepsNand
PROPERTY ListsImplementSequences
CHECK_DEADLOCK FALSE
