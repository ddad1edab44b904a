SPECIFICATION Spec
CONSTANTS
  FbPages = 2
  ShotPages = 3
  FreePages = {1, 3}
  MaxCaptures = 1
  MaxExtraLeaves = 1
  MenuMethods = {"screenshot", "brightness", "power"}
  SliderMoves = TRUE
  MenuOpens = TRUE
  SystemSleeps = TRUE
  ErrorsThrown = TRUE
  CardFails = TRUE
INVARIANT TypeOK
INVARIANT DrawLockExclusive
INVARIANT AppsFrozenIffOpen
 
INVARIANT OpenSessionHasCache
INVARIANT SavedScreenIntact
INVARIANT ClosedSessionLeavesNothing
PROPERTY SharedChangesUnderLock
CHECK_DEADLOCK FALSE
