SPECIFICATION SuiteFairSpec
CONSTANTS
  FbPages = 2
  ShotPages = 3
  FreePages = {3}
  MaxCaptures = 3
  MaxExtraLeaves = 1
  MenuMethods = {"brightness"}
  SliderMoves = TRUE
  MenuOpens = TRUE
  SystemSleeps = TRUE
  ErrorsThrown = TRUE
  CardFails = FALSE
INVARIANT NeverDies
PROPERTY CaptureImplementsMailbox
PROPERTY TerminationCompletes
CHECK_DEADLOCK FALSE
