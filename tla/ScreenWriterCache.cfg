SPECIFICATION Spec
CONSTANTS
  FbPages = 2
  ShotPages = 3
  FreePages = {3}
  MaxCaptures = 2
  MaxExtraLeaves = 2
  MenuMethods = {"screenshot", "brightness", "power"}
  SliderMoves = TRUE
  MenuOpens = FALSE
  SystemSleeps = TRUE
  ErrorsThrown = FALSE
  CardFails = FALSE
PROPERTY WriterDeallocatesCache
CHECK_DEADLOCK FALSE
