SPECIFICATION Spec
CONSTANTS
  FreePages = {70}
  TopModes = {"800px", "2d", "3d"}
  CardFails = FALSE
INVARIANT SmallBufferSuffices
CHECK_DEADLOCK FALSE
