SPECIFICATION SessionFairSpec
CONSTANTS
  Modes = {"plain", "extended"}
  Crossing = TRUE
PROPERTY DetachesImmediately
CHECK_DEADLOCK FALSE
