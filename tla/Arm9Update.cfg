SPECIFICATION Arm9Spec
CONSTANTS
  EmuIndices = {0, 1}
  Presses = {{}, {"SELECT"}, {"L1"}, {"RIGHT"}, {"R1", "L1", "A", "UP"}}
  AutobootModes = {0, 2}
  TlncLengths = {0, 24}
INVARIANT ForcesLastUsed
CHECK_DEADLOCK FALSE
