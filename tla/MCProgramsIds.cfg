SPECIFICATION Spec
CONSTANTS
  CoreQubits = {0, 1}
  FirstId = 3
  Settings <- MCSettings
  Gates <- MCGates
  FileInstructions <- MCFileInstructions
  compact_sides <- MCSides
  MaxGates = 3
  CnotTypes = {"BELL_BASED", "ZX_WITH_MBM_CONTROL_FIRST", "ZX_WITH_MBM_TARGET_FIRST"}
  FileIds = {3}
INVARIANTS KnownPatches
CHECK_DEADLOCK FALSE
