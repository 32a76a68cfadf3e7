SPECIFICATION Spec
CONSTANTS
  CoreQubits = {0, 1}
  FirstId = 3
  Settings <- MCSettings
  Gates <- MCGates
  FileInstructions <- MCFileInstructions
  compact_sides <- MCSides
  MaxGates = 1
  CnotTypes = {"BELL_BASED", "ZX_WITH_MBM_CONTROL_FIRST", "ZX_WITH_MBM_TARGET_FIRST"}
  FileIds = {100}
INVARIANTS AncillaPlaceable
CHECK_DEADLOCK FALSE
