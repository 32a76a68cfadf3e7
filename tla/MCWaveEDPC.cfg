SPECIFICATION StreamSpec
CONSTANTS
  p = p
  q = q
  Patches = {p, q}
  Instructions <- EDPCInstructions
  EDPC = TRUE
  GrowthMoves = TRUE
  DEFAULT_MAX_WAIT <- Unlimited
  MaxInstructions = 3
  MaxSteps = 2
  max_no_progress_slices = 1
  Timed = TRUE
INVARIANTS Custody
PROPERTIES RunsInPatchOrder GuardIsTold Terminates
CHECK_DEADLOCK FALSE
