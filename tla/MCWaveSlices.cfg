SPECIFICATION StreamSpec
CONSTANTS
  p = p
  q = q
  Patches = {p, q}
  Instructions <- WaveInstructions
  EDPC = FALSE
  GrowthMoves = TRUE
  DEFAULT_MAX_WAIT <- Unlimited
  MaxInstructions = 4
  MaxSteps = 1
  max_no_progress_slices = 1
  Timed = FALSE
INVARIANTS TypeOK CountsExact Custody DoneIsDone SlowOnesWait
PROPERTIES RunsInPatchOrder
CHECK_DEADLOCK FALSE
