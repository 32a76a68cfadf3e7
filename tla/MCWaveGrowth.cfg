SPECIFICATION StreamSpec
CONSTANTS
  p = p
  q = q
  Patches = {p, q}
  Instructions <- WaveInstructions
  EDPC = FALSE
  GrowthMoves = FALSE
  DEFAULT_MAX_WAIT <- Unlimited
  MaxInstructions = 4
  MaxSteps = 1
  max_no_progress_slices = 1
  Timed = FALSE
INVARIANT AssertedCounts
CHECK_DEADLOCK FALSE
