SPECIFICATION FairSpec
CONSTANTS
  p = p
  q = q
  Patches = {p, q}
  Instructions <- StreamInstructions
  EDPC = FALSE
  DEFAULT_MAX_WAIT <- Unlimited
  MaxInstructions = 3
  MaxSteps = 2
  max_no_progress_slices = 2
  Timed = TRUE
INVARIANTS ExhaustedIsComplete RetryBudget OneAdvancePerSlice
PROPERTIES RunsInPatchOrder Terminates
CHECK_DEADLOCK FALSE
