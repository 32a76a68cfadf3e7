SPECIFICATION DagSpec
CONSTANTS
  p = p
  q = q
  Patches = {p, q}
  Instructions <- DagInstructions
  EDPC = FALSE
  DEFAULT_MAX_WAIT = 1
  MaxInstructions = 4
  MaxSteps = 1
  MAX_RETRIES = 1
INVARIANTS GraphIsOrder WalksAreSafe
PROPERTIES RunsInPatchOrder Terminates
CHECK_DEADLOCK FALSE
