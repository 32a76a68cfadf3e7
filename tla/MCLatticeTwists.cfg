SPECIFICATION LatticeSpec
CONSTANTS
  q1 = q1
  q2 = q2
  PatchIds = {q1, q2}
  NoId = NoId
  Free = Free
  Nowhere = Nowhere
  furthest_cell <- LowerRight
  CoreHome <- OneQubit
  YStateCells <- OneYState
  FactoryTiles <- OneFactory
  DeadCells <- OneDead
  Looks <- NoCells
  Activities <- NoCells
  Types <- NoCells
  distilled_state_locations <- NextToFactory
  reserved_for_magic_states <- NoTiles
  distillation_times <- OneTime
  TimestepValues = 4
  ancilla_location <- Middle
  allow_twists = TRUE
  RotateAnything = FALSE
INVARIANT YStatesCounted
