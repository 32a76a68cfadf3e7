SPECIFICATION LatticeSpec
CONSTANTS
  q1 = q1
  q2 = q2
  PatchIds = {q1, q2}
  NoId = NoId
  Free = Free
  Nowhere = Nowhere
  furthest_cell <- SmallLowerRight
  CoreHome <- OneQubit
  YStateCells <- NoCells
  FactoryTiles <- TwoReserved
  DeadCells <- NoCells
  Looks <- NoCells
  Activities <- NoCells
  Types <- NoCells
  distilled_state_locations <- NoLocations
  reserved_for_magic_states <- TwoTiles
  distillation_times <- TwoTimes
  TimestepValues = 4
  ancilla_location <- Middle
  allow_twists = TRUE
  RotateAnything = TRUE
INVARIANT RotationsIntact
