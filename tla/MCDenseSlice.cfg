SPECIFICATION SliceSpec
CONSTANTS
  i1 = i1
  i2 = i2
  PatchIds = {i1, i2}
  NoId = NoId
  Free = Free
  Nowhere = Nowhere
  furthest_cell <- LowerRight
  CoreHome <- OneQubit
  YStateCells <- OneYState
  FactoryTiles <- NoFactory
  DeadCells <- None
  Looks <- QubitsAndRoutes
  Activities = {"Measurement"}
  Types = {"Qubit"}
INVARIANTS CacheSound
PROPERTY KeepsIndex
