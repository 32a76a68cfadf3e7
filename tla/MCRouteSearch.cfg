SPECIFICATION HeapSpec
CONSTANTS
  Simulated = Simulated
  NoRoute = NoRoute
  furthest_cell <- LowerRight
  Queries <- SomeQueries
  EpochValues = 3
INVARIANTS RightAnswers HeapShortest
PROPERTY KeepsContract
CHECK_DEADLOCK FALSE
