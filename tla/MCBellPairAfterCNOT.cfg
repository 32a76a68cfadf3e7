SPECIFICATION BellSpec
CONSTANTS
  q0 = q0
  q1 = q1
  q2 = q2
  q3 = q3
  q4 = q4
  q5 = q5
  q6 = q6
  q7 = q7
  q8 = q8
  q9 = q9
  s0 = s0
  s1 = s1
  s2 = s2
  s3 = s3
  s4 = s4
  s5 = s5
  PatchIds = {q0, q1, q2, q3, q4, q5, s0, s1, s2, s3, s4, s5}
  NoId = NoId
  Free = Free
  Nowhere = Nowhere
  max_no_progress_slices = 1
  furthest_cell <- SixLowerRight
  CoreHome <- SixQubits
  YStateCells <- None
  FactoryTiles <- NoFactory
  DeadCells <- None
  Looks <- None
  Activities <- None
  Types <- None
  Cases <- PairAfterCNOTCases
INVARIANT NeverThrows
CHECK_DEADLOCK FALSE
