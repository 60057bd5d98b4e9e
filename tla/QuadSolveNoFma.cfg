CONSTANTS
  N = 2
  FloatLanes = 2
  IntLanes = 2
  Coef <- OneCoef
  Eps = 4
  NRuns = 1
  Fma = FALSE
  Kernels <- AVXOnly
SPECIFICATION QuadSpec
INVARIANT TwoRootsSolve
