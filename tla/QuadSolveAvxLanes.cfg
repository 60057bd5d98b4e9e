CONSTANTS
  N = 2
  FloatLanes = 2
  IntLanes = 1
  Coef <- OneCoef
  Eps = 4
  NRuns = 1
  Fma = TRUE
  Kernels <- SIMDOnly
SPECIFICATION QuadSpec
INVARIANT CountRight
