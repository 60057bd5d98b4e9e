CONSTANTS
  VS = 3
  MemSize = 7
  MaxVal = 1
  Register <- MCRegister
  Lanes = 2
  Lim = 2
  Inputs <- MCInputs
  MaxOps = 2
  N = 2
  FloatLanes = 2
  IntLanes = 2
  Coef <- SmallCoef
  Eps = 4
  NRuns = 2
  Fma = TRUE
  Kernels <- AllKernels
  NX = 2
  NY = 3
  VectorSize = 2
  MaxIter = 3
  CounterMax = 2
  Horizon = 4
  Orbits <- ThreeOrbits
  Bytes = 2
SPECIFICATION MCSpec
INVARIANTS
  ActsOnVectors
  ReductionsRight
  TwoRootsSolve
  CountRight
  SingleRoot
  DrawnExactly
  LaneCounts
PROPERTIES
  ImplementsInterface
  Terminates
