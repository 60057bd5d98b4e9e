CONSTANTS
  NX = 2
  NY = 3
  VS = 2
  MaxIter = 4
  AlphaCap = 2
  Orbits <- FourOrbits
  N = 4
  M = 3
  Mass <- MCMass
  Pull <- MCPull
  Sizes <- MCSizes
  NRuns = 1
  NColors = 4
  Bench = 3
  Picture <- MCPicture
SPECIFICATION MCSpec
INVARIANTS
  ImageRight
  LaneResults
  FilesRight
PROPERTIES
  ImplementsTimeStep
  Terminates
