SPECIFICATION MCSpec
CONSTANTS
  TMax = 20
  kRangeMultiplier = 2
  NumCpus = 3
  Jobs <- MCJobs
  Sessions <- MCSessions
  Times <- MCTimes
  kMaxIterations = 40
  kDefaultMinTime = 10
INVARIANTS Together CountsRight ResultRight Outlives ArgumentsRight ReportsRight FailsOnlyAsKnown
PROPERTIES WarmUpLeavesNoTrace Concludes
