SPECIFICATION MCSpec
CONSTANTS
  TMax = 20
  kRangeMultiplier = 2
  NumCpus = 3
  Jobs <- MCJobs
  Sessions <- MCSkipSessions
  Times <- MCTimes
  kMaxIterations = 40
  kDefaultMinTime = 10
INVARIANT SkipsReported
