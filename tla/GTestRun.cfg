CONSTANTS
  SuiteTests <- TwoSuites
  NEnv = 2
  Flags <- CommandLines
  Selections <- SomeSelections
  Statements <- SomeStatements
  Early <- EarlyResults
  Programs <- MCPrograms
  Sessions <- MCSessions
  kMaxRandomSeed = 3
  kMaxRange = 64
SPECIFICATION MCSpec
INVARIANTS
  EachReportedOnce
  VerdictRight
  Scoped
  ReportAgrees
  AllRegistered
  ShardsPartition
  OrderRight
