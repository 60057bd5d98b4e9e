CONSTANTS
  Bodies <- SomeBodies
  Styles <- AllStyles
  Faults <- SomeFaults
  kSignBitMask = 16
  kFractionBitMask = 3
  Magnitude <- SomeMagnitudes
  Rounded <- ToNearest
  Caller = {caller1, caller2}
  Matcher = {m1, m2, m3}
  Payload = {p1, p2}
  None = None
  MaxThread = 3
  Ids = {i1, i2}
  Local = {l1, l2}
  DiffInputs <- SomeTexts
  Regexes <- Trees
  Texts <- SomePatterns
  Subjects <- SomeStrings
  Generators <- SomeGenerators
  Iter = {x1, x2}
  Program = {program1, program2}
  Starts <- SomeStarts
  WorkDirs <- SomeDirs
  Outputs <- SomeOutputs
  NoColon = NoColon
  DefaultFile = "test_detail"
  FileName <- FileNames
  MaxRound = 2
SPECIFICATION MCSpec
INVARIANT EditsOptimal
