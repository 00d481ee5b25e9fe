SPECIFICATION Spec
CONSTANTS
  Cases <- MCCases
  PathNamed <- MCPathNamed
  Extension <- MCExtension
  Undefined = {"-x"}
  PrivateFiles <- MCPrivateFiles
  LogLevels = {"e", "w", "i", "d", "t", "p"}
  MaxRuns = 2
INVARIANTS
  EachSaved
