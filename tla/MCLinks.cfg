SPECIFICATION Spec
CONSTANTS
  Cases <- AwayCases
  PathNamed <- MCPathNamed
  Extension <- MCExtension
  Undefined = {"-x"}
  PrivateFiles <- MCPrivateFiles
  LogLevels = {"e", "w", "i", "d", "t", "p"}
  MaxRuns = 2
INVARIANTS
  SavedIntoOutput
