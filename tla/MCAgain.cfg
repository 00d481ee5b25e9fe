SPECIFICATION SpecAgain
CONSTANTS
  Scripts <- AgainScripts
  Options <- AgainOptions
  MaxJump = 67
  AssertHash = 9999
  MaxRuns = 2
INVARIANT LocationsNotShared
