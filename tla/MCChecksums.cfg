SPECIFICATION Spec
CONSTANTS
  Scripts <- MCScripts
  Options <- MCOptions
  MaxJump = 67
  AssertHash = 9999
INVARIANT RecomputedChecksumsFound
