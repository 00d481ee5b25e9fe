SPECIFICATION Spec
CONSTANTS
  Scripts <- MCScripts
  Options <- MCOptions
  MaxJump = 67
  AssertHash = 9999
INVARIANTS
  TypeOK
  EntryPreserved
  LiveCodeIntact
  SlotsExclusive
  RedirectedToWell
  LinkPreserved
  IdentifiersConsistent
  ChecksumsFinal
  NoWastedSlot
PROPERTIES
  TrampolineStable
  Outcome
