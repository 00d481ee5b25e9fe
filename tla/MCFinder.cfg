SPECIFICATION Spec
CONSTANT
  Zones <- MCZones
INVARIANTS
  TypeOK
  ResultsApart
  ResultsAreScripts
  AllFound
