SPECIFICATION Spec
CONSTANTS
  Csvs <- MCCsvs
  Zones <- MCZones
  CodeSizes = {0, 6, 7}
INVARIANTS
  TypeOK
  SizesKept
  IncludesFollow
  NamesAgree
  NamesApart
  ListedGone
