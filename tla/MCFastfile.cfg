SPECIFICATION Spec
CONSTANTS
  Files <- MCFiles
  Byte = {0, 1}
  HeaderSize = 584
  StreamHeader = 16
  Page = 64
  Word = 800
  Targets = {"", "uncompressed", "lz4_hc", "oodle"}
  PackedSizes <- MCPackedSizes
  Rooms = {100000}
  MaxRuns = 2
  NoFile = NoFile
INVARIANTS
  TypeOK
  ReadsZone
  ReadsPacked
  WritesPacked
  BlocksLikeInput
PROPERTIES
  Ends
  Implements
