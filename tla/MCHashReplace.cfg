SPECIFICATION Spec
CONSTANTS
  Width = 2
  Byte <- MCByte
  Scripts <- MCScripts
  Texts <- MCTexts
  PrivateFiles <- MCPrivateFiles
  HashWord <- MCHashWord
  NoText = NoText
  Mask = 16
  Char <- MCChar
  Xor64 <- MCXor
  Stored <- MCStored
  Iv = 3
  Prime = 13
  UpperCase <- MCUpperCase
  ToLower <- MCToLower
  Backslash <- MCBackslash
  Slash <- MCSlash
INVARIANTS
  TypeOK
  AllAtOnce
  SameHash
PROPERTIES
  Progress
  Ends
