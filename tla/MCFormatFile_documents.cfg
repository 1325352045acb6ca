SPECIFICATION FileSpec
CONSTANTS
  Character <- SmallCharacter
  ChunkSize = 22
  Settings <- TwoSettings
  Flags <- OneFlag
  ColumnList <- ListKey
  Upcase <- UpperCharacter
  Hex <- HexCharacter
  HexByte <- CommaByte
  NonZero <- One
  Documents <- SomeDocuments
INVARIANTS
  ReadsAShortFormat
  BlankLineEndsTheList
PROPERTIES
  ParseEnds
CHECK_DEADLOCK FALSE
