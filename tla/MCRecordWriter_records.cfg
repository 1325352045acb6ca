SPECIFICATION WriterSpec
CONSTANTS
  Byte <- SmallByte
  WhiteSpace <- SpaceByte
  Eol <- EolByte
  Nul = "nul"
  NoQuote = "none"
  Delimiters <- OneByte
  Quotes <- NoQuoting
  OptionSets = {}
  Chunks = {}
  Lookahead = 9
  Files <- TextFiles
  BlockSize = 4
  BufferSize = 6
  Width = 2
  US = "us"
  LF = "nl"
  ConstantLists <- Lists
  OldFiles <- Found
INVARIANTS
  WritesTheRows
  VerdictIsRight
  BufferKeepsItsSize
CHECK_DEADLOCK FALSE
