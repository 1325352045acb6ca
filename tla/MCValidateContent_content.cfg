SPECIFICATION ContentSpec
CONSTANTS
  Byte <- SmallByte
  WhiteSpace <- SpaceByte
  Eol <- EolByte
  Nul = "nul"
  NoQuote = "none"
  Delimiters = {}
  Quotes <- NoQuoting
  OptionSets = {}
  Chunks = {}
  Lookahead = 9
  Files <- AnyFile
  BlockSize = 5
  BufferSize = 8
  Width = 2
  US = "us"
  LF = "nl"
  Length <- WordLengths
  First <- FirstBytes
  Spaces <- SpaceByte
  Digits <- Digit
  ToI <- OneOrNothing
  Utf8Length <- AllOnes
  Utf8Valid <- AnyUtf8
  IsTimestamp <- OnlyOnes
  Formats <- SomeFormats
  Meaning <- Meanings
  Comma <- CommaByte
  BadHeader <- Messages
  Failed <- Marked
INVARIANTS
  SortsTheRows
  CountsAreTrue
  VerdictOnValidations
CHECK_DEADLOCK FALSE
