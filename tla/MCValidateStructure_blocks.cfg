SPECIFICATION ToolSpec
CONSTANTS
  Byte <- SmallByte
  WhiteSpace <- SpaceByte
  Eol <- EolByte
  Nul = "nul"
  NoQuote = "none"
  Delimiters <- OneByte
  Quotes <- NoQuoting
  OptionSets = {}
  Chunks = {}
  Lookahead = 9
  Files <- LineFile
  BlockSize = 3
  Columns <- TwoColumns
  AllowFewer = FALSE
  Upcase <- UpperByte
INVARIANTS
  AcceptsOnlyValidIfParsed
  RejectsOnlyInvalid
PROPERTIES
  ProgramExits
CHECK_DEADLOCK FALSE
