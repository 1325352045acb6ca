SPECIFICATION ClientSpec
CONSTANTS
  Byte <- SmallByte
  WhiteSpace <- SpaceByte
  Eol <- EolByte
  Nul = "nul"
  NoQuote = "none"
  Delimiters <- OneByte
  Quotes <- Quoting
  OptionSets <- Modes
  Chunks <- ShortChunks
  Lookahead = 9
  Plans <- RowPlans
PROPERTIES
  ReportsTheRows
CHECK_DEADLOCK FALSE
