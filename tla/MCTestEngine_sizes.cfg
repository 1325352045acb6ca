SPECIFICATION EngineSpec
CONSTANTS
  Byte <- SmallByte
  WhiteSpace <- SpaceByte
  Eol <- EolByte
  Nul = "nul"
  NoQuote = "none"
  Delimiters <- AnyLength
  Quotes <- Quoting
  OptionSets <- Modes
  Chunks = {}
  Texts <- EveryText
  Lookahead = 9
INVARIANTS
  SameEventsInAField
PROPERTIES
  EachTurnAdvances
CHECK_DEADLOCK FALSE
