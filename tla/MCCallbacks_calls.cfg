SPECIFICATION CallerSpec
CONSTANTS
  Byte <- SmallByte
  WhiteSpace <- SpaceByte
  Eol <- EolByte
  Nul = "nul"
  NoQuote = "none"
  Delimiters <- MixedBytes
  Quotes <- Quoting
  OptionSets <- Modes
  Chunks <- AnyChunks
  Lookahead = 2
  Plans <- CallPlans
INVARIANTS
  TypeOK
  NoByteLost
  ReturnTellsTruth
  HalfMatchIsKnown
  HalfMatchIsText
  FieldsMakeUpTheText
PROPERTIES
  RowEndsAtOnce
  OnlyTheDueRecordAfterStop
  ParseReturns
CHECK_DEADLOCK FALSE
