SPECIFICATION TimeSpec
CONSTANTS
  Digit <- OneDigit
  Blank <- TabOnly
  LineEnd <- LineFeed
  Other <- OneOther
  MaxLength = 20
  MaxBlanks = 3
INVARIANTS
  RefusesNoTimestamp
  AcceptsOnlyBeginnings
CHECK_DEADLOCK FALSE
