CONSTANTS
  Input <- MCInput
  MAX_LINE = 5
  MAX_BASE64 = 6
SPECIFICATION Spec
INVARIANTS
  LinesFit
  ReadsBack
  SevenBitStays
CHECK_DEADLOCK FALSE
