CONSTANTS
  a = a
  b = b
  c = c
  m = m
  keep = keep
  stay = stay
  utm = utm
  vid = vid
  ref = ref
  globalRules = globalRules
  shop = shop
  forum = forum
  Packs <- MCNamesakePacks
  Extra <- MCExtra
  Url <- MCUrl
  Segment <- MCSegment
  Provider <- MCProvider
  MaxSources = 3
  Letters <- MCLetters
  ChunkPatterns = 3
  ChunkBytes = 4
  PatternBytes = 3
  SetSize = 4
SPECIFICATION Spec
INVARIANTS
  ExceptionsHold
CHECK_DEADLOCK FALSE
