\* Messages that fit, exactly fit and exceed the limit.
SPECIFICATION Spec
CONSTANTS
  c1 = c1
  c2 = c2
  Conn <- TwoConn
  MaxMessageSize <- MCSize
  NameLens <- MCNameLens
  ValueLens <- MCValueLens
  ChunkLens <- MCChunkLens
  ReplyChunks <- MCChunks
  AuditHeaders <- MCAudit
  MaxItems <- MCItems
INVARIANTS
  TypeOK
  ExactAccounting
  OversizeIsDeferred
  ReconstructedSize
  OnlyPermittedActions
PROPERTIES
  ImplementsVerdict
  EomConcludes
  ImplementsPromise
CHECK_DEADLOCK FALSE
