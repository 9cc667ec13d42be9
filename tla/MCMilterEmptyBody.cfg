\* A cleaned body can be empty.
SPECIFICATION Spec
CONSTANTS
  c1 = c1
  c2 = c2
  Conn <- TwoConn
  MaxMessageSize <- MCSize
  NameLens <- MCNameLens
  ValueLens <- MCValueLens
  ChunkLens <- MCChunkLens
  ReplyChunks <- MCChunks
  AuditHeaders <- MCAudit
  MaxItems <- MCItems
INVARIANTS
  CleanedBodyIsSent
CHECK_DEADLOCK FALSE
