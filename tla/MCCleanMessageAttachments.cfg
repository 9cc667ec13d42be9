\* A message has an attachment of an HTML type.
SPECIFICATION Spec
CONSTANTS
  shop = shop
  hop = hop
  bad = bad
  list = list
  raw = raw
  utm = utm
  ref = ref
  id = id
  NoHost = NoHost
  Host <- MCHost
  Param <- MCParam
  GlobalRules <- MCGlobal
  VendorRules <- MCVendor
  Redirectors <- MCRedirectors
  BraveRules <- MCBraveRules
  Accepted <- MCAccepted
  Registrable <- MCRegistrable
  Resolved <- MCResolved
  Sender <- MCSender
  Sensitive <- MCSensitive
  Configs <- AllConfigs
  Messages <- MCMessages
INVARIANTS
  AttachmentsPreserved
CHECK_DEADLOCK FALSE
