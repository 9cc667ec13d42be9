\* A policy has both no_modify and a mode.
SPECIFICATION Spec
CONSTANTS
  shop = shop
  hop = hop
  bad = bad
  list = list
  raw = raw
  utm = utm
  ref = ref
  id = id
  NoHost = NoHost
  Host <- MCHost
  Param <- MCParam
  GlobalRules <- MCGlobal
  VendorRules <- MCVendor
  Redirectors <- MCRedirectors
  BraveRules <- MCBraveRules
  Accepted <- MCAccepted
  Registrable <- MCRegistrable
  Resolved <- MCResolved
  Sender <- MCSender
  Sensitive <- MCSensitive
  Configs <- NoModifyConfigs
  Messages <- MCMessages
INVARIANTS
  NoModifyHolds
CHECK_DEADLOCK FALSE
