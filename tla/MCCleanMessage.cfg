\* Four messages, three senders, every combination of the link switches.
SPECIFICATION Spec
CONSTANTS
  shop = shop
  hop = hop
  bad = bad
  list = list
  raw = raw
  utm = utm
  ref = ref
  id = id
  NoHost = NoHost
  Host <- MCHost
  Param <- MCParam
  GlobalRules <- MCGlobal
  VendorRules <- MCVendor
  Redirectors <- MCRedirectors
  BraveRules <- MCBraveRules
  Accepted <- MCAccepted
  Registrable <- MCRegistrable
  Resolved <- MCResolved
  Sender <- MCSender
  Sensitive <- MCSensitive
  Configs <- AllConfigs
  Messages <- MCMessages
INVARIANTS
  TypeOK
  PartsInPlace
  ModifiedIsTrue
  HeadersAreTrue
  UnsubscribeIntact
  BlockedNeutralised
  CarveOutsHold
  SecurityLinksSurvive
CHECK_DEADLOCK FALSE
