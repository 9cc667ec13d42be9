CONSTANTS
  links = links
  go = go
  shop = shop
  example = example
  NoUrl = NoUrl
  Url <- MCUrl
  Name <- MCName
  Address <- MCAddress
  MaxAnswers = 2
  allowlisted_redirect_domains <- MCList
  MAX_REDIRECTS = 5
  Probe <- MCProbe
SPECIFICATION Spec
INVARIANTS
  TypeOK
  ContactsChecked
  BlockedRanges
PROPERTIES
  ResolutionEnds
  ImplementsPromise
CHECK_DEADLOCK FALSE
