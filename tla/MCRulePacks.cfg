\* Packs of one or two entries in every format.
SPECIFICATION Spec
CONSTANTS
  Packs <- MCPacks
  Probes <- MCProbes
  MaxExpansion = 3
  MaxRules = 6
  MaxRegexes = 4
INVARIANTS
  PatternsAsWritten
  RulesAsWritten
  AccountsBalance
CHECK_DEADLOCK FALSE
