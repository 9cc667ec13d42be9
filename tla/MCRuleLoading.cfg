\* The limits admit the built-in pack.
SPECIFICATION Spec
CONSTANTS
  s1 = s1
  s2 = s2
  builtin = builtin
  Source <- MCSource
  Sizes <- MCSizes
  Builtin = builtin
  BuiltinBytes <- MCBuiltin
  MaxPackBytes = 3
  MaxTotalBytes = 4
  MaxSources = 2
  Configs <- MCConfigs
  Contents <- MCContents
  MaxEdits = 1
INVARIANTS
  TypeOK
  WithinLimits
  ReportIsComplete
PROPERTIES
  LayersAgree
CHECK_DEADLOCK FALSE
