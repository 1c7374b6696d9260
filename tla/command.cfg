SPECIFICATION Spec
CONSTANTS
  on = on
  off = off
  cfg1 = cfg1
  None = None
  Gone = Gone
  Values <- MCValues
  N = 2
  Configs <- MCConfigs
  Calls <- MCAllCalls
  PokedModules <- MCPokedModules
  PokedKinds <- MCPokedKinds
  PokedTypes <- MCPokedTypes
SYMMETRY MCSymmetry
INVARIANTS
  TypeOK
  SaysWhatWasAsked
  NoDanglingSend
