SPECIFICATION FairSession
CONSTANTS
  on = on
  off = off
  On <- on
  Off <- off
  None = None
  Gone = Gone
  Values <- MCValues
  Configs <- NoConfigs
  Calls <- MCCalls
  PokedModules <- NoConfigs
  PokedKinds <- NoConfigs
  PokedTypes <- NoConfigs
  N = 3
  Rounds = 2
  Setups <- AsyncSetup
PROPERTY ResetWhileDisabled
