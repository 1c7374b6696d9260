SPECIFICATION FairSession
CONSTANTS
  on = on
  off = off
  On <- on
  Off <- off
  None = None
  Gone = Gone
  Values <- MCValues
  Configs <- NoConfigs
  Calls <- MCCalls
  PokedModules <- NoConfigs
  PokedKinds <- NoConfigs
  PokedTypes <- NoConfigs
  N = 2
  Rounds = 1
  Setups <- FaultySetup
INVARIANT AckGuarantee
