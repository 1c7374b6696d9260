SPECIFICATION FairSpec
CONSTANTS
  N = 2
  None = None
  Programs <- OneProgram
  Rounds = 1
  MaxPolls = 0
INVARIANT ErrorsReported
