SPECIFICATION FairSpec
CONSTANTS
  N = 2
  None = None
  Programs <- Examples
  Rounds = 2
  MaxPolls = 2
INVARIANTS
  FeedbackTypeOK
  AtMostOneStaleAnswer
  EachAnswerPrintedOnce
PROPERTY ProgramEnds
