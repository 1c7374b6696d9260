SPECIFICATION FairSpec
CONSTANTS
  u1 = u1
  u2 = u2
  c1 = c1
  c2 = c2
  f1 = f1
  f2 = f2
  f3 = f3
  None = None
  Clients <- MCClients
  Callbacks <- MCCallbacks
  Feedback <- MCFeedback
  MaxAdds = 3
  Reentrant <- MCReentrant
  RelockThrows = TRUE
  RegisterCanFail = FALSE
  ReleaseWaits = TRUE
PROPERTIES
  LockReleased
  FeedbackReachesHandlers
