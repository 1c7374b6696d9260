--------------------------- MODULE MCFeedbackSession ---------------------------
\* Instances of FeedbackSession for TLC.
EXTENDS FeedbackSession

OneProgram == {ResetProgram}
=============================================================================
