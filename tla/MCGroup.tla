------------------------------- MODULE MCGroup -------------------------------
\* Instances of Group for TLC.
EXTENDS Group, TLC

CONSTANTS u1, u2, c1, c2, f1, f2, f3

MCClients == {u1, u2}
MCCallbacks == {c1, c2}
MCFeedback == {f1, f2, f3}

\* The handler whose function calls back into the group: the second added, or
\* the last.
MCReentrant == {2}
LastReentrant == {5}
NoReentry == {}

\* Threads and packets are interchangeable; handlers are not, they have an order.
MCSymmetry ==
  Permutations(MCClients) \cup Permutations(MCCallbacks)
    \cup Permutations(MCFeedback)
=============================================================================
