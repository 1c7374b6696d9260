------------------------------ MODULE MCOwnership ------------------------------
\* Instances of Ownership for TLC.
EXTENDS Ownership, TLC

CONSTANTS p1, p2, p3, o1, o2, v1

MCPlaces == {p1, p2, p3}
MCObjects == {o1, o2}
MCLent == {v1}
MCSymmetry == Permutations(MCPlaces) \cup Permutations(MCObjects)
=============================================================================
