------------------------------ MODULE MCDiscovery ------------------------------
\* Instances of Discovery for TLC.
EXTENDS Discovery

CONSTANTS n1, n2, n3, arm

MCNodes == {n1, n2, n3}
MCFamilyOf == [n \in MCNodes |-> IF n = n3 THEN arm ELSE Default]
Listing == {ListingStart}
=============================================================================
