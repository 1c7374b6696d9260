SPECIFICATION FairSpec
CONSTANTS
  n1 = n1
  n2 = n2
  n3 = n3
  arm = arm
  Default = Default
  NUL = NUL
  Null = Null
  Nodes <- MCNodes
  FamilyOf <- MCFamilyOf
  Programs <- Starts
INVARIANTS
  DiscoveryTypeOK
  WalkVisitsAll
  MembersAreListed
  EntryNamesItsGroup
PROPERTY StartEnds
