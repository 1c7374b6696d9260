SPECIFICATION Spec
CONSTANTS
  p1 = p1
  p2 = p2
  p3 = p3
  o1 = o1
  o2 = o2
  v1 = v1
  None = None
  Places <- MCPlaces
  Objects <- MCObjects
  Lent <- MCLent
SYMMETRY MCSymmetry
INVARIANTS
  OwnershipTypeOK
  OnlyCopiesDangle
  SharedReleasedOnce
  NoLeak
  LentNeverReleased
