CONSTANTS
  e1 = e1
  e2 = e2
  e3 = e3
  e4 = e4
  Entries = {e1, e2, e3, e4}
  PageSize = 2
  MaxPages = 3
SPECIFICATION Spec
SYMMETRY EntrySymmetry
INVARIANTS TypeOK NothingTwice NothingMissed
