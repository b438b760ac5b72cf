CONSTANTS
  Word = 16
  Ids <- MCIds
  Hash <- HashColliding
  RangeMin = 2
  RangeSize = 4
SPECIFICATION Spec
INVARIANTS TypeOK HeldUnique ResolvesToNearestSlot
PROPERTY MovesTowardsHome
