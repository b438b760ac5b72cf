CONSTANTS
  Word = 16
  Ids <- MCIds
  Hash <- HashColliding
  RangeMin = 2
  RangeSize = 5
SPECIFICATION Spec
INVARIANT SameUidEverywhere
