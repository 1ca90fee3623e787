\* Five ids, pages of two, and a store that changes all the time.
SPECIFICATION FairSpec
CONSTANTS
  Id = {1, 2, 3, 4, 5}
  Limit = 2
INVARIANTS Complete InOrder
PROPERTY WalkEnds
