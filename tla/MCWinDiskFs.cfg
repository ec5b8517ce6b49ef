SPECIFICATION Spec
CONSTANTS
  Spelling <- MCSpelling
  Fold <- MCFold
  Rank <- MCRank
  Bytes <- MCBytes
  Glued = {"x"}
  Buffer <- MCBuffer
  Zero = 0
  Garbage = 9
  SECTOR_SIZE = 2
  Capacity = 3
  Path <- MCPath
  MaxWork = 4
  MaxHandles = 2
INVARIANTS TreeExact ReadBack ListingComplete
CONSTRAINT Followed
CHECK_DEADLOCK FALSE
