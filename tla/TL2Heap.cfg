\* Two writers that allocate, use and free segments, then the end of the region.
\* Every word has the same lock.
CONSTANTS
  Readers = {}
  Writers = {w1, w2}
  NoThread = NoThread
  FirstSegment = {1}
  Heap = {3}
  NumLocks = 1
  Val = {0, 1}
  Zero = 0
  NoVal = NoVal
  MaxLen = 1
  MaxClock = 2
  ClashFree = FALSE
  UintSpan = 16
SPECIFICATION Spec
INVARIANTS SegmentOwnership PublishedLive NoDirtyRead
SYMMETRY ThreadSymmetry
