\* A read-only transaction against a writer.
CONSTANTS
  Readers = {r1}
  Writers = {w1}
  NoThread = NoThread
  FirstSegment = {1, 2}
  Heap = {}
  NumLocks = 2
  Val = {0, 1}
  Zero = 0
  NoVal = NoVal
  MaxLen = 1
  MaxClock = 2
  ClashFree = TRUE
  UintSpan = 16
SPECIFICATION Spec
INVARIANT ReadOnlySnapshot
