\* Two words of one write set share a lock.
CONSTANTS
  Readers = {}
  Writers = {w1, w2}
  NoThread = NoThread
  FirstSegment = {1, 2}
  Heap = {}
  NumLocks = 1
  Val = {0, 1}
  Zero = 0
  NoVal = NoVal
  MaxLen = 1
  MaxClock = 2
  ClashFree = FALSE
  UintSpan = 16
SPECIFICATION Spec
INVARIANT CommittedReadsSerial
SYMMETRY ThreadSymmetry
