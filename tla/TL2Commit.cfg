\* Two writers on two words, each word with a lock of its own.
CONSTANTS
  Readers = {}
  Writers = {w1, w2}
  NoThread = NoThread
  FirstSegment = {1, 2}
  Heap = {}
  NumLocks = 2
  Val = {0, 1}
  Zero = 0
  NoVal = NoVal
  MaxLen = 1
  MaxClock = 2
  ClashFree = TRUE
  UintSpan = 16
SPECIFICATION Spec
INVARIANTS LockOwnership CommittedReadsSerial UnlockedWordsAreCommitted
PROPERTY VersionsOnlyGrow
SYMMETRY ThreadSymmetry
