\* Two threads that run transactions of both kinds on one word, to their end.
CONSTANTS
  Readers = {t1, t2}
  Writers = {t1, t2}
  NoThread = NoThread
  FirstSegment = {1}
  Heap = {}
  NumLocks = 1
  Val = {0, 1}
  Zero = 0
  NoVal = NoVal
  MaxLen = 1
  MaxClock = 3
  ClashFree = TRUE
  UintSpan = 16
SPECIFICATION MCFairSpec
INVARIANT HistorySerial
PROPERTY CallReturns
