\* Versions stay below half of UintSpan, as they do before 2^31 commits.
CONSTANTS
  Threads = {t1, t2, t3}
  NoThread = NoThread
  MaxVersion = 3
  UintSpan = 8
SPECIFICATION Spec
INVARIANT TypeOK
PROPERTY ImplementsAtomicLock
