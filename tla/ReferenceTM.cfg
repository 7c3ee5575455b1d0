CONSTANTS
  Threads = {t1, t2}
  NoThread = NoThread
  FirstSegment = {1, 2}
  Region = Region
  Start = Start
  Segments = {4, 6, 8}
  Null = Null
  Val = {0, 1}
  Zero = 0
  MaxLen = 2
SPECIFICATION Spec
INVARIANTS ListIsHeap BlocksFreedOnce
PROPERTY ImplementsSerialMemory
