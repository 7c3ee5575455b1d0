CONSTANTS
  RUNS = 7
  BUFFER_SIZE = 3
  MaxSpurious = 2
SPECIFICATION FairSpec
INVARIANT SlotsDisjoint
PROPERTIES ImplementsBoundedBuffer BothFinish
