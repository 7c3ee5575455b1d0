\* A short transaction that is retried after it walked past the first segment.
CONSTANTS
  Threads = {w1, w2}
  MaxRounds = 3
  Leader = w1
  nbaccounts = 2
  init_balance = 1
  Triggers = {0, 9}
  MaxSegments = 2
  nbtxperwrk = 2
  nbchecks = 1
  SizeSpan = 3
SPECIFICATION BankSpec
INVARIANT TransferAsAsked
