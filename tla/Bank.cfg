CONSTANTS
  Threads = {w1, w2, w3}
  MaxRounds = 3
  Leader = w1
  nbaccounts = 2
  init_balance = 1
  Triggers = {0, 9}
  MaxSegments = 2
  nbtxperwrk = 2
  nbchecks = 1
  SizeSpan = 4
SPECIFICATION FairBankSpec
INVARIANTS TypeOK RoundsTogether BankConsistent NoFalseAlarm
PROPERTY CheckEnds
