SPECIFICATION FairSpec
CONSTANTS
  Intents = {i1, i2}
  Payees = {p1}
  Workers = {w1}
  Outputs = {o1, o2}
  InputSets <- Single
  MaxTx = 3
  NoRecord = NoRecord
  NoRequest = NoRequest
  NoWorker = NoWorker
  Budget <- LiveBudget
PROPERTIES EveryPayoutConfirms
