SPECIFICATION Spec
CONSTANTS
  Intents = {i1, i2}
  Payees = {p1, p2}
  Workers = {w1, w2}
  Outputs = {o1, o2}
  InputSets <- Single
  MaxTx = 3
  NoRecord = NoRecord
  NoRequest = NoRequest
  NoWorker = NoWorker
  Budget <- LedgerFaults
SYMMETRY Symmetry
INVARIANTS PersistBeforeSubmit
