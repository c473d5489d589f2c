SPECIFICATION Spec
CONSTANTS
  Intents = {i1, i2}
  Payees = {p1, p2}
  Workers = {w1, w2}
  Outputs = {o1, o2}
  InputSets <- Single
  MaxTx = 2
  NoRecord = NoRecord
  NoRequest = NoRequest
  NoWorker = NoWorker
  Budget <- SafetyBudget
SYMMETRY Symmetry
INVARIANTS TypeOK AgentInv OneTransactionPerIntent AnswersAgree DisjointInputs BroadcastOnlySaved
PROPERTIES AgentUsesLedger
