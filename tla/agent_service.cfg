SPECIFICATION Spec
CONSTANTS
  Workers = {w1, w2}
  Requests <- SomeRequests
  Configs <- SomeConfigs
  Claims <- SomeClaims
  MaxFrame = 2
  MaxSwaps = 1
INVARIANTS TypeOK AnswersMatch LearnedFromPinned VerdictIsTheAgents
PROPERTIES EveryRequestAnswered
