SPECIFICATION Spec
CONSTANTS
  Requests <- FewRequests
  Caches <- FewCaches
  Nodes <- FourNodes
  MAX = 15
  MaxRetries = 2
  MaxMoves = 2
INVARIANTS TypeOK SelectionIsExact ValueConserved InputsOnChain OneNetwork
  RingsKeepRules RulesAreFeasible

\* A build ends.
CHECK_DEADLOCK FALSE
