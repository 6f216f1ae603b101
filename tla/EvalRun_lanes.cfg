SPECIFICATION EvalFairSpec
CONSTANTS
  NumItems = 3
  GroupOf <- Groups
  Topologies <- BothTopologies
  AttemptsPerItem = 2
  MaxSubmissions = 5
  MaxEvalFaults = 1
INVARIANTS ItemsOnce CompletedValid
PROPERTY LanesFinish
CHECK_DEADLOCK FALSE
