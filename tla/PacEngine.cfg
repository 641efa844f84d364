SPECIFICATION FairSpec
CONSTANTS
  c1 = c1
  c2 = c2
  c3 = c3
  Callers <- MCCallers
  Kinds <- MCKinds
  NumWorkers = 2
  QueueCap = 1
  CounterMod = 2
  Faults = TRUE
  None = None
INVARIANTS
  TypeOK
  OwnAnswer
  NoLostRequest
  OneEvaluation
  Balanced
PROPERTIES
  ImplementsPacService
  EveryCallReturns
CHECK_DEADLOCK FALSE
