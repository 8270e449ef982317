SPECIFICATION DispatchFairSpec
CONSTANTS
  r1 = r1
  r2 = r2
  r3 = r3
  gpu0 = gpu0
  gpu1 = gpu1
  Requests <- Three
  Replicas <- TwoReplicas
  Mixes <- SmallMixes
  DefaultCap = 3
  ByteBudget = 5
  MaxFaults = 1
  CanUnload = TRUE
INVARIANTS
  BatchingIsInvisible
  NobodyIsForgotten
PROPERTIES
  EveryoneIsAnswered
CHECK_DEADLOCK FALSE
