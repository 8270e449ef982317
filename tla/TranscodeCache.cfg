SPECIFICATION FairSpec
CONSTANTS
  clip = clip
  film = film
  w1 = w1
  w2 = w2
  ArtifactKeys <- TwoKeys
  Workers <- TwoWorkers
  Size <- Sizes
  StartBudget = 2
  ByteBudgets <- Smaller
  EvictBatch = 1
  MaxEncodes = 2
  MaxUpsets = 2
INVARIANTS
  RowsAreTrue
PROPERTIES
  OpenReconciles
  OperationsEnd
CHECK_DEADLOCK FALSE
