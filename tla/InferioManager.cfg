SPECIFICATION FairSpec
CONSTANTS
  clip = clip
  tags = tags
  batch = batch
  search = search
  c1 = c1
  c2 = c2
  Models <- TwoModels
  CacheKeys <- TwoKeys
  Clients <- TwoClients
  LruSizes <- SmallSizes
  Asks <- JobAndSearch
  MaxLoads = 3
  MaxAsks = 4
  MaxUpsets = 2
  CanShutDown = TRUE
INVARIANTS
  CacheIsTrue
  WorkersAreAccounted
PROPERTIES
  OthersModelsStay
  EverythingEnds
CHECK_DEADLOCK FALSE
