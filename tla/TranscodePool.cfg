SPECIFICATION FairSpec
CONSTANTS
  clip = clip
  song = song
  mosaic = mosaic
  Keys <- ThreeKeys
  Exclusive <- TheMosaic
  Compositions <- TheMosaic
  MaxConcurrent = 2
  Capacity = 1
  MaxJobs = 3
  MaxEvictions = 1
  CanShutDown = TRUE
INVARIANTS
  BooksBalance
PROPERTIES
  QueueIsFair
  EverythingSettles
CHECK_DEADLOCK FALSE
