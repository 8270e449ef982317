SPECIFICATION FairSpec
CONSTANTS
  tray = tray
  Users <- OneUser
  MaxGenerations = 4
  MaxExits = 1
  MaxOps = 1
  Kinds <- Commands
  Window = 1
  StableRun = 2
  ReadyDeadline = 2
  MaxTime = 2
  MaxUpsets = 2
INVARIANTS
  ServersAreSupervised
PROPERTIES
  OnlyItsOwnExitClears
  EverythingSettles
CHECK_DEADLOCK FALSE
