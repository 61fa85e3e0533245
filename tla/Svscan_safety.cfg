SPECIFICATION Spec
CONSTANTS
  n1 = n1
  n2 = n2
  Names <- TwoNames
  Dirs <- AllDirs
  Homes <- Renamed
  Logs <- OneLog
  Services = 2
  MaxPid = 4
  MaxKill = 0
  Fails = TRUE
INVARIANTS TypeOK KnownChildren PipeShared
PROPERTY StartedInSlot
