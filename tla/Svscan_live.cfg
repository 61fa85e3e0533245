SPECIFICATION FairSpec
CONSTANTS
  n1 = n1
  n2 = n2
  Names <- OneName
  Dirs <- OneDir
  Homes <- Single
  Logs <- OneLog
  Services = 1
  MaxPid = 4
  MaxKill = 2
  Fails = TRUE
PROPERTIES Supervised Drained
