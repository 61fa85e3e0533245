SPECIFICATION Spec
CONSTANTS
  p1 = p1
  p2 = p2
  Pids <- TwoPids
  Strays <- NoStray
  Requests <- Singles
  MaxControl = 1
  ForkFails = TRUE
  DiskFails = TRUE
INVARIANTS TypeOK OwnChild NoLostDeath StatusTrue PausedTrue NothingLeft
PROPERTIES NoStartAfterExit Contract
SYMMETRY Alike
