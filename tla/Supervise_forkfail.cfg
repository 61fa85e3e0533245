SPECIFICATION TimedSpec
CONSTANTS
  p1 = p1
  p2 = p2
  Pids <- TwoPids
  Strays <- NoStray
  Requests <- UpOrDown
  MaxControl = 1
  ForkFails = TRUE
  DiskFails = FALSE
PROPERTIES KeptUp
