SPECIFICATION FairSpec
CONSTANTS
  p1 = p1
  p2 = p2
  Pids <- TwoPids
  Strays <- OneStray
  Requests <- Combined
  MaxControl = 2
  ForkFails = FALSE
  DiskFails = FALSE
PROPERTIES DeathNoticed DownObeyed ExitObeyed KeptUp
