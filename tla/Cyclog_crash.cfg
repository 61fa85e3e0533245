SPECIFICATION FairSpec
CONSTANTS
  Num = 2
  Size = 3
  Margin = 1
  Scripts <- AllScripts
  MaxLine = 6
  MaxCrash = 3
INVARIANTS TypeOK SafeMeansSafe MarkMeansDone CleanMark InOrder Bounded StateMatches
PROPERTIES Contract Recovers
