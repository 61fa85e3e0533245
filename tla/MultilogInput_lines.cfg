SPECIFICATION FairSpec
CONSTANTS
  MaxText = 6
  MaxSignal = 2
  InSize = 3
  LineSize = 2
INVARIANTS TypeOK CleanExit NothingHeldBack RotatedBetweenLines
PROPERTIES TermEndsWait
CHECK_DEADLOCK FALSE
