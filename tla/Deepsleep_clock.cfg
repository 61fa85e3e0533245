SPECIFICATION Spec
CONSTANTS
  Wrap = 64
  Word = 32
  Giga = 16
  Epoch = 20
  Step = 2
  Steps = 8
  Unit = 2
  Units = 4
  Cap = 2
  Slack = 2
  Late = 1
  Sleeps <- Pauses
  Clock = 12
  MaxSet = 1
INVARIANT InTime
CHECK_DEADLOCK FALSE
