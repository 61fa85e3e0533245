SPECIFICATION FairSpec
CONSTANTS
  MaxText = 2
  MaxSignal = 1
  InSize = 2
  LineSize = 2
PROPERTIES AlarmObeyed
CHECK_DEADLOCK FALSE
