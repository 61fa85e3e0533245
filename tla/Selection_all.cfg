SPECIFICATION Spec
CONSTANTS
  a = a
  b0 = b0
  star = star
  nl = nl
  stamp = stamp
  Star = star
  Newline = nl
  Stamp = stamp
  Bytes <- AllBytes
  LineSize = 4
  ErrSize = 2
  MinSize = 2
  MaxSize = 6
  DefaultSize = 4
  MinNum = 2
  DefaultNum = 3
  Inputs <- AllInputs
INVARIANTS Verdict ScriptObeyed
CHECK_DEADLOCK FALSE
