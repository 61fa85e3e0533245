SPECIFICATION FairSpec
CONSTANTS
  Size = 9
  Margin = 4
  MaxChunk = 5
INVARIANTS TypeOK WholeLines
PROPERTY Taken
