SPECIFICATION Spec
CONSTANTS
  Chars = {"a", "b", "c"}
  NL = NL
  MaxLines = 11
  InitText <- MCInitText
  Inserts <- MCInserts
  Deletes = {1, 3}
  MaxText = 5
  MaxNarrow = 2
  MaxCmds = 6
CHECK_DEADLOCK FALSE
INVARIANTS
  BufferSound
PROPERTY TextSpec
