SPECIFICATION Spec
CONSTANTS
  Chars = {"a", "b"}
  NL = NL
  None = None
  MaxUndos = 3
  BufSize = 2
  MergeMax = 1
  InitText <- MCInitText
  Inserts <- MCInserts
  Deletes <- MCDeletes
  Commands = {"move", "insert", "delete", "erase", "position", "undo", "save", "quit", "toggle_undo"}
  Denials = TRUE
  MaxLen = 4
  MaxCmds = 4
PROPERTY UndoTerminates
INVARIANTS
  UndoSound
  RecordsInvert
  UndoRetracesHistory
