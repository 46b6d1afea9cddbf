SPECIFICATION Spec
CONSTANTS
  Keymap <- MCKeymap
  Meta <- MCMeta
  Strings <- MCStrings
  Stuffs <- MCStuffs
  Digits <- MCDigits
  Abort = "g"
  Sessions <- MCSessions
  MaxAhead = 1
  MacroSize = 4
  InputSize = 4
  SeqSize = 3
  MaxDepth = 1
  None = None
INVARIANTS
  MacroState
  ReplaysDefinition
  CountIsKept
PROPERTIES
  KeysAreAQueue
  HangupExits
CHECK_DEADLOCK FALSE
