SPECIFICATION AbbrevSpec
CONSTANTS
  TableNames = {A, B, C}
  Buffers = {x, y}
  Chars <- MCChars
  WordSets <- MCWordSets
  Entries <- MCEntries
  Lines <- MCLines
  MaxSteps = 4
INVARIANTS
  TablesSound
PROPERTY ExpandsWord
CHECK_DEADLOCK FALSE
