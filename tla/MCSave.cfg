SPECIFICATION Spec
CONSTANTS
  Missing = Missing
  Methods = {"none", "rename", "copy"}
  Faults = {"rename", "copy", "open", "write", "restore", "autosave"}
  MaxFaults = 3
  Foreigners = {"write", "replace"}
  SameSecond = FALSE
  MaxVersions = 3
  MaxSaves = 3
  MaxTime = 3
CHECK_DEADLOCK FALSE
INVARIANTS
  NoTextLost
  UnmodifiedIsSaved
  KnowsItsOwnFile
PROPERTY NoSilentOverwrite
