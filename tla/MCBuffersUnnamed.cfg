SPECIFICATION Spec
SYMMETRY Symmetry
CONSTANTS
  f1 = f1
  f2 = f2
  i1 = i1
  i2 = i2
  i3 = i3
  MaxBuffers = 4
  Paths = {f1, f2}
  Inodes = {i1, i2, i3}
  FileName <- MCFileName
  UserNames = {"g"}
  Scratch = "scratch"
  Paste = "paste"
  NumWindows = 2
  None = None
  MaxVersions = 4
  MaxSteps = 3
  Lapses = {"unnamed"}
PROPERTIES
  FindsTheFile
CHECK_DEADLOCK FALSE
