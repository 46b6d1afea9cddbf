SPECIFICATION Spec
CONSTANTS
  Buffers = {a, b}
  Lines = {l1, l2, l3}
  None = None
  Heights = {5, 7}
  MaxSteps = 2
  MaxText = 3
  MaxWindows = 2
  WantsHScroll = FALSE
  Lapses = {}
INVARIANTS
  ScreenShowsText
  CacheSound
VIEW View
CHECK_DEADLOCK FALSE
