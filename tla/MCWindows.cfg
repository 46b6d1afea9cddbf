SPECIFICATION Spec
CONSTANTS
  Files = {"f"}
  Scratch = "scratch"
  Completions = "completions"
  Mini = "mini"
  None = None
  Heights = {5, 10}
  MaxWindows = 3
  Lapses = {}
INVARIANTS
  ScreenSound
  MiniInPlace
PROPERTIES
  PopKeepsCurrent
  ReadLeavesNoTrace
