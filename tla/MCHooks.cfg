SPECIFICATION Spec
CONSTANTS
  Names = {h}
  Funs = {f, g, k}
  MaxDepth = 2
INVARIANTS
  NodesSound
  CalledOnce
  RunCallsAll
PROPERTY RunsEnd
