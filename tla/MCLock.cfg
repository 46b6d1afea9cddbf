SPECIFICATION LockSpec
CONSTANTS
  p1 = p1
  p2 = p2
  p3 = p3
  here = here
  there = there
  None = None
  Procs = {p1, p2, p3}
  Host <- MCHost
  Writable = {p1, p2}
  Batch = {p3}
  Replies = {"proceed", "abort"}
  Ops = {"edit", "flag", "save", "discard", "quit"}
  Failures = {}
  CanCrash = TRUE
  MaxOps = 4
CHECK_DEADLOCK FALSE
INVARIANTS
  EditIsLocked
  IdleHoldsNoLock
PROPERTIES
  ServiceSpec
  AttemptEnds
