SPECIFICATION Spec
CONSTANTS
  b1 = b1
  b2 = b2
  None = None
  Buffers = {b1, b2}
  MaxProcesses = 2
  MaxForks = 2
  MaxOut = 1
  MaxStops = 1
  Setups <- MCSetups
  HooksUpdate = FALSE
  DropClosed = FALSE
CHECK_DEADLOCK FALSE
INVARIANTS
  TablesSound
PROPERTIES
  EndReported
  OpenReturns
  EndNoticed
