SPECIFICATION Spec
CONSTANTS
  Capacity = 1
  Inputs = 2
  MaxPackets = 3
  MaxSeeks = 1
  MaxPauses = 1
  FailsBeforeFlush = FALSE
INVARIANTS InsideIsCurrent
PROPERTIES FlushServed CloseTerminates EndsTogether
