SPECIFICATION Spec
CONSTANTS
  Capacity = 1
  Inputs = 1
  MaxPackets = 2
  MaxSeeks = 1
  MaxPauses = 1
  FailsBeforeFlush = TRUE
PROPERTIES FlushServed
CHECK_DEADLOCK FALSE
