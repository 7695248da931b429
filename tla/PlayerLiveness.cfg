SPECIFICATION Spec
CONSTANTS
  Media = {"video", "audio"}
  Source <- LiveSource
  Capacity = 1
  MaxCalls = 2
  Calls <- LiveCalls
  Documented = TRUE
PROPERTIES StartedRuns SeekAcknowledged
