SPECIFICATION Spec
CONSTANTS
  Media = {"video", "audio"}
  Source <- SafeSource
  Capacity = 1
  MaxCalls = 3
  Calls <- SafeCalls
  Documented = TRUE
INVARIANTS TypeOK NoFault PausedIsAsked StartWins
