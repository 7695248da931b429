SPECIFICATION Spec
CONSTANTS
  Media = {"audio"}
  Source <- FiniteSource
  Capacity = 1
  MaxCalls = 1
  Calls <- ReleaseCalls
  Documented = FALSE
PROPERTIES ReleaseReturns
