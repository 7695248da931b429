SPECIFICATION Spec
CONSTANTS
  MaxSize = 3
  Frames = {f1, f2}
  None = None
  Readers = {"blocking", "polling"}
INVARIANTS NoOverwrite NoUseAfterUnref NoLostWakeup NeverBothAsleep
PROPERTIES ImplementsFifo CloseTerminates WriterResumes
