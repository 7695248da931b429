SPECIFICATION Spec
CONSTANTS
  MaxOpens = 2
  MaxPauses = 3
  MaxVolumes = 2
  MaxSeeks = 2
INVARIANTS NoFalseSleep OneBufferAfterPause FreedUnused
PROPERTIES PauseTakesEffect ResumeTakesEffect CloseTerminates
