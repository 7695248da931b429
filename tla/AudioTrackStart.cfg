SPECIFICATION Spec
CONSTANTS
  MaxOpens = 1
  MaxPauses = 0
  MaxVolumes = 0
  MaxSeeks = 0
PROPERTIES PlayStarts
