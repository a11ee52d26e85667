SPECIFICATION Spec
CONSTANTS
  Capacity = 1
  Timeout = 1
  Stall = 1
  Window = 1
  None = None
  NoSnapshot = NoSnapshot
  MaxEvents = 2
  MaxTaps = 4
  MaxShows = 0
PROPERTIES PauseOpensAtRoot
