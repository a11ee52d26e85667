SPECIFICATION Spec
CONSTANTS
  Capacity = 2
  Timeout = 1
  Stall = 1
  Window = 1
  None = None
  NoSnapshot = NoSnapshot
  MaxEvents = 3
  MaxTaps = 4
  MaxShows = 1
INVARIANTS
  TypeOK
  LastRequestWins SaveIsOwed
  PendingIsTracked TimeoutOnItsScreen
PROPERTIES
  SavedUnlessDismissed
  RequestSettles
  ScreenFollowsGame
