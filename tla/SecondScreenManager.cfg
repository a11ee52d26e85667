SPECIFICATION Spec
CONSTANTS
  Secondary <- MCSecondary
  Modes <- MCModes
  Rates <- MCRates
  Override = 2
  Capacity = 2
  None = None
  Other = Other
  MaxChanges = 4
  MaxStops = 1
  MaxOthers = 2
INVARIANTS TypeOK WrongScreenIsTransient
PROPERTIES SettlesOnDisplay AcceptedRateReachesGame
