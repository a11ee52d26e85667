SPECIFICATION Spec
CONSTANTS
  Secondary <- MCSecondary
  Modes <- MCModes
  Rates <- MCRates
  Override = 2
  Capacity = 2
  None = None
  Other = Other
  MaxChanges = 2
  MaxStops = 0
  MaxOthers = 2
PROPERTIES RateReachesGame
