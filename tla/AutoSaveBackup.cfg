SPECIFICATION Spec
CONSTANTS
  NumSlots = 1
  AutoSaves = TRUE
  SoleCopyCrashes = {"play"}
  Torn = Torn
  MaxSaves = 4
  MaxCrashes = 1
PROPERTIES LostOnlyOnPurpose
