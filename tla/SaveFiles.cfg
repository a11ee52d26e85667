SPECIFICATION Spec
CONSTANTS
  NumSlots = 2
  AutoSaves = TRUE
  SoleCopyCrashes = {}
  Torn = Torn
  MaxSaves = 4
  MaxCrashes = 2
INVARIANTS NoWriteMeetsTorn SelectShowsFiles
PROPERTIES ImplementsSlots LostOnlyOnPurpose OtherSlotsUntouched
