SPECIFICATION FairSpec
CONSTANTS
  Checks = {c1, c2}
  Traps = {c2}
  Gifts = {g1}
  Renewed = {c1}
  c1 = c1
  c2 = c2
  g1 = g1
  Slots = {1, 2}
  MaxAsks = 3
  MaxMishaps = 2
INVARIANTS
  OneRandoItem
  Linked
PROPERTIES
  KeepsLedger
  EverythingIsGiven
