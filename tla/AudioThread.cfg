SPECIFICATION Spec
CONSTANTS
  RingSize = 16
  ProcMsgs = 4
  Specs = {0, 1}
  FadeFrames <- MCFadeFrames
  ReverbFrames = 1
  Plays = {0}
  MaxCalls = 3
  Rates = {1, 2}
  MaxUpdates = 2
INVARIANTS
  TypeOK
  Exclusive
  RingHoldsOwed
  ResetHoldsBack
  SoundAsAsked
PROPERTIES
  ResetEnds
  FrameEnds
  ExitEnds
