SPECIFICATION Spec
CONSTANTS
  Slots <- MCSlots
  BufferSizes <- MCBufferSizes
  Attempts = 2
  SeqModulus = 6
  MaxFrames = 4
INVARIANTS NeverTorn
PROPERTIES ReadReturns ImplementsRegister
