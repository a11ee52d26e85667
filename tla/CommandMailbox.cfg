SPECIFICATION Spec
CONSTANTS
  Ops <- MCOps
  Args <- MCArgs
  Malformed <- MCMalformed
  Capacity = 2
  Laps = 2
  MaxCommands = 6
  NoOp = NoOp
  NoArg = NoArg
INVARIANTS SlotAccessesOrdered
PROPERTIES ImplementsQueue AcceptedIsApplied FullClears
