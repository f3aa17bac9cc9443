SPECIFICATION Spec
CONSTANTS
  NumPcs = 4
  Config <- Cores
  None = None
  BootPc = 0
  ExcPc = 0
  IrqPc = 2
  DbgPc = 1
  DbgExcPc = 3
INVARIANTS
  InOrder
  TrapsPrecise
  AccessesOwned
  DebugStops
