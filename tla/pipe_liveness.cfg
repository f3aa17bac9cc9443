SPECIFICATION LiveSpec
CONSTANTS
  NumPcs = 4
  Config <- LiveCore
  None = None
  BootPc = 0
  ExcPc = 0
  IrqPc = 2
  DbgPc = 1
  DbgExcPc = 3
PROPERTIES
  Serviced
  Progress
