SPECIFICATION Spec
CONSTANTS
  Instances <- BoardInstances
  Writes <- BoardWrites
  MaxWrites <- BoardMaxWrites
  MaxClocks = 16
  LowDots = 2
  ScanlineDots = 7
INVARIANT WindowsInRom
PROPERTIES
  ResetRestarts
  IrqOnTime
  IrqQuiet
