SPECIFICATION Spec
CONSTANTS
  Instances <- RamInstances
  Writes <- BoardWrites
  MaxWrites <- BoardMaxWrites
  MaxClocks = 16
  LowDots = 2
  ScanlineDots = 7
INVARIANT RegistersReached
