SPECIFICATION ControllersSpec
CONSTANTS
  PAL = FALSE
  Pages = {0}
  PageSize = 1
  SampleLengths = {1}
  IrqFlags = {TRUE}
  OutputPeriods = {5}
  Modulus = 65536
  MaxWrites = 3
  NoByte = NoByte
  Buttons = 2
INVARIANTS
  OneClockPerEnable
