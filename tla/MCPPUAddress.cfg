SPECIFICATION Spec
CONSTANTS
  LowDots = 12
  Columns = 2
  Height = 4
  Rows = 2
  Slots = 2
  Lines = 3
  VBlankLines = 1
  IrqTargets = {1}
  Ctrls <- MCCtrls
  Starts <- MCStarts
  ScrollXs = {1}
  ScrollYs <- MCScrollYs
  Highs = {63}
  Lows = {1}
  AccessDots = {2, 17, 49}
  Spacing = 12
  MaxChanges = 2
INVARIANT LinesCounted
PROPERTIES
  ScrollHonoured
  AddressKept
  OneClockPerLine
