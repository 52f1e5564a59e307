SPECIFICATION EvalSpec
CONSTANTS
  Sprites = 4
  Slots = 2
  EvalDots = 22
  IdleDots = 10
  NearSets <- MCNearSets
  Starts = {4, 13}
  AccessDots = {4, 18, 27, 46}
  MaxChanges = 2
PROPERTIES
  SlotsAgree
  OverflowOnTime
