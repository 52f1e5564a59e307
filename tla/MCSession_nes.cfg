SPECIFICATION Spec
CONSTANTS
  Parts = {"ram", "ppu"}
  Saved = {"ram", "ppu"}
  Values = {0, 1}
  Slots = {0}
  MaxHistory = 2
  MaxRestarts = 1
  NoState = NoState
INVARIANTS
  LoadsWholeState
PROPERTIES
  HistorySpec
