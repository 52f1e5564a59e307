SPECIFICATION Spec
CONSTANTS
  Regions = {"NTSC", "PAL", "DENDY"}
  Dots = 11
  NmiLine <- MCNmiLine
  PreRenderLine <- MCPreRenderLine
  TotalLines <- MCTotalLines
INVARIANTS
  LineFollowsFlag
  FlagSeenOnce
  OneNMIEachFrame
  EveryOtherFrameShort
