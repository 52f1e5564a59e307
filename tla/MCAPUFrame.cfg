SPECIFICATION LiveSpec
CONSTANTS
  Channels = {"pulse1"}
  Lengths = {2}
  Regions = {"NTSC", "PAL"}
  Half1 <- MCHalf1
  Step4 <- MCStep4
  Step5 <- MCStep5
INVARIANTS
  SkipIsFresh
  NoLostFrameIRQ
  CountStaysInSequence
PROPERTIES
  NotesEnd
