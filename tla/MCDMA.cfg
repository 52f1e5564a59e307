SPECIFICATION FairTimingSpec
CONSTANTS
  PAL = FALSE
  Pages = {0, 1}
  PageSize = 2
  SampleLengths = {1, 2}
  IrqFlags = {TRUE}
  OutputPeriods = {3}
  Modulus = 65536
  MaxWrites = 3
  NoByte = NoByte
  Never = Never
INVARIANTS
  NoLostRead
  OamInOrder
  NoSampleOverwritten
  OneLateGet
PROPERTIES
  StealSpec
  OamServed
  DmcServed
  StallCost
  AbortWindow
