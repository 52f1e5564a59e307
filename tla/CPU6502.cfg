SPECIFICATION FairSpec
INVARIANTS
  NMIWaitsForOne
  FrameTellsSource
  ThreeWritesInRow
PROPERTIES
  NMINotLost
  NMIOncePerEdge
  IRQRespectsMask
  InterruptsServed
