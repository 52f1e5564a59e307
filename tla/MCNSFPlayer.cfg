SPECIFICATION PlayerLiveSpec
CONSTANTS
  Systems = {"NTSC", "PAL"}
  OneCycle = 2
  PlayCycles <- MCPlayCycles
  Watchdog = 30
  Longest = 6
  TotalSongs = 3
  StartingSong = 2
  ByteSize = 5
INVARIANTS
  CallsKeepTime
PROPERTIES
  OnlyOverrunsAreCut
  FramesEnd
