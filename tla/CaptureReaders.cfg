SPECIFICATION AllFairSpec
CONSTANTS
  Configs <- AllReaders
  Cnts <- SomeCnts
  MaxBlock = 2
  MaxArrivals = 3
  MaxCalls = 3
  MaxBreaks = 2
INVARIANT EachPacketOnce
INVARIANT BreaksAccounted
INVARIANT FewLateCallbacks
INVARIANT CntNearlyMaximum
INVARIANT ZeroMeansAll
PROPERTY BreakForcesReturn
CHECK_DEADLOCK FALSE
