CONSTANTS
  DefaultLatency = 8
  MinInitialOffset = 2
  LatencyArgs <- MCLatencyArgs
  SeekArgs <- MCSeekArgs
  FrameArgs <- MCFrameArgs
  Period = 2
  MaxTime = 30
  MaxMedia = 40
  CallerMayMisuse = FALSE
  NoRead = NoRead

SPECIFICATION SteadySpec

PROPERTY LocksToUnity
