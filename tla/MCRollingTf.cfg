CONSTANTS
  DefaultLatency = 8
  MinInitialOffset = 2
  LatencyArgs <- MCLatencyArgs
  SeekArgs <- MCSeekArgs
  FrameArgs <- MCFrameArgs
  MaxTime = 7
  MaxMedia = 11
  CallerMayMisuse = FALSE
  NoRead = NoRead

SPECIFICATION Spec

INVARIANT RollingTfInRange
