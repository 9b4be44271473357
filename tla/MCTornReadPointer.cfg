CONSTANTS
  DefaultLatency = 8
  MinInitialOffset = 2
  LatencyArgs <- MCLatencyArgs
  SeekArgs <- MCSeekArgs
  FrameArgs <- MCFrameArgs
  OverrideArgs <- MCOverrideArgs
  MaxTime = 7
  MaxMedia = 11
  CallerMayMisuse = FALSE
  NoRead = NoRead

INIT InitU
NEXT NextU

INVARIANT ReadPointerSnapshot
