CONSTANTS
  DefaultLatency = 8
  MinInitialOffset = 2
  LatencyArgs <- MCLatencyArgs
  SeekArgs <- MCSeekArgs
  FrameArgs <- MCFrameArgs
  MaxTime = 7
  MaxMedia = 11
  CallerMayMisuse = FALSE
  NoRead = NoRead

SPECIFICATION Spec

INVARIANT TypeOK
INVARIANT RunningBehindRead
INVARIANT ReportedWithinReadPointer
INVARIANT ReadPointerAccounting
INVARIANT IInv
INVARIANT ReadFloor
INVARIANT TfRange

PROPERTY MonotoneReads
PROPERTY ImplementsMediaClock
