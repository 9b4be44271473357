CONSTANTS
  Width = 8
  USecsPerSec = 10
  FrameSizes <- MCFrameSizes
  SampleRates <- MCSampleRates
  Chunks <- MCChunks
  MaxBytes = 40

INIT BInit
NEXT Convert

\* The stream ends once MaxBytes have been written.
CHECK_DEADLOCK FALSE

PROPERTY ConvertMonotone
