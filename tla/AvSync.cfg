SPECIFICATION SyncSpec
CONSTANTS
  Period = 2
  Chunk = 3
  framesize = 2
  FrameInterval = 5
  Starts <- MCStarts
  MaxSamples = 24
  MaxSessions = 3
CHECK_DEADLOCK FALSE
INVARIANTS
  SyncTypeOK
  InSyncButForAChunk
  SameZero
