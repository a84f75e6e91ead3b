SPECIFICATION FairSpec
CONSTANTS
  stream = stream
  record = record
  replay = replay
  Media = Media
  None = None
  Outputs <- MCOutputs
  Delayed <- MCDelayed
  Fails = {"connect", "encode"}
INVARIANTS
  TypeOK
  OpenAndServed
  NoUseAfterDestroy
PROPERTIES
  CallsReturn
CHECK_DEADLOCK FALSE
