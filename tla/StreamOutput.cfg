SPECIFICATION FairSpec
CONSTANTS
  Threads <- MCThreads
  reconnect_retry_max = 2
  Failures = {"connect", "send", "start"}
  MaxRaces = 0
INVARIANTS
  TypeOK
  ThreadsInOrder
  InStep
PROPERTIES
  Progress
