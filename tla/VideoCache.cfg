SPECIFICATION FairSpec
CONSTANTS
  enc = enc
  raw = raw
  Inputs <- MCInputs
  SelfRemoving <- MCSelfRemoving
  Counts <- MCCounts
  cache_size = 3
  MaxClock = 6
INVARIANTS
  TypeOK
  NoTearing
  Cadence
PROPERTIES
  ImplementsFrameQueue
  InputsServed
