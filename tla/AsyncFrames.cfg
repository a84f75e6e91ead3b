SPECIFICATION Spec
CONSTANTS
  Frames = {f1, f2, f3, f4, f5}
  small = small
  large = large
  None = None
  W = 64
  Near = 2
  MaxTsVar = 7
  MaxAsync = 3
  MaxUnused = 2
  Delay = 3
  MaxLost = 1
  Ticks <- MCTicks
  Streams <- MCStreams
INVARIANTS TypeOK FramesOwned
PROPERTIES Timely QueueEmpties
CHECK_DEADLOCK FALSE
