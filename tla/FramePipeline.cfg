SPECIFICATION PipelineSpec
CONSTANTS
  TickCounts <- MCTickCounts
  MaxTicks = 8
  MaxFailures = 2
  MaxSessions = 2
INVARIANTS
  PipelineTypeOK
PROPERTIES
  PicturesOnTime
