SPECIFICATION InterleaveSpec
CONSTANTS
  NumTracks = 1
  VideoDuration = 3
  AudioDuration = 2
  Origins <- MCAnyOrigins
  MaxLead = 6
  MaxDts = 5
  MaxSessions = 2
INVARIANTS
  InterleaveTypeOK
  InSync
PROPERTIES
  StreamIntact
