SPECIFICATION DelaySpec
CONSTANTS
  delay_sec = 1
  MaxAge = 2
  MaxEvents = 3
INVARIANTS
  DelayTypeOK
  SentAsAsked
  RestartKept
CHECK_DEADLOCK FALSE
