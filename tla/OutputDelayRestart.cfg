SPECIFICATION DelaySpec
CONSTANTS
  delay_sec = 1
  MaxAge = 2
  MaxEvents = 3
CHECK_DEADLOCK FALSE
INVARIANTS
  StartKept
