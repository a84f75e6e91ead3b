SPECIFICATION FairSpec
CONSTANTS
  a = a
  b = b
  c = c
  None = None
  Owners <- MCOwners
  Retainers <- MCRetainers
INVARIANTS
  TypeOK
  Safe
PROPERTIES
  GoneForGood
  Freed
