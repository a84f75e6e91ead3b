SPECIFICATION FairSpec
CONSTANTS
  Kinds <- MCKinds
  drop_threshold = 3
  MaxPackets <- MCMaxPackets
INVARIANTS
  TypeOK
  NothingStranded
PROPERTIES
  DropsAreOrderly
  Drains
