SPECIFICATION FairSpec
CONSTANTS
  Lengths <- MCLengths
  MaxSessions = 2
  MaxWrites = 3
  MaxLost = 1
  MaxCloses = 1
INVARIANTS
  TypeOK
  Streams
PROPERTIES
  Progress
CHECK_DEADLOCK FALSE
