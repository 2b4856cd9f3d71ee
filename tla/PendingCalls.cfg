SPECIFICATION FairSpec
CONSTANTS
  a = a
  b = b
  Order <- MCOrder
  FirstSerialId <- MCFirstSerialId
  InProcess = {p}
  MaxInt = 4
  MaxCalls = 2
  MaxSessions = 2
  MaxWaits = 2
  MaxEvents = 5
INVARIANTS
  TypeOK
  OwnAnswer
  NoLostWakeup
PROPERTIES
  HealthyStays
  SilenceNoticed
  Answered
CHECK_DEADLOCK FALSE
