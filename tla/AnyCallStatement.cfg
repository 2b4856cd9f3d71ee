SPECIFICATION Spec
CONSTANTS
  a = a
  b = b
  Order <- MCOrder
  FirstSerialId <- MCFirstSerialId
  InProcess = {}
  MaxInt = 4
  MaxCalls = 2
  MaxSessions = 2
  MaxWaits = 1
  MaxEvents = 7
CONSTRAINT
  FewInFlight
INVARIANT
  AnyCallStatement
CHECK_DEADLOCK FALSE
