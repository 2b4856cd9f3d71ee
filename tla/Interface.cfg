SPECIFICATION Spec
CONSTANTS
  Designs <- MCDesigns
  MaxEvents = 3
INVARIANTS
  TypeOK
  Conveyed
  Observed
CHECK_DEADLOCK FALSE
