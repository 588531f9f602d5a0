SPECIFICATION Spec
CONSTANTS
  Counts <- MCCounts
  MaxOpen = 2
CHECK_DEADLOCK FALSE
INVARIANTS
  TypeOK
  ClearWasClear
  IncidentIsReported
  UnusableIsClassified
