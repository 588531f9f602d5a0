SPECIFICATION Spec
CONSTANTS
  Counts <- MCCounts
  MaxOpen = 2
CHECK_DEADLOCK FALSE
INVARIANT CriticalWasIncident
