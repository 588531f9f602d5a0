SPECIFICATION FairSpec
CONSTANTS
  ana = ana
  pedro = pedro
  tomatoes = tomatoes
  repair = repair
  bread = bread
  Agreement = {tomatoes, repair}
  User = {ana, pedro}
  Owner <- MCOwner
  Initiator <- MCInitiator
  Direction <- MCDirection
  Amount <- MCAmount
  Floor <- MCFloor
  Slot = {s1}
  MaxFaults = 2
  MaxAlive = 2
CHECK_DEADLOCK FALSE
PROPERTY Reconciled
PROPERTY Decided
