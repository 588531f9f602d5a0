SPECIFICATION Spec
CONSTANTS
  ana = ana
  pedro = pedro
  tomatoes = tomatoes
  repair = repair
  bread = bread
  Agreement = {tomatoes, repair, bread}
  User = {ana, pedro}
  Owner <- MCOwner
  Initiator <- MCInitiator
  Direction <- MCDirection
  Amount <- MCAmount
  Floor <- MCFloor
  Slot = {s1, s2}
  MaxFaults = 1
  MaxAlive = 2
CONSTRAINT FewAlive
SYMMETRY Symmetry
CHECK_DEADLOCK FALSE
INVARIANT TypeOK
INVARIANT ReceiptIsJournalled
INVARIANT FaultsHitOnce
PROPERTY Settles
