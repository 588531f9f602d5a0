SPECIFICATION Spec
CONSTANTS
  dev = dev
  iso = iso
  p1 = p1
  e1 = e1
  Project = {dev}
  Target = dev
  VolumeOwner = dev
  Photo = {p1}
  Event = {e1}
  Keep = 2
  MaxRuns = 3
CHECK_DEADLOCK FALSE
CONSTRAINT LittleAtOnce
INVARIANTS
  TypeOK
  BackupIsClosed
  RestoresWholeDump
  StoppedServicesStayOut
  WholeBackupSurvives
  GovernedRowsAudited
