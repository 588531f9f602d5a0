SPECIFICATION Spec
CONSTANTS
  core = core
  shell = shell
  ostris = ostris
  switch = switch
  surface = surface
  surface2 = surface2
  Hand = hand
  Repo = {core, shell, ostris}
  Order <- MCOrder
  Patched <- MCPatched
  Core = core
  Patch = {switch, surface, surface2}
  File <- MCFile
  Adds = {surface, surface2}
  MaxRelease = 3
  MaxCommit = 2
  Pin <- MCPin
  Patches <- MCPatches
CHECK_DEADLOCK FALSE
INVARIANTS
  TypeOK
  SuccessIsPinned
  HealedIsAccepted
PROPERTY RerunTouchesNothing
