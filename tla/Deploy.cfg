SPECIFICATION FairSpec
CONSTANTS
  ostris = ostris
  stir = stir
  ui = ui
  verifier = verifier
  Service <- MCService
  Listed = {ostris, stir, ui}
  Checked = {ostris, stir, verifier}
  DependsOn <- MCDependsOn
  Smoked = {stir}
  RetagHits = TRUE
  MaxVersion = 3
CHECK_DEADLOCK FALSE
INVARIANTS
  TypeOK
  RollbackRunsPrevious
  PassedRunsBuilt
PROPERTY DeployEnds
