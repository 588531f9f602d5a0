SPECIFICATION Spec
CONSTANTS
  ostris = ostris
  stir = stir
  ui = ui
  verifier = verifier
  Service <- MCService
  Listed = {ostris, stir, ui}
  Checked = {ostris, stir, verifier}
  DependsOn <- MCDependsOn
  Smoked = {stir}
  RetagHits = TRUE
  MaxVersion = 2
CHECK_DEADLOCK FALSE
INVARIANT RaisedLeavesPrevious
