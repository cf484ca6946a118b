CONSTANTS
  fa = fa
  fb = fb
  Feature = {fa, fb}
  DependsOn <- MCDependsOn
  Stray = stray
  None = none
  TestsFirst = FALSE
  GitMayFail = TRUE
SPECIFICATION Spec
INVARIANT
  AcceptedWorkLands
CHECK_DEADLOCK FALSE
