CONSTANTS
  fa = fa
  fb = fb
  Feature = {fa, fb}
  DependsOn <- MCDependsOn
  Stray = stray
  None = none
  TestsFirst = FALSE
  GitMayFail = FALSE
SPECIFICATION Spec
PROPERTY
  BookkeepingIsPure
CHECK_DEADLOCK FALSE
