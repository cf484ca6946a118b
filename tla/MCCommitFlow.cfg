CONSTANTS
  fa = fa
  fb = fb
  Feature = {fa, fb}
  DependsOn <- MCDependsOn
  Stray = stray
  None = none
  TestsFirst = TRUE
  GitMayFail = TRUE
SPECIFICATION Spec
INVARIANTS
  TypeOK
  CommitsArePure
  RecordedIsReal
  SuccessIsCommitted
PROPERTIES
  WorkIsKept
  DefaultBranchIsSafe
  StepsOfTheBundle
