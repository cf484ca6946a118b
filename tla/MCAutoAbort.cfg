CONSTANTS
  fa = fa
  fb = fb
  Order <- MCOrder
  DependsOn <- MCIndependent
  None = none
  TestFirst = FALSE
  MaxReviews = 2
  MaxSteps = 5
  KickId = {k1, k2}
  Patient = TRUE
  MaxActs = 3
SPECIFICATION Spec
PROPERTY
  AbortIsClean
CHECK_DEADLOCK FALSE
