CONSTANTS
  fa = fa
  fb = fb
  Order <- MCOrder
  DependsOn <- MCIndependent
  None = none
  TestFirst = TRUE
  MaxReviews = 1
  MaxSteps = 2
  KickId = {k1, k2}
  Patient = TRUE
  MaxActs = 3
SPECIFICATION Spec
INVARIANTS
  TypeOK
  BreakerHolds
  FewRounds
  OneAwaiting
  WaveAccounts
PROPERTIES
  StaysStopped
  RunsEnd
  WaveEnds
CHECK_DEADLOCK FALSE
