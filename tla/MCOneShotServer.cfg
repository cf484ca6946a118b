CONSTANTS
  OneShot <- MCOneShot
  Session <- MCSession
  MaxPort = 1
  ForcePort = TRUE
SPECIFICATION Spec
INVARIANTS
  TypeOK
  LineContract
  CancelIsClean
  SessionSpared
  OneUp
PROPERTIES
  FixedPort
  OneShotEnds
CHECK_DEADLOCK FALSE
