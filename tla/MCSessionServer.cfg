CONSTANTS
  MaxRounds = 2
  MaxClaims = 3
SPECIFICATION Spec
INVARIANTS
  TypeOK
  ShellInSync
PROPERTIES
  RoundsAreResolved
  EndingsAreOwn
