CONSTANTS
  MaxRounds = 2
  MaxClaims = 3
SPECIFICATION Spec
INVARIANT
  OverlayIsReleased
CHECK_DEADLOCK FALSE
