CONSTANTS
  Slug = {f, g, h}
  Ghost = {x}
  MaxItems = 3
SPECIFICATION Spec
INVARIANTS
  TypeOK
  OrderRespectsDeps
  CycleIsExact
  SortedStaysPut
PROPERTIES
  Terminates
CHECK_DEADLOCK FALSE
