CONSTANTS
  Slug = {f, g}
  OverlappingBatches = TRUE
  KillsPileUp = FALSE
  MaxBatch = 2
SPECIFICATION Spec
SYMMETRY SlugSymmetry
INVARIANT
  DepsResolve
CHECK_DEADLOCK FALSE
