CONSTANTS
  Slug = {f, g, h}
  OverlappingBatches = FALSE
  KillsPileUp = FALSE
  MaxBatch = 2
SPECIFICATION Spec
SYMMETRY SlugSymmetry
INVARIANTS
  TypeOK
  DepsResolve
  DepsAcyclic
  DoneStandsOnDone
  NoCarryOver
PROPERTIES
  DoneIsFinal
