CONSTANTS
  Flow = {f1, f2}
  MaxHead = 4
  Backlog = 2
SPECIFICATION Spec
INVARIANTS
  TypeOK
  KnowledgeFirst
  RetiredIsMemorized
CHECK_DEADLOCK FALSE
