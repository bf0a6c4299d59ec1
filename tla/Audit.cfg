CONSTANT Tree <- MCTree
SPECIFICATION Spec
INVARIANTS
  TypeOK
  NothingLostSilently
  MergedInOrder
PROPERTY
  AuditEnds
