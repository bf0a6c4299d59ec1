CONSTANTS
  MaxLines = 2
  MaxSupply = 5
SPECIFICATION Spec
INVARIANTS
  TypeOK
  NoPartialReport
  DeadlineIsHidden
  NoLateDeadline
  LinesAddUp
PROPERTY
  CancelEnds
