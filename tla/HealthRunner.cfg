CONSTANTS
  NumTargets = 3
  Concurrency = 0
  MaxTargets = 2
  Kind <- MCKind
  Pending = Pending
SPECIFICATION Spec
INVARIANTS
  TypeOK
  InFlightBounded
  ReportFinal
  CancelledIsTimeout
  ExitTruthful
PROPERTY
  KeepsPromise
