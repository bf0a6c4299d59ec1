CONSTANTS
  NumTargets = 4
  Kind <- MCKind
  MaxTargets = 4
  MaxTimeout = 3
  MaxFlag = 4
  Buffer = 2
  Slack = 2
SPECIFICATION Spec
INVARIANTS
  TypeOK
  FullBudget
  EndsByDeadline
  ChainInOrder
