CONSTANTS
  NumTargets = 3
  Kind <- MCHttp
  MaxTargets = 1
  MaxTimeout = 2
  MaxFlag = 2
  Buffer = 1
  Slack = 0
SPECIFICATION Spec
INVARIANT EveryTargetChecked
