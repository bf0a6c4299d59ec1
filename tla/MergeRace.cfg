CONSTANTS
  MaxPushes = 3
  MaxEvents = 5
SPECIFICATION Spec
INVARIANT
  NewCommitDropsReview
