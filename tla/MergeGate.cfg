CONSTANTS
  MaxPushes = 3
  MaxEvents = 6
SPECIFICATION Spec
INVARIANTS
  TypeOK
  SuccessWasEarned
  CalmRunHeals
