CONSTANTS
  MaxLines = 2
  MaxSupply = 4
SPECIFICATION Spec
INVARIANT TotalWithinLimit
