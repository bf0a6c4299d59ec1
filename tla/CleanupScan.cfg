CONSTANTS
  Objects <- MCObjects
  Namespaces <- MCNamespaces
  System <- MCSystem
  Skipped <- MCSystem
  Scopes <- MCScopes
  MaxResources = 3
  MaxChanges = 1
SPECIFICATION Spec
INVARIANTS
  TypeOK
  InUseNeverListed
  LostOnlyToTheCut
  ZeroMeansNoneIdle
PROPERTY
  ScanEnds
