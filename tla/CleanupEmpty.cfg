CONSTANTS
  Objects <- MCTurns
  Namespaces <- MCOnlyProd
  System <- MCSystem
  Skipped <- MCSystem
  Scopes <- MCAll
  MaxResources = 3
  MaxChanges = 2
SPECIFICATION Spec
INVARIANT EmptyWasEmpty
