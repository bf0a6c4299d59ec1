CONSTANTS
  Trees <- MCTrees
  Queries <- MCQueries
  Extensions = {".md", ".go"}
  PrefixPairs <- MCPrefixPairs
  Versions <- MCVersions
  MaxResults = 2
  MaxEdits = 1
SPECIFICATION Spec
INVARIANTS
  TypeOK
  WordIsFound
  ExcerptIsAHit
