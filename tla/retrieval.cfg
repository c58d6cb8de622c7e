SPECIFICATION MCSpec
CONSTANTS
  None = None
  Languages = {"rust", "js"}
  Nodes <- MCNodes
  Markers = {"crate", "self", "."}
  MaxNodes = 4
  Keys = {1, 2}
  Docs <- MCDocs
  Workers = {w, v}
  Overfetch = 2
  MaxHits = 2
  Habits = {}
  MaxEdits = 3
  MaxFaults = 1
  Items = {1, 2}
  Vectors = {u}
  ShardOf <- MCShardOf
  Handles = {h1, h2}
  Declarations <- MCDeclarations
  PurgeWhileOpen = FALSE
  MaxAttempts = 2
  MaxCommits = 3
  Paths <- MCPaths
  Fold <- MCFold
  MaxDepth = 2
  MaxChanges = 4
SYMMETRY HandleSymmetry
INVARIANTS ScopesAreNearest    QueryFindsTheBest
           IndexIsWhole MemoryIsCurrent SearchIsExact
CHECK_DEADLOCK FALSE
