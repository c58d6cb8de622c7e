SPECIFICATION CommitsSpec
CONSTANTS
  None = None
  Items = {1, 2}
  Vectors = {u}
  ShardOf <- MCShardOf
  Handles = {h1, h2}
  Declarations <- MCDeclarations
  PurgeWhileOpen = FALSE
  MaxAttempts = 2
  MaxCommits = 5
  MaxFaults = 1
SYMMETRY HandleSymmetry
INVARIANT MemoryIsManifest
CHECK_DEADLOCK FALSE
