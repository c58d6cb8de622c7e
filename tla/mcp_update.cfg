SPECIFICATION Spec
CONSTANTS
  None = None
  Bodies <- MCBodies
  EmptyBody = 0
  BlobBodies = {}
  ContentHash <- MCContentHash
  Agents = {a1}
  Views = {v1}
  Cap = 2
  MaxCalls = 2
  MaxChanges = 1
PROPERTY UpdateFollows
CHECK_DEADLOCK FALSE
