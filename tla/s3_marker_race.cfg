SPECIFICATION Spec
CONSTANTS
  None = None
  nil = nil
  x = x
  y = y
  Bodies <- MCBodies
  EmptyBody = nil
  BlobBodies = {}
  ContentHash <- MCHash
  Keys = {k1}
  Writers = {w1}
  Listers = {l1}
  NewBodies = {x}
  Legacy = FALSE
  Cap = 2
  MaxAttempts = 2
  MaxOps = 2
  MaxListings = 1
  MaxFaults = 0
INVARIANT TombstoneMarked
CHECK_DEADLOCK FALSE
