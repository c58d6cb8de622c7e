SPECIFICATION MCSpec
CONSTANTS
  None = None
  nil = nil
  x = x
  y = y
  k1 = k1
  k2 = k2
  w1 = w1
  l1 = l1
  Bodies <- MCBodies
  EmptyBody = nil
  BlobBodies = {}
  ContentHash <- MCHash
  Keys = {k1}
  Writers = {w1, w2}
  Listers = {}
  NewBodies = {x, y}
  Legacy = FALSE
  Cap = 2
  MaxAttempts = 2
  MaxOps = 4
  MaxListings = 0
  MaxFaults = 2
INVARIANTS NoFalseRefusal TombstoneMarked 
PROPERTIES EachWriteIsPlanned
CHECK_DEADLOCK FALSE
