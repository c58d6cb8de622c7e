SPECIFICATION MCSpec
CONSTANTS
  None = None
  Torn = Torn
  nil = nil
  ref = ref
  Bodies <- MCBodies
  EmptyBody = nil
  BlobBodies = {ref}
  ContentHash <- MCHash
  Keys = {k1}
  Blobs = {b1}
  Procs = {p1, p2}
  NewBodies = {ref}
  Cap = 2
  MaxOps = 4
  MaxListings = 1
  MaxFaults = 2
INVARIANTS  SuiteHolds KeysUnambiguous MergesAreFaithful
PROPERTY ImplementsContract
SYMMETRY ProcSymmetry
CHECK_DEADLOCK FALSE
