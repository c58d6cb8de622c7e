SPECIFICATION MCSpec
CONSTANTS
  None = None
  nil = nil
  text = text
  ref = ref
  Bodies <- MCBodies
  EmptyBody = nil
  BlobBodies = {ref}
  ContentHash <- MCHash
  Keys = {k1}
  Editors = {s1, s2}
  Removers = {s1, s2}
  Kinds = {"Topic", "VectorManifest"}
  Cap = 1
  Horizon = 1
  MaxCounter = 2
  MaxClock = 1
  Namespace = "ns"
  Blobs = {b1}
  Registry <- Principals
  Clients = {c1}
  NewBodies = {text}
  Claims = {"root"}
  ServedCap = 2
  MaxCalls = 3
  MaxFaults = 1
  ToolBodies <- TwoBodies
  MaxToolCalls = 2
  MaxChanges = 1
  Agents = {a1}
  Views = {v1, v2}
INVARIANTS IndInv ViewAnswersHold AnswersHold
PROPERTIES CounterRises NoLostUpdate RestoreWindow RemovalsAreSafe AuthorUnforgeable NoResurrection
SYMMETRY ServedSymmetry
CHECK_DEADLOCK FALSE
