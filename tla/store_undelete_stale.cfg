SPECIFICATION Spec
CONSTANTS
  None = None
  nil = nil
  text = text
  ref = ref
  Bodies <- MCBodies
  EmptyBody = nil
  BlobBodies = {ref}
  ContentHash <- MCHash
  Keys = {k1}
  Editors = {e1}
  Removers = {r1}
  Kinds = {"VectorManifest"}
  Cap = 2
  Horizon = 1
  MaxCounter = 3
  MaxClock = 2
PROPERTY UndeleteRestoresItsTombstone
