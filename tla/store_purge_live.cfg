SPECIFICATION Spec
CONSTANTS
  None = None
  nil = nil
  text = text
  ref = ref
  Bodies <- MCBodies
  EmptyBody = nil
  BlobBodies = {ref}
  ContentHash <- MCHash
  Keys = {k1}
  Editors = {e1}
  Removers = {r1, r2}
  Kinds = {"Topic", "VectorManifest"}
  Cap = 1
  Horizon = 1
  MaxCounter = 2
  MaxClock = 1
PROPERTY LiveNeverRemoved
