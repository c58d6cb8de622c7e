SPECIFICATION MCSpec
CONSTANTS
  None = None
  nil = nil
  ref = ref
  b1 = b1
  Bodies <- MCBodies
  EmptyBody = nil
  BlobBodies = {ref}
  ContentHash <- MCHash
  Blobs = {b1}
  ManifestBodies <- MCManifests
  Names <- MCNames
  BlobOf <- MCBlobOf
  Keys = {view, note}
  NoteKeys = {note}
  Writers = {w1}
  Sweeps = {g1, g2}
  Cap = 1
  MinAge = 2
  Horizon = 1
  Crashes = TRUE
  MaxCounter = 2
  MaxClock = 3
  MaxSweeps = 2
  Boards = {board1, board2}
  Configs <- MCConfigs
  Items <- MCItems
  Categories = {"InProgress", "Done", "Canceled"}
  Lower <- MCLower
  PageSize = 1
  MaxChanges = 1
  s1 = s1
  s2 = s2
  ada = ada
  bob = bob
  Clients = {w1, w2}
INVARIANTS  QuietSyncMirrors LinksAreSound 
PROPERTY SweepIsSafe
CHECK_DEADLOCK FALSE
