SPECIFICATION MCSpec
CONSTANTS
  None = None
  Bodies <- MCBodies
  EmptyBody <- MCEmpty
  BlobBodies = {}
  ContentHash <- MCHash
  Keys = {k1}
  Sites = {"A", "B"}
  Syncs = {"s1"}
  Side <- OneSync
  WriterSites = {"A", "B"}
  PurgeSites = {"A", "B"}
  Rerun = TRUE
  Kinds = {"Topic"}
  FreshBodies <- MCFresh
  EditsOf <- MCAppends
  Caps <- EvenCaps
  HasAncestry = FALSE
  AppendOnlyMerge <- MCAppendOnlyMerge
  StructuredMerge <- MCStructuredMerge
  MaxPasses = 2
  MaxCounter = 9
  MaxDisturbances = 4
  Lines = {1, 2}
  MaxLines = 8
 
PROPERTIES SyncIsSound OpposedSyncsAreSound LinesKept ReplicasConverge
CHECK_DEADLOCK FALSE
