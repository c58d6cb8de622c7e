----------------------------- MODULE MCReload -----------------------------
(***************************************************************************)
(* Two handles that commit to one vector index and do nothing else: the     *)
(* behaviours of VectorIndex in which no index is reopened, deleted or       *)
(* swept.                                                                  *)
(***************************************************************************)
EXTENDS VectorIndex, TLC

MCShardOf(item, n) == item % n
MCDeclarations == {[space |-> "bge", shards |-> 2]}
HandleSymmetry == Permutations(Handles)

Commits(h) == \/ Open(h) \/ Hydrate(h) \/ \E deltas \in Batches : Begin(h, deltas)
              \/ Stage(h) \/ Commit(h) \/ Refused(h) \/ Reload(h) \/ Verify(h)

CommitsSpec == Init /\ [][\E h \in Handles : Commits(h)]_vars
=============================================================================
