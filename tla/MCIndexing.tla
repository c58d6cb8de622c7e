---------------------------- MODULE MCIndexing ----------------------------
(***************************************************************************)
(* Small instances of the index runs and of the workers that parse for      *)
(* them, side by side: `part' is chosen at the start and only that instance  *)
(* moves.  "pool" is ParsePool with more calls than workers; "index" is      *)
(* Indexer with a watcher and a one-off run.                                *)
(***************************************************************************)
EXTENDS ParsePool, FiniteSets

CONSTANTS Paths, Contents, Versions, Clis, Habits, MaxEdits          \* of Indexer

VARIABLES part,                                                      \* the instance that moves
          tree, head, admits, worker, manifest, graph, base, fmt,    \* "index"
          run, events, debounce, settled, skipped, edits, losses

I == INSTANCE Indexer WITH faults <- losses

ASSUME PoolInstanceAssumption == PoolAssumption

indexVars == <<tree, head, admits, worker, manifest, graph, base, fmt,
               run, events, debounce, settled, skipped, edits, losses>>

MCInit == Init /\ I!Init /\ part \in {"index", "pool"}

MCNext == /\ UNCHANGED part
          /\ \/ part = "index" /\ I!Next /\ UNCHANGED vars
             \/ part = "pool"  /\ Next   /\ UNCHANGED indexVars

\* The fairness of Indexer and of ParsePool, each of the instance that moves.
MCSpec == /\ MCInit /\ [][MCNext]_<<vars, part, indexVars>>
          /\ \A r \in I!Runs : WF_indexVars(part = "index" /\ I!GoOn(r))
          /\ WF_indexVars(part = "index" /\ I!Notice) /\ WF_indexVars(part = "index" /\ I!Quiet)
          /\ SF_indexVars(part = "index" /\ I!DebounceTick)
          /\ SF_indexVars(part = "index" /\ I!ReconcileTick)
          /\ \A c \in Callers : WF_vars(part = "pool" /\ CallNext(c))

\* A view is what it claims to be: the tree of its last quiet run, under the base and
\* the format it records.
ViewIsHonest == I!ViewIsHonest

\* Every change is indexed in the end: the watcher's notifications, the debouncer and
\* the reconcile tick lose none, though notifications are lost and runs fail.
ViewCatchesUp == <>[](part = "index" => I!Current)
=============================================================================
