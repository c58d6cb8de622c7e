----------------------------- MODULE Retrieval -----------------------------
(***************************************************************************)
(* A durable vector index and a knowledge store over one: the promise of    *)
(* the second, stated beside those of VectorIndex.                          *)
(***************************************************************************)
EXTENDS VectorIndex, Sequences

CONSTANTS Keys, Docs, Workers, Overfetch, MaxHits, Habits, MaxEdits         \* of Knowledge

VARIABLES records, index, counts, task, settled, edits, losses              \* of Knowledge

N == INSTANCE Knowledge WITH faults <- losses

docVars == <<records, index, counts, task, settled, edits, losses>>

\* Whenever no call is under way on a record, the remembered count reaches past every
\* chunk the index holds of it, else no later ingest or remove would ever take those away
\* (#150); and a call that succeeded leaves exactly the chunks of the record it read.
ChunksAreAccounted == N!ChunksAreAccounted
=============================================================================
