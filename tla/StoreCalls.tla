----------------------------- MODULE StoreCalls -----------------------------
(***************************************************************************)
(* The conditional writes of the Store trait as requests (gonzalo-core:    *)
(* store.rs), shared by the substrates that carry them out in several       *)
(* steps.  A call holds what its caller had read: an edit, a delete or a    *)
(* purge names that record's revision, a create names none.                 *)
(***************************************************************************)
EXTENDS Records

WriteOps == {"put", "put_raw", "delete", "purge"}

ExpectedOf(seen) == IF seen = None THEN None ELSE seen.revision

\* What each call asks of the planners.  put creates or edits; put_raw is a
\* tombstone replicated by sync.
PlanFor(call, slot, cap) ==
    LET created == CreateRecord("Topic", call.body)
        origin  == IF call.seen = None THEN created ELSE call.seen
    IN  CASE call.op = "put" ->
               PlanPut(slot, IF call.seen = None THEN created
                             ELSE UpdateRecord(call.seen, call.body),
                       ExpectedOf(call.seen), cap)
          [] call.op = "put_raw" ->
               PlanPutRaw(slot, TombstoneOf(origin, 0, cap), ExpectedOf(call.seen), cap)
          [] call.op = "delete" -> PlanDelete(slot, ExpectedOf(call.seen), 0, cap)
          [] call.op = "purge"  -> PlanPurge(slot, call.seen.revision)

\* The calls a client that has read slot, or nothing, goes on to make.
Sensible(op, seen) ==
    /\ op \in {"put", "put_raw"} => seen = None \/ IsLive(seen)
    /\ op = "purge" => seen # None /\ IsTombstone(seen)
=============================================================================
