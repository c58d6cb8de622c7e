---------------------------- MODULE RecordStore ----------------------------
(***************************************************************************)
(* One store and the operations that run against it (gonzalo-core:         *)
(* memstore.rs, reset.rs, collect.rs, undelete.rs; gonzalo-cli and          *)
(* gonzalo-server: purge).  Every Store method is one atomic step: MemStore *)
(* holds its mutex, the fs and git stores their lock, S3 a compare-and-swap.*)
(* What is not atomic is what callers do BETWEEN two methods: they read a   *)
(* record, and act later on the revision they read.  A session is such a    *)
(* caller: idle, or between its read and its write.                         *)
(***************************************************************************)
EXTENDS Records

CONSTANTS Keys,        \* record keys
          Editors,     \* sessions that create, edit, delete, reset and undelete
          Removers,    \* sessions that collect and purge tombstones
          Kinds,       \* the kinds the editors write
          Cap,         \* the store's ancestor cap
          Horizon,     \* the age a tombstone must reach before collection
          MaxCounter,  \* bound: no write beyond this revision counter
          MaxClock     \* bound: the clock stops here

ASSUME StoreAssumption ==
    /\ Kinds \subseteq LiveKinds
    /\ Cap \in Nat \ {0}
    /\ Horizon \in Nat
    /\ MaxCounter \in Nat
    /\ MaxClock \in Nat

VARIABLES records,   \* key -> the stored record, or None
          clock,     \* wall-clock time
          session,   \* session -> what it holds between its read and its write
          overtaken  \* history: sessions whose key was physically removed since
                     \* they read it

vars == <<records, clock, session, overtaken>>

Sessions == Editors \cup Removers

Idle == [op |-> "idle", key |-> None, seen |-> None]
Session == [op : {"edit", "reset", "undelete", "collect", "purge",
                  "daemon_ask", "daemon_purge"},
            key : Keys, seen : Record] \cup {Idle}

Init == /\ records = [k \in Keys |-> None]
        /\ clock = 0
        /\ session = [c \in Sessions |-> Idle]
        /\ overtaken = {}

(***************************************************************************)
(* Steps a session is made of                                              *)
(***************************************************************************)

\* The session has read rec at k and goes on to act on it.
Hold(c, op, k, rec) ==
    /\ session[c] = Idle
    /\ session' = [session EXCEPT ![c] = [op |-> op, key |-> k, seen |-> rec]]
    /\ UNCHANGED <<records, clock, overtaken>>

\* MemStore::write and delete_as: carry out the planner's decision.
Execute(k, plan) ==
    /\ plan.outcome = "Write" => plan.record.revision.counter <= MaxCounter
    /\ records' = [records EXCEPT ![k] = Apply(records[k], plan)]
    /\ UNCHANGED clock

\* Whom the session's removal of the record at its key overtakes.
Overtaken(c, plan) ==
    {d \in Sessions \ {c} : /\ session[d].key = session[c].key
                           /\ records[session[c].key] # None
                           /\ Apply(records[session[c].key], plan) = None}

\* The session's write, decided against what is stored now.
Finish(c, op, plan) ==
    /\ session[c].op = op
    /\ Execute(session[c].key, plan)
    /\ session' = [session EXCEPT ![c] = Idle]
    /\ overtaken' = (overtaken \ {c}) \cup Overtaken(c, plan)

(***************************************************************************)
(* Editors                                                                 *)
(***************************************************************************)

\* put(Record::create(..), None): creates, recreates, conflicts or is refused.
Create(k, kind, body) ==
    /\ Execute(k, PlanPut(records[k], CreateRecord(kind, body), None, Cap))
    /\ UNCHANGED <<session, overtaken>>

\* get, then put(seen.update(body), Some(seen.revision)).
ReadToEdit(c, k) == IsLive(records[k]) /\ Hold(c, "edit", k, records[k])

CommitEdit(c, body) ==
    LET s == session[c] IN
    Finish(c, "edit", PlanPut(records[s.key], UpdateRecord(s.seen, body),
                              s.seen.revision, Cap))

\* delete(key, None).
Delete(k) ==
    /\ Execute(k, PlanDelete(records[k], None, clock, Cap))
    /\ UNCHANGED <<session, overtaken>>

\* reset: list and get, then delete_as(Some(revision)).
ReadToReset(c, k) == IsLive(records[k]) /\ Hold(c, "reset", k, records[k])

CommitReset(c) ==
    LET s == session[c] IN
    Finish(c, "reset", PlanDelete(records[s.key], s.seen.revision, clock, Cap))

\* undelete: get_raw of a manifest tombstone, then put_raw of its retained body.
ReadToUndelete(c, k) ==
    /\ records[k] # None
    /\ IsManifestTombstone(records[k])
    /\ Hold(c, "undelete", k, records[k])

Restored(tomb) ==
    [tomb EXCEPT !.kind = tomb.deleted_kind,
                 !.revision = NextRevision(tomb.revision, tomb.body),
                 !.parent = tomb.revision, !.ancestors = {},
                 !.deleted_at = None, !.deleted_blob = None, !.deleted_kind = None]

CommitUndelete(c) ==
    LET s == session[c] IN
    Finish(c, "undelete", PlanPutRaw(records[s.key], Restored(s.seen),
                                     s.seen.revision, Cap))

(***************************************************************************)
(* Removers                                                                *)
(***************************************************************************)

\* collect: get_raw of a tombstone at least Horizon old, then purge of the
\* revision read.  An unstamped tombstone is never collected.
ReadToCollect(c, k) ==
    /\ records[k] # None
    /\ IsTombstone(records[k])
    /\ records[k].deleted_at # None
    /\ clock - records[k].deleted_at >= Horizon
    /\ Hold(c, "collect", k, records[k])

\* gonzalo purge: get_raw of any tombstone, then purge of the revision read.
ReadToPurge(c, k) ==
    /\ records[k] # None
    /\ IsTombstone(records[k])
    /\ Hold(c, "purge", k, records[k])

\* The daemon's purge: a client names a revision it has read, the service
\* re-reads the record and refuses a live one at that revision, then purges.
ReadToAskDaemon(c, k) == records[k] # None /\ Hold(c, "daemon_ask", k, records[k])

\* Mutant: the daemon does not look at the record.
DaemonUnchecked(c) ==
    /\ session[c].op = "daemon_ask"
    /\ session' = [session EXCEPT ![c].op = "daemon_purge"]
    /\ UNCHANGED <<records, clock, overtaken>>

DaemonCheck(c) ==
    LET s       == session[c]
        refused == IsLive(records[s.key])
                   /\ records[s.key].revision = s.seen.revision
    IN  /\ s.op = "daemon_ask"
        /\ session' = [session EXCEPT
                          ![c] = IF refused THEN Idle ELSE [s EXCEPT !.op = "daemon_purge"]]
        /\ overtaken' = IF refused THEN overtaken \ {c} ELSE overtaken
        /\ UNCHANGED <<records, clock>>

CommitPurge(c, op) ==
    Finish(c, op, PlanPurge(records[session[c].key], session[c].seen.revision))

Tick == clock < MaxClock /\ clock' = clock + 1 /\ UNCHANGED <<records, session, overtaken>>

(***************************************************************************)
(* Specification                                                           *)
(***************************************************************************)

EditorNext ==
    \/ \E k \in Keys, kind \in Kinds, body \in Bodies : Create(k, kind, body)
    \/ \E k \in Keys : Delete(k)
    \/ \E c \in Editors, k \in Keys : \/ ReadToEdit(c, k)
                                      \/ ReadToReset(c, k)
                                      \/ ReadToUndelete(c, k)
    \/ \E c \in Editors, body \in Bodies : CommitEdit(c, body)
    \/ \E c \in Editors : CommitReset(c) \/ CommitUndelete(c)

RemoverNext ==
    \/ \E c \in Removers, k \in Keys : \/ ReadToCollect(c, k)
                                       \/ ReadToPurge(c, k)
                                       \/ ReadToAskDaemon(c, k)
    \/ \E c \in Removers : DaemonCheck(c)
    \/ \E c \in Removers, op \in {"collect", "purge", "daemon_purge"} : CommitPurge(c, op)

Next == EditorNext \/ RemoverNext \/ Tick

Spec == Init /\ [][Next]_vars

(***************************************************************************)
(* Properties                                                              *)
(***************************************************************************)

\* Every variable holds what the code's types allow.
TypeOK == /\ records \in [Keys -> Slot]
          /\ clock \in Nat
          /\ session \in [Sessions -> Session]
          /\ overtaken \subseteq Sessions

\* The chain a record carries lies strictly behind it: fold_ancestors never
\* lets a record list itself or a revision at or beyond its own counter, which
\* is what lets sync read "your revision is in my ancestors" as "you are behind".
AncestorsBehind == \A k \in Keys : BehindItself(records[k])

\* Whatever replaces a stored record, by an edit, a delete, a recreation or a
\* restore, has a higher counter: a key's history never turns back unless it is
\* physically removed (plan_put, plan_put_raw, plan_delete).
CounterRises ==
    [][\A k \in Keys :
          records[k] # None /\ records'[k] # None /\ records'[k] # records[k]
          => records'[k].revision.counter > records[k].revision.counter]_records

\* No lost update: a live record is replaced by another live one only by an
\* editor that had read exactly the record it replaces (plan_put's expected), or
\* one with the same body if the key was purged and created again in between.
NoLostUpdate ==
    [][\A k \in Keys :
          IsLive(records[k]) /\ IsLive(records'[k]) /\ records'[k] # records[k]
          => \E c \in Editors :
                /\ session[c].op = "edit"
                /\ session[c].key = k
                /\ session[c].seen.body = records[k].body
                /\ c \notin overtaken => session[c].seen = records[k]]_vars

\* The restore window (ADR 0029, ADR 0030): a manifest tombstone is given up only
\* by a purge or an undelete that had read it, or read its revision in an earlier
\* life of the key; never by a create, an edit that started before the delete, or
\* a second delete.
RestoreWindow ==
    [][\A k \in Keys :
          /\ records[k] # None
          /\ IsManifestTombstone(records[k])
          /\ records'[k] # records[k]
          => \E c \in Sessions :
                /\ session[c].key = k /\ session'[c] = Idle
                /\ session[c].seen.revision = records[k].revision
                /\ c \notin overtaken => session[c].seen = records[k]
                /\ \/ c \in Removers /\ records'[k] = None
                   \/ /\ session[c].op = "undelete" /\ records'[k] # None
                      /\ records'[k].kind = session[c].seen.deleted_kind
                      /\ records'[k].body = session[c].seen.body]_vars

\* undelete refuses when "the key changed while this ran" (undelete.rs): what it
\* writes over a tombstone is that tombstone's own body.
UndeleteRestoresItsTombstone ==
    [][\A k \in Keys :
          /\ records[k] # None
          /\ IsManifestTombstone(records[k])
          /\ IsLive(records'[k])
          => records'[k].body = records[k].body]_records

\* "Refuses to remove a live record" (service.rs purge): a live record is never
\* physically removed, for it would leave no tombstone, and a peer that has not synced
\* since would bring it back (ADR 0021).
LiveNeverRemoved ==
    [][\A k \in Keys : IsLive(records[k]) => records'[k] # None]_records

\* A remover takes away only what it may, however long it waits between its read and
\* its purge, whatever the other removers do: exactly the record it had read, a
\* tombstone, past the horizon if it is collection that takes it (collect.rs), and no
\* live record (service.rs and cli purge, ADR 0030).  A revision names a record only
\* within one life of its key: a remover that was overtaken by another removal, after
\* which the key was created again, takes away whatever has the revision it read.
RemovalsAreSafe ==
    [][\A k \in Keys :
          records[k] # None /\ records'[k] = None
          => \E c \in Removers :
                LET s == session[c] IN
                /\ s.key = k /\ session'[c] = Idle
                /\ s.seen.revision = records[k].revision
                /\ c \notin overtaken => records[k] = s.seen /\ IsTombstone(s.seen)
                /\ s.op \in {"collect", "purge"} => IsTombstone(records[k])
                /\ s.op = "collect" => clock - s.seen.deleted_at >= Horizon]_vars

Contract == INSTANCE StoreContract WITH volatile <- [k \in Keys |-> {}]

\* "All substrates behave identically" (ADR 0021): the reference store changes a record
\* only as the store contract allows, and a power loss takes nothing back.
ImplementsContract == Contract!Spec

(***************************************************************************)
(* The inductive invariant.  A live record's revision names its body, and   *)
(* what a session holds is as well-formed as what is stored; unless it was  *)
(* overtaken, what it read is still stored or a later revision is, and a    *)
(* daemon that goes on to purge does not hold the live record itself.       *)
(***************************************************************************)

HeldWellFormed(s, time) ==
    /\ WellFormed(s.seen)
    /\ s.op \in {"edit", "reset"} => IsLive(s.seen)
    /\ s.op = "undelete" => IsManifestTombstone(s.seen)
    /\ s.op \in {"collect", "purge"} => IsTombstone(s.seen)
    /\ s.op = "collect" => s.seen.deleted_at \in Nat /\ time - s.seen.deleted_at >= Horizon

HeldIsCurrent(s, slot) ==
    /\ slot # None
    /\ slot = s.seen \/ slot.revision.counter > s.seen.revision.counter
    /\ s.op = "daemon_purge" /\ slot = s.seen => IsTombstone(s.seen)

IndInv == /\ TypeOK
          /\ \A k \in Keys : WellFormed(records[k])
          /\ \A c \in Sessions : session[c] # Idle => HeldWellFormed(session[c], clock)
          /\ \A c \in Sessions :
                session[c] # Idle /\ c \notin overtaken
                => HeldIsCurrent(session[c], records[session[c].key])
=============================================================================
