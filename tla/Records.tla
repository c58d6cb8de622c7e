------------------------------ MODULE Records ------------------------------
(***************************************************************************)
(* The versioned record and the pure planners every substrate consults     *)
(* (gonzalo-core: revision.rs, record.rs, tombstone.rs).  A store reads its *)
(* current record inside its own critical section, asks a planner what to  *)
(* do, and carries the plan out; so these operators, with no state of      *)
(* their own, are shared by the models of all the stores.                   *)
(*                                                                         *)
(* A body is an abstract value.  ContentHash is the body's hash as a       *)
(* number, because revisions are ordered by (counter, hash); it is          *)
(* injective, as blake3 is taken to be.  The ancestor list is kept sorted   *)
(* by that total order and without duplicates, so a set represents it.      *)
(***************************************************************************)
EXTENDS Integers, FiniteSets

CONSTANTS None,         \* the absent value of every Option
          Bodies,       \* what a record can carry
          EmptyBody,    \* Body::Inline(vec![])
          BlobBodies,   \* the bodies that are a Body::Blob reference
          ContentHash   \* the hash of each body

ASSUME BodiesAssumption ==
    /\ EmptyBody \in Bodies
    /\ BlobBodies \subseteq Bodies \ {EmptyBody}

ASSUME ContentHashAssumption ==
    /\ ContentHash \in [Bodies -> Nat \ {0}]
    /\ \A x, y \in Bodies : ContentHash[x] = ContentHash[y] => x = y

(***************************************************************************)
(* Revisions and records                                                   *)
(***************************************************************************)

Revision == [counter : Nat, hash : Nat]

ASSUME NoneAssumption == None \notin Revision /\ None \notin Nat

\* The hash of the tombstone domain string: no body has it.
TombstoneHash == 0

\* Revision::initial and Revision::next.
InitialRevision(body) == [counter |-> 0, hash |-> ContentHash[body]]
NextRevision(rev, body) == [counter |-> rev.counter + 1,
                            hash    |-> ContentHash[body]]

\* One kind of each merge class, and both manifest kinds.
ManifestKinds == {"GraphManifest", "VectorManifest"}
LiveKinds == {"Topic", "MemoryTier", "Checkpoint"} \cup ManifestKinds

MergeClass(kind) ==
    CASE kind = "Topic"          -> "AppendOnly"
      [] kind = "MemoryTier"     -> "Structured"
      [] kind = "GraphManifest"  -> "Derived"
      [] OTHER                   -> "Opaque"

Record == [kind         : LiveKinds \cup {"Tombstone"},
           revision     : Revision,
           parent       : Revision \cup {None},
           body         : Bodies,
           ancestors    : SUBSET Revision,
           deleted_at   : Nat \cup {None},
           deleted_blob : BlobBodies \cup {None},
           deleted_kind : ManifestKinds \cup {None}]

ASSUME NoneIsNotRecord == None \notin Record

\* What a store holds at a key.
Slot == Record \cup {None}

IsTombstone(rec) == rec.kind = "Tombstone"
IsManifestTombstone(rec) == IsTombstone(rec) /\ rec.deleted_kind \in ManifestKinds
IsLive(slot) == slot # None /\ ~IsTombstone(slot)

\* Record::create: a record no store holds yet.
CreateRecord(kind, body) ==
    [kind |-> kind, revision |-> InitialRevision(body), parent |-> None,
     body |-> body, ancestors |-> {}, deleted_at |-> None,
     deleted_blob |-> None, deleted_kind |-> None]

\* Mutant: the new body goes in, the revision still names the old one.
UpdateKeepsHash(rec, body) ==
    [rec EXCEPT !.revision.counter = @ + 1, !.parent = rec.revision,
                !.body = body, !.ancestors = {}]

\* Record::update: the next version of a record the caller has read.
UpdateRecord(rec, body) ==
    [kind |-> rec.kind, revision |-> NextRevision(rec.revision, body),
     parent |-> rec.revision, body |-> body, ancestors |-> {},
     deleted_at |-> None, deleted_blob |-> None, deleted_kind |-> None]

(***************************************************************************)
(* Ancestry                                                                *)
(***************************************************************************)

\* The order of the list: counter descending, then hash descending.
Newer(r, s) == \/ r.counter > s.counter
               \/ r.counter = s.counter /\ r.hash > s.hash

\* The first cap entries of the sorted list.
Newest(revs, cap) ==
    {r \in revs : Cardinality({s \in revs : Newer(s, r)}) < cap}

Lineage(slot) == IF slot = None THEN {} ELSE {slot.revision} \cup slot.ancestors

\* Mutant: the chain of the record that is replaced is forgotten.
FoldForgetsChain(stored, incoming, current, cap) ==
    Newest((incoming \cup (IF current = None THEN {} ELSE {current.revision})) \ {stored}, cap)

FoldAncestors(stored, incoming, current, cap) ==
    Newest((incoming \cup Lineage(current)) \ {stored}, cap)

\* What deleting the live record current stores in its place.
TombstoneOf(current, now, cap) ==
    LET revision == [counter |-> current.revision.counter + 1,
                     hash    |-> TombstoneHash]
        retains  == current.kind \in ManifestKinds
    IN  [kind         |-> "Tombstone",
         revision     |-> revision,
         parent       |-> current.revision,
         body         |-> IF retains THEN current.body ELSE EmptyBody,
         ancestors    |-> FoldAncestors(revision, {}, current, cap),
         deleted_at   |-> now,
         deleted_blob |-> IF current.body \in BlobBodies THEN current.body ELSE None,
         deleted_kind |-> IF retains THEN current.kind ELSE None]

(***************************************************************************)
(* Planners.  A plan is an outcome and, for a write, the record to persist *)
(***************************************************************************)

Write(rec)   == [outcome |-> "Write", record |-> rec]
Plan(answer) == [outcome |-> answer, record |-> None]

\* Mutant: a recreated key starts over at its own revision.
RecreatedFromScratch(tomb, rec, cap) == rec

\* A new life at a deleted key: the revision continues past the tombstone.
Recreated(tomb, rec, cap) ==
    LET revision == NextRevision(tomb.revision, rec.body)
    IN  [rec EXCEPT !.revision     = revision,
                    !.parent       = tomb.revision,
                    !.ancestors    = FoldAncestors(revision, rec.ancestors, tomb, cap),
                    !.deleted_at   = None,
                    !.deleted_blob = None,
                    !.deleted_kind = None]

\* rec as it is persisted over slot: the store folds the chain in.
Persisted(slot, rec, cap) ==
    [rec EXCEPT !.ancestors = FoldAncestors(rec.revision, rec.ancestors, slot, cap)]

\* Mutant: an unconditional put overwrites a live record.
PutWithoutConflict(slot, rec, expected, cap) ==
    IF expected = None THEN Write(Persisted(slot, rec, cap)) ELSE Plan("Conflict")

\* Mutant: a create takes the place of any tombstone.
PutOverManifestTombstone(slot, rec, expected, cap) ==
    IF IsLive(slot) \/ expected # None THEN Plan("Conflict")
    ELSE Write(IF slot = None THEN rec ELSE Recreated(slot, rec, cap))

\* Consumer put.  expected is a revision or None.
PlanPut(slot, rec, expected, cap) ==
    CASE IsTombstone(rec) -> Plan("Rejected")
      [] ~IsTombstone(rec) /\ slot = None /\ expected # None -> Plan("NotFound")
      [] ~IsTombstone(rec) /\ slot = None /\ expected = None ->
            Write(Persisted(None, rec, cap))
      [] ~IsTombstone(rec) /\ slot # None /\ ~IsLive(slot) ->
            IF expected # None THEN Plan("NotFound")
            ELSE IF IsManifestTombstone(slot) THEN Plan("Rejected")
            ELSE Write(Recreated(slot, rec, cap))
      [] ~IsTombstone(rec) /\ IsLive(slot) ->
            IF expected = slot.revision THEN Write(Persisted(slot, rec, cap))
            ELSE Plan("Conflict")

\* Replication put: never re-stamps, and sees a tombstone as a record.
PlanPutRaw(slot, rec, expected, cap) ==
    CASE slot = None /\ expected = None -> Write(Persisted(None, rec, cap))
      [] slot = None /\ expected # None -> Plan("NotFound")
      [] slot # None -> IF expected = slot.revision
                        THEN Write(Persisted(slot, rec, cap))
                        ELSE Plan("Conflict")

\* Conditional delete; absent and already deleted keys write nothing.
PlanDelete(slot, expected, now, cap) ==
    IF ~IsLive(slot) THEN Plan("Noop")
    ELSE IF expected \in {None, slot.revision} THEN Write(TombstoneOf(slot, now, cap))
    ELSE Plan("Conflict")

\* Physical removal of exactly the named revision, whatever its kind.
PlanPurge(slot, expected) ==
    CASE slot = None -> Plan("Noop")
      [] slot # None -> IF slot.revision = expected THEN Plan("Remove")
                        ELSE Plan("Conflict")

\* The slot once a plan has been carried out.
Apply(slot, plan) == CASE plan.outcome = "Write"  -> plan.record
                       [] plan.outcome = "Remove" -> None
                       [] OTHER                   -> slot

(***************************************************************************)
(* What every stored record satisfies, whatever wrote it                    *)
(***************************************************************************)

\* The chain a record carries lies strictly behind it.
BehindItself(slot) ==
    slot # None => \A r \in slot.ancestors : r.counter < slot.revision.counter

\* A live record's revision carries its body's hash, a tombstone's the
\* tombstone hash.
NamesItsBody(slot) ==
    slot # None => slot.revision.hash = IF IsTombstone(slot) THEN TombstoneHash
                                        ELSE ContentHash[slot.body]

WellFormed(slot) == BehindItself(slot) /\ NamesItsBody(slot)

(***************************************************************************)
(* Reconciling two diverged records of one key (sync and git pull)         *)
(***************************************************************************)

ReconciledAncestors(stored, a, b, cap) ==
    FoldAncestors(stored, Lineage(a) \cup Lineage(b), None, cap)

TombstoneWinner(a, b, cap) ==
    LET winner == IF Newer(b.revision, a.revision) THEN b ELSE a
    IN  [winner EXCEPT !.ancestors = ReconciledAncestors(winner.revision, a, b, cap)]

ReconciledRecord(a, b, body, cap) ==
    LET ahead    == IF a.revision.counter >= b.revision.counter THEN a ELSE b
        revision == NextRevision(ahead.revision, body)
    IN  [kind |-> a.kind, revision |-> revision, parent |-> ahead.revision,
         body |-> body, ancestors |-> ReconciledAncestors(revision, a, b, cap),
         deleted_at |-> None, deleted_blob |-> None, deleted_kind |-> None]

=============================================================================
