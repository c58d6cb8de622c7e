---------------------------- MODULE Conformance ----------------------------
(***************************************************************************)
(* The conformance suite every Store must pass (gonzalo-core:              *)
(* conformance.rs), against the planners and the ancestry decorator         *)
(* (ancestry.rs, tombstone.rs).  The suite asserts each case once, on a     *)
(* fresh store; here each case is a relation between a call, what it found  *)
(* and what it left, and it must hold of every call in every history of     *)
(* consumer writes, replication writes, deletes and purges of one key.      *)
(* Times are part of this model alone: the planners stamp them but decide   *)
(* nothing by them.                                                        *)
(***************************************************************************)
EXTENDS StoreCalls

CONSTANTS Cap,          \* the ancestor cap of the store
          Kinds,        \* the kinds the suite writes
          MaxCounter,   \* bound: revisions stop rising here
          MaxClock      \* bound: ticks of the clock

VARIABLES slot,      \* the record at the suite's key
          times,     \* its meta.created, meta.updated and meta.author
          clock,     \* now_ms
          blobs,     \* the hashes the ancestry blob store holds
          last,      \* the last call: what it was given, found and answered
          held,      \* each revision the key has had since it was absent, and what it held
          chain,     \* the revisions those records were or named as ancestors
          born       \* when the key's present life began, None once replicated

vars == <<slot, times, clock, blobs, last, held, chain, born>>

NoTimes == [created |-> 0, updated |-> 0, author |-> None]
NoCall == [op |-> "none", record |-> None, expected |-> None, before |-> None,
           stamps |-> NoTimes, answer |-> "none"]

Init == /\ slot = None /\ times = NoTimes /\ clock = 1 /\ blobs = {}
        /\ last = NoCall /\ held = {} /\ chain = {} /\ born = None

\* A revision that was never current.
Wrong == [counter |-> 0, hash |-> 0]

\* sample: what a client builds, for a key it believes absent.
sample(kind, body) == CreateRecord(kind, body)

\* A tombstone built by hand, which only replication may write.
HandMade == [sample("Topic", EmptyBody) EXCEPT !.kind = "Tombstone", !.deleted_at = 1]

\* A peer's version: its own revision, ahead of ours, and a list of ancestors
\* longer than the cap that names the record itself.
Peer(body, ahead) ==
    LET from     == IF slot = None THEN 0 ELSE slot.revision.counter
        revision == [counter |-> from + ahead, hash |-> ContentHash[body]]
    IN  [sample("Topic", body) EXCEPT
            !.revision  = revision,
            !.parent    = IF slot = None THEN None ELSE slot.revision,
            !.ancestors = {revision} \cup
                          {[counter |-> n, hash |-> 9] : n \in 0..(from + ahead - 1)}]

(***************************************************************************)
(* One call                                                                *)
(***************************************************************************)

\* The times and author stored with a write.
Stamp(op, given, now) ==
    CASE op = "put_raw" -> given
      [] op = "put"     -> [created |-> IF IsLive(slot) THEN times.created ELSE now,
                            updated |-> now, author |-> given.author]
      [] op = "delete"  -> [times EXCEPT !.updated = now,
                               !.author = IF given.author = None THEN @ ELSE given.author]

Answer(op, outcome) ==
    CASE outcome \in {"Noop", "Remove"}           -> "Deleted"
      [] outcome = "Write" /\ op = "delete"       -> "Deleted"
      [] outcome = "Write" /\ op # "delete"       -> "Committed"
      [] outcome = "Rejected"                     -> "Invalid"
      [] OTHER                                    -> outcome

\* What the key's history and life become.
Remember(plan, op, rec) ==
    /\ held' = CASE plan.outcome = "Write"  ->
                      held \cup {<<plan.record.revision, plan.record.kind, plan.record.body,
                                  plan.record.deleted_blob>>}
                 [] plan.outcome = "Remove" -> {}
                 [] OTHER                   -> held
    /\ chain' = CASE plan.outcome = "Write" ->
                       chain \cup {plan.record.revision}
                             \cup (IF rec = None THEN {} ELSE rec.ancestors)
                  [] plan.outcome = "Remove" -> {}
                  [] OTHER                   -> chain
    /\ born' = CASE plan.outcome = "Write" /\ op = "put_raw" -> None
                 [] plan.outcome = "Write" /\ op = "put" /\ ~IsLive(slot) -> clock
                 [] plan.outcome = "Remove" -> None
                 [] OTHER -> born

Perform(op, plan, rec, expected, given, answer) ==
    /\ plan.outcome = "Write" => plan.record.revision.counter <= MaxCounter
    /\ slot' = Apply(slot, plan)
    /\ times' = CASE plan.outcome = "Write"  -> Stamp(op, given, clock)
                  [] plan.outcome = "Remove" -> NoTimes
                  [] OTHER                   -> times
    /\ last' = [op |-> op, record |-> rec, expected |-> expected, before |-> slot,
                stamps |-> IF op = "put_raw" THEN given ELSE times,
                answer |-> answer]
    /\ Remember(plan, op, rec)
    /\ UNCHANGED clock

Expectations == {None, Wrong} \cup (IF slot = None THEN {} ELSE {slot.revision})
Client == [created |-> 9, updated |-> 9, author |-> "tester"]

\* AncestryStore: a committed body is retained under its content hash.
Retain(op, plan, rec) ==
    IF plan.outcome = "Write" THEN blobs \cup {ContentHash[rec.body]} ELSE blobs

\* The record commits first: when the blob store then fails, the caller gets an
\* error for a write that stands.
Put(op, plan, rec, expected, given) ==
    \/ /\ Perform(op, plan, rec, expected, given, Answer(op, plan.outcome))
       /\ blobs' = Retain(op, plan, rec)
    \/ /\ plan.outcome = "Write"
       /\ Perform(op, plan, rec, expected, given, "Error")
       /\ UNCHANGED blobs

\* A consumer creates with what it built, edits with what follows the record it
\* read, and may hand in a tombstone.
Built == {sample(kind, body) : kind \in Kinds, body \in Bodies}
Edited == {UpdateRecord(slot, body) : body \in Bodies}

ConsumerPut ==
    \E expected \in Expectations :
    \E rec \in {HandMade} \cup (IF IsLive(slot) /\ expected = slot.revision THEN Edited ELSE Built) :
        Put("put", PlanPut(slot, rec, expected, Cap), rec, expected, Client)

ReplicationPut ==
    \E expected \in Expectations :
    \E rec \in {Peer(body, ahead) : body \in Bodies, ahead \in 1..2}
               \cup (IF expected = None THEN Built ELSE {}) :
        Put("put_raw", PlanPutRaw(slot, rec, expected, Cap), rec, expected, Client)

DeleteAs ==
    \E expected \in Expectations, author \in {None, "deleter"} :
        LET plan == PlanDelete(slot, expected, clock, Cap)
        IN  /\ Perform("delete", plan, None, expected, [NoTimes EXCEPT !.author = author],
                       Answer("delete", plan.outcome))
                    /\ UNCHANGED blobs

Purge ==
    \E expected \in Expectations \ {None} :
        LET plan == PlanPurge(slot, expected)
        IN  /\ Perform("purge", plan, None, expected, NoTimes, Answer("purge", plan.outcome))
            /\ UNCHANGED blobs

Tick == /\ clock < MaxClock
        /\ clock' = clock + 1
        /\ last' = NoCall
        /\ UNCHANGED <<slot, times, blobs, held, chain, born>>

Next == ConsumerPut \/ ReplicationPut \/ DeleteAs \/ Purge \/ Tick

Spec == Init /\ [][Next]_vars
(***************************************************************************)
(* The cases.  before is what the call found, slot what it left.            *)
(***************************************************************************)

before == last.before
Called(op) == last.op = op
Named == before # None /\ last.expected = before.revision
Refused(answer) == last.answer = answer /\ slot = before

put_then_get_roundtrips ==
    Called("put") /\ before = None /\ last.expected = None /\ ~IsTombstone(last.record)
        => last.answer \in {"Committed", "Error"} /\ slot = last.record

stale_expected_returns_conflict ==
    Called("put") /\ IsLive(before) /\ ~Named /\ ~IsTombstone(last.record)
        => Refused("Conflict")

update_commits_then_stale_update_conflicts ==
    Called("put") /\ IsLive(before) /\ Named /\ ~IsTombstone(last.record)
        => slot.revision = last.record.revision /\ slot.revision # before.revision

delete_hides_from_get_and_list ==
    Called("delete") /\ last.expected = None => last.answer = "Deleted" /\ ~IsLive(slot)

delete_matching_expected_removes ==
    Called("delete") /\ Named => last.answer = "Deleted" /\ ~IsLive(slot)

delete_visible_to_raw_reads ==
    Called("delete") /\ IsLive(before) /\ slot # before =>
        /\ IsTombstone(slot)
        /\ before.kind \notin ManifestKinds => slot.body = EmptyBody
        /\ slot.deleted_at = clock
        /\ slot.revision = [counter |-> before.revision.counter + 1, hash |-> TombstoneHash]
        /\ slot.parent = before.revision
        /\ before.revision \in slot.ancestors
        /\ \A r \in slot.ancestors : r = before.revision \/ Newer(before.revision, r)

tombstone_pins_the_deleted_records_blob ==
    Called("delete") /\ IsLive(before) /\ slot # before =>
        slot.deleted_blob = IF before.body \in BlobBodies THEN before.body ELSE None

tombstone_retains_a_manifest_body ==
    Called("delete") /\ IsLive(before) /\ slot # before /\ before.kind \in ManifestKinds
        => slot.body = before.body /\ slot.deleted_kind = before.kind

delete_stale_expected_writes_no_tombstone ==
    Called("delete") /\ IsLive(before) /\ last.expected # None /\ ~Named => Refused("Conflict")

delete_of_absent_key_writes_nothing ==
    Called("delete") /\ before = None => last.answer = "Deleted" /\ slot = None

delete_of_tombstone_is_noop ==
    Called("delete") /\ before # None /\ IsTombstone(before) => Refused("Deleted")

tombstone_never_collides_with_empty_body ==
    Called("delete") /\ IsLive(before) /\ slot # before
        => slot.revision # NextRevision(before.revision, EmptyBody)

OverTombstone == before # None /\ IsTombstone(before)

recreate_continues_chain ==
    Called("put") /\ OverTombstone /\ slot # before =>
        /\ last.expected = None
        /\ slot.revision = NextRevision(before.revision, last.record.body)
        /\ slot.parent = before.revision
        /\ slot.deleted_at = None /\ slot.deleted_blob = None
        /\ before.revision \in slot.ancestors
        /\ \A r \in slot.ancestors : r = before.revision \/ Newer(before.revision, r)

create_over_a_manifest_tombstone_is_refused ==
    Called("put") /\ OverTombstone /\ before.deleted_kind \in ManifestKinds /\ last.expected = None
        => Refused("Invalid")

put_some_over_tombstone_is_not_found ==
    Called("put") /\ OverTombstone /\ last.expected # None /\ ~IsTombstone(last.record)
        => Refused("NotFound")

consumer_put_of_a_tombstone_is_rejected ==
    Called("put") /\ IsTombstone(last.record) => Refused("Invalid")

put_raw_create_over_tombstone_conflicts ==
    Called("put_raw") /\ before # None /\ last.expected = None => Refused("Conflict")

replication_overwrite_of_tombstone ==
    Called("put_raw") /\ OverTombstone /\ Named =>
        slot.body = last.record.body /\ before.revision \in slot.ancestors

put_raw_never_restamps ==
    Called("put_raw") /\ slot # before => slot.revision = last.record.revision

put_raw_truncates_ancestors_and_excludes_own_revision ==
    Called("put_raw") /\ slot # before =>
        slot.revision \notin slot.ancestors /\ Cardinality(slot.ancestors) <= Cap

put_raw_keeps_the_source_times ==
    Called("put_raw") /\ slot # before => times = last.stamps

store_stamps_record_times ==
    /\ Called("put") /\ slot # before =>
          /\ times.updated = clock
          /\ times.created = IF IsLive(before) THEN last.stamps.created ELSE clock
    /\ Called("delete") /\ slot # before =>
          times.created = last.stamps.created /\ times.updated = slot.deleted_at

purge_removes_physically == Called("purge") /\ Named => last.answer = "Deleted" /\ slot = None

purge_absent_is_noop == Called("purge") /\ before = None => last.answer = "Deleted" /\ slot = None

purge_conflicts_after_recreation ==
    Called("purge") /\ before # None /\ ~Named => Refused("Conflict")

(***************************************************************************)
(* Properties                                                              *)
(***************************************************************************)

\* Every consumer case of the suite holds of every call in every history: what
\* put, delete and purge answer and leave (run_store_conformance).
ConsumerCasesHold ==
    /\ put_then_get_roundtrips
    /\ stale_expected_returns_conflict
    /\ update_commits_then_stale_update_conflicts
    /\ delete_hides_from_get_and_list
    /\ delete_matching_expected_removes
    /\ delete_stale_expected_writes_no_tombstone
    /\ purge_removes_physically
    /\ purge_absent_is_noop
    /\ purge_conflicts_after_recreation

\* So does every tombstone case: what a delete leaves behind, and what may take
\* its place (run_tombstone_conformance).
TombstoneCasesHold ==
    /\ delete_visible_to_raw_reads
    /\ tombstone_pins_the_deleted_records_blob
    /\ tombstone_retains_a_manifest_body
    /\ delete_of_absent_key_writes_nothing
    /\ delete_of_tombstone_is_noop
    /\ tombstone_never_collides_with_empty_body
    /\ recreate_continues_chain
    /\ create_over_a_manifest_tombstone_is_refused
    /\ put_some_over_tombstone_is_not_found
    /\ consumer_put_of_a_tombstone_is_rejected

\* So does every replication case: sync's writes are stored as they come, and
\* never stand for a recreation (put_raw).
ReplicationCasesHold ==
    /\ put_raw_create_over_tombstone_conflicts
    /\ replication_overwrite_of_tombstone
    /\ put_raw_never_restamps
    /\ put_raw_truncates_ancestors_and_excludes_own_revision
    /\ put_raw_keeps_the_source_times

\* However writes, deletes, recreations and replication mix, the stored chain is
\* the newest Cap revisions of everything the key has been or been told of since
\* it was last absent: folding step by step loses nothing the cap has room for
\* (ancestors_capped_and_ordered; fold_ancestors).
ChainIsTheNewest ==
    slot # None => slot.ancestors = Newest(chain \ {slot.revision}, Cap)

\* Between two purges one revision names one content, a tombstone's pin included:
\* so a delete or purge that names a revision acts on the record that was read
\* (independent_deletes_are_identical, tombstone_never_collides_with_empty_body).
RevisionNamesOneContent == \A x, y \in held : x[1] = y[1] => x = y

\* A consumer life's created is the instant it began, through every edit and its
\* delete, and a recreation starts another (store_stamps_record_times).
TimesFollowLives ==
    /\ store_stamps_record_times
    /\ born # None => times.created = born /\ times.updated >= born

\* A put that answers Committed has retained its body for a later merge, local or
\* replicated; a failure in between is answered as an error (AncestryStore::put,
\* put_raw).
CommittedIsRetained ==
    last.answer = "Committed" => ContentHash[last.record.body] \in blobs

\* The suite's promises hold in every history of calls, not only in those its cases make:
\* what each call answers and leaves, what chains, revisions and times then say of the
\* key's lives, and that a committed body is retained (conformance.rs).
SuiteHolds == /\ ConsumerCasesHold /\ TombstoneCasesHold /\ ReplicationCasesHold
              /\ ChainIsTheNewest /\ RevisionNamesOneContent /\ TimesFollowLives
              /\ CommittedIsRetained
=============================================================================
