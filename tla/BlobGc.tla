------------------------------- MODULE BlobGc -------------------------------
(***************************************************************************)
(* Blob garbage collection against the writers of manifests (gonzalo-core: *)
(* gc.rs, store.rs; the graph indexer of gonzalo-cli and the vector index   *)
(* of gonzalo-vector share the writer's shape; ADR 0024, ADR 0028).         *)
(*                                                                         *)
(* A writer uploads blobs, commits the manifest that names them, and then   *)
(* checks that what it newly referenced is still stored.  A sweep marks     *)
(* record by record, lists the blobs with their ages, and deletes one by    *)
(* one.  put_blob is write-if-absent and refreshes no timestamp.            *)
(***************************************************************************)
EXTENDS Records

CONSTANTS Keys,          \* record keys
          Blobs,         \* blob hashes
          ManifestBodies,\* the bodies writers commit
          Names,         \* manifest body -> the blobs it names
          BlobOf,        \* blob body -> the blob it refers to
          Writers,       \* indexing runs
          Sweeps,        \* collectors
          NoteKeys,      \* the keys that start as a record with a blob body
          Cap,           \* the ancestor cap
          MinAge,        \* SweepPolicy::min_age
          Horizon,       \* the age a tombstone must reach before collection
          Crashes,       \* whether writers may die
          MaxCounter,    \* bound: no write beyond this revision counter
          MaxClock,      \* bound: the clock stops here
          MaxSweeps      \* bound: sweeps started

ASSUME BlobGcAssumption ==
    /\ ManifestBodies \subseteq Bodies \ BlobBodies
    /\ Names \in [ManifestBodies -> SUBSET Blobs]
    /\ BlobOf \in [BlobBodies -> Blobs]
    /\ NoteKeys \subseteq Keys
    /\ NoteKeys # {} => BlobBodies # {}
    /\ None \notin BlobBodies \cup ManifestKinds
    /\ Cap \in Nat \ {0}
    /\ MinAge \in Nat \ {0}
    /\ Horizon \in Nat
    /\ Crashes \in BOOLEAN
    /\ MaxCounter \in Nat
    /\ MaxClock \in Nat
    /\ MaxSweeps \in Nat

VARIABLES records,   \* key -> the stored record, or None
          blobs,     \* blob -> when it was written, or None
          clock,
          writer,    \* writer -> its run
          sweep,     \* sweep -> its state
          sweeps,    \* how many sweeps were started
          exposed    \* history: blobs that a window in which a sweep acts on an old
                     \* decision leaves open

vars == <<records, blobs, clock, writer, sweep, sweeps, exposed>>

(***************************************************************************)
(* What a record references (live_blob_hashes)                             *)
(***************************************************************************)

\* The blob that is the body, the blob a tombstone pins, and the blobs a
\* manifest names, live or retained in its tombstone.
Refs(rec) ==
    {BlobOf[b] : b \in {rec.body, rec.deleted_blob} \cap BlobBodies}
    \cup (IF rec.kind \in ManifestKinds \/ IsManifestTombstone(rec)
          THEN Names[rec.body] ELSE {})

Referenced(k) == IF records[k] = None THEN {} ELSE Refs(records[k])

Resting == [pc |-> "idle", key |-> None, seen |-> None, body |-> EmptyBody,
            todo |-> {}, made |-> {}, since |-> 0]
NoSweep == [pc |-> "idle", todo |-> {}, live |-> {}, late |-> {}]

\* Some records with a blob body, their blobs stored, and nothing else.
Init == /\ \E note \in [NoteKeys -> BlobBodies] :
              /\ records = [k \in Keys |-> IF k \in NoteKeys THEN CreateRecord("Checkpoint", note[k])
                                           ELSE None]
              /\ blobs = [b \in Blobs |-> IF \E k \in NoteKeys : BlobOf[note[k]] = b
                                          THEN 0 ELSE None]
        /\ clock = 0
        /\ writer = [w \in Writers |-> Resting]
        /\ sweep = [g \in Sweeps |-> NoSweep]
        /\ sweeps = 0
        /\ exposed = {}

(***************************************************************************)
(* Writers                                                                 *)
(***************************************************************************)

\* Load the current manifest and decide what the next one is.  An incremental
\* run carries the blobs of unchanged paths forward without uploading them.
Load(w, k, body) ==
    LET seen    == IF IsLive(records[k]) THEN records[k] ELSE None
        carried == IF seen = None THEN {} ELSE Names[seen.body]
    IN  /\ writer[w].pc = "idle"
        /\ k \notin NoteKeys
        /\ \E upload \in {Names[body], Names[body] \ carried} :
              writer' = [writer EXCEPT ![w] = [Resting EXCEPT
                  !.pc = "upload", !.key = k, !.seen = seen, !.body = body,
                  !.todo = upload, !.since = clock]]
        /\ UNCHANGED <<records, blobs, clock, sweep, sweeps, exposed>>

\* put_blob: write-if-absent, and an existing blob keeps its timestamp.
PutBlob(b) == IF blobs[b] = None THEN [blobs EXCEPT ![b] = clock] ELSE blobs

Upload(w, b) ==
    /\ writer[w].pc = "upload"
    /\ b \in writer[w].todo
    /\ blobs' = PutBlob(b)
    /\ writer' = [writer EXCEPT ![w].todo = @ \ {b},
                                ![w].made = IF blobs[b] = None THEN @ \cup {b} ELSE @]
    /\ UNCHANGED <<records, clock, sweep, sweeps, exposed>>

\* Commit the manifest, if nobody else has; then check what it added.
Commit(w) ==
    LET run   == writer[w]
        fresh == run.seen = None
        rec   == IF fresh THEN CreateRecord("GraphManifest", run.body)
                 ELSE UpdateRecord(run.seen, run.body)
        plan  == PlanPut(records[run.key], rec, IF fresh THEN None ELSE run.seen.revision, Cap)
        added == Names[run.body] \ (IF fresh THEN {} ELSE Names[run.seen.body])
    IN  /\ run.pc = "upload" /\ run.todo = {}
        /\ plan.outcome = "Write" => plan.record.revision.counter <= MaxCounter
        /\ records' = [records EXCEPT ![run.key] = Apply(@, plan)]
        /\ writer' = [writer EXCEPT
              ![w] = IF plan.outcome = "Write"
                     THEN [Resting EXCEPT !.pc = "verify", !.todo = added, !.made = run.made]
                     ELSE Resting]
        /\ exposed' = exposed \cup
              IF plan.outcome = "Write" /\ \E g \in Sweeps : sweep[g].pc # "idle"
              THEN added ELSE {}
        /\ UNCHANGED <<blobs, clock, sweep, sweeps>>

\* ensure_slices_present, verify_shard_blobs: put back what a sweep took.
Verify(w, b) ==
    /\ writer[w].pc = "verify"
    /\ b \in writer[w].todo
    /\ blobs' = PutBlob(b)
    /\ writer' = [writer EXCEPT ![w].todo = @ \ {b}]
    /\ UNCHANGED <<records, clock, sweep, sweeps, exposed>>

Finish(w) ==
    /\ writer[w].pc = "verify" /\ writer[w].todo = {}
    /\ writer' = [writer EXCEPT ![w] = Resting]
    /\ UNCHANGED <<records, blobs, clock, sweep, sweeps, exposed>>

\* The process dies.  After its commit, the old blobs it has not yet checked are
\* what ADR 0028 says it can lose; the ones it made itself are not among them.
Crash(w) ==
    /\ Crashes
    /\ writer[w].pc # "idle"
    /\ writer' = [writer EXCEPT ![w] = Resting]
    /\ exposed' = exposed \cup IF writer[w].pc = "verify"
                               THEN writer[w].todo \ writer[w].made ELSE {}
    /\ UNCHANGED <<records, blobs, clock, sweep, sweeps>>

\* delete: the tombstone goes on referencing what its record did.
Delete(k) ==
    LET plan == PlanDelete(records[k], None, clock, Cap) IN
    /\ plan.outcome = "Write"
    /\ plan.record.revision.counter <= MaxCounter
    /\ records' = [records EXCEPT ![k] = plan.record]
    /\ UNCHANGED <<blobs, clock, writer, sweep, sweeps, exposed>>

\* collect: a tombstone past the horizon is purged, and its references with it.
Collect(k) ==
    /\ records[k] # None /\ IsTombstone(records[k])
    /\ clock - records[k].deleted_at >= Horizon
    /\ records' = [records EXCEPT ![k] = None]
    /\ UNCHANGED <<blobs, clock, writer, sweep, sweeps, exposed>>

(***************************************************************************)
(* Sweeps                                                                  *)
(***************************************************************************)

StartSweep(g) ==
    /\ sweep[g].pc = "idle"
    /\ sweeps < MaxSweeps
    /\ sweeps' = sweeps + 1
    /\ sweep' = [sweep EXCEPT ![g] = [NoSweep EXCEPT !.pc = "mark",
                                          !.todo = {k \in Keys : records[k] # None}]]
    /\ UNCHANGED <<records, blobs, clock, writer, exposed>>

\* Mutant: marking reads what consumers see, and tombstones pin nothing.
MarkVisible(g, k) ==
    /\ sweep[g].pc = "mark"
    /\ k \in sweep[g].todo
    /\ sweep' = [sweep EXCEPT ![g].todo = @ \ {k},
                              ![g].live = IF IsLive(records[k]) THEN @ \cup Referenced(k) ELSE @]
    /\ UNCHANGED <<records, blobs, clock, writer, sweeps, exposed>>

\* get_raw of one listed key; a record purged since then references nothing.
Mark(g, k) ==
    /\ sweep[g].pc = "mark"
    /\ k \in sweep[g].todo
    /\ sweep' = [sweep EXCEPT ![g].todo = @ \ {k}, ![g].live = @ \cup Referenced(k)]
    /\ UNCHANGED <<records, blobs, clock, writer, sweeps, exposed>>

\* BlobEntry::age against the policy; a blob from the future is too young.
OldEnough(b) == blobs[b] # None /\ clock - blobs[b] >= MinAge

\* sweep_blobs_with: list the blobs and decide which to free.
Decide(g) ==
    /\ sweep[g].pc = "mark" /\ sweep[g].todo = {}
    /\ sweep' = [sweep EXCEPT ![g] = [NoSweep EXCEPT !.pc = "free",
                     !.todo = {b \in Blobs \ sweep[g].live : OldEnough(b)}]]
    /\ UNCHANGED <<records, blobs, clock, writer, sweeps, exposed>>

\* delete_blob, on the decision made when the blobs were listed.  `late' is history:
\* what another sweep has freed since this one decided.  If such a blob is stored,
\* it was uploaded anew, and goes all the same.
Free(g, b) ==
    /\ sweep[g].pc = "free"
    /\ b \in sweep[g].todo
    /\ blobs' = [blobs EXCEPT ![b] = None]
    /\ sweep' = [h \in Sweeps |->
                    IF h = g THEN [sweep[h] EXCEPT !.todo = @ \ {b}, !.late = @ \ {b}]
                    ELSE [sweep[h] EXCEPT !.late = @ \cup (sweep[h].todo \cap {b})]]
    /\ exposed' = exposed \cup IF blobs[b] # None THEN sweep[g].late \cap {b} ELSE {}
    /\ UNCHANGED <<records, clock, writer, sweeps>>

\* The sweep returns, or dies on the way.
EndSweep(g) ==
    /\ sweep[g].pc # "idle"
    /\ sweep' = [sweep EXCEPT ![g] = NoSweep]
    /\ UNCHANGED <<records, blobs, clock, writer, sweeps, exposed>>

\* Time passes; "one hour exceeds the longest upload phase" (DEFAULT_MIN_AGE), so
\* no upload phase lasts for MinAge.
Tick ==
    /\ clock < MaxClock
    /\ \A w \in Writers : writer[w].pc = "upload" => clock + 1 - writer[w].since < MinAge
    /\ clock' = clock + 1
    /\ UNCHANGED <<records, blobs, writer, sweep, sweeps, exposed>>

(***************************************************************************)
(* Specification                                                           *)
(***************************************************************************)

WriterNext(w) ==
    \/ \E k \in Keys, body \in ManifestBodies : Load(w, k, body)
    \/ \E b \in Blobs : Upload(w, b) \/ Verify(w, b)
    \/ Commit(w)
    \/ Finish(w)
    \/ Crash(w)

SweepNext(g) ==
    \/ StartSweep(g)
    \/ \E k \in Keys : Mark(g, k)
    \/ Decide(g)
    \/ \E b \in Blobs : Free(g, b)
    \/ EndSweep(g)

Next == \/ \E w \in Writers : WriterNext(w)
        \/ \E g \in Sweeps : SweepNext(g)
        \/ \E k \in Keys : Delete(k) \/ Collect(k)
        \/ Tick

Spec == Init /\ [][Next]_vars

(***************************************************************************)
(* Properties                                                              *)
(***************************************************************************)

WriterRun == [pc : {"idle", "upload", "verify"}, key : Keys \cup {None},
              seen : Slot, body : Bodies, todo : SUBSET Blobs,
              made : SUBSET Blobs, since : Nat]
SweepRun == [pc : {"idle", "mark", "free"}, todo : SUBSET (Keys \cup Blobs),
             live : SUBSET Blobs, late : SUBSET Blobs]

\* Every variable holds what the code's types allow.
TypeOK ==
    /\ records \in [Keys -> Slot]
    /\ blobs \in [Blobs -> Nat \cup {None}]
    /\ clock \in 0..MaxClock
    /\ writer \in [Writers -> WriterRun]
    /\ sweep \in [Sweeps -> SweepRun]
    /\ sweeps \in 0..MaxSweeps
    /\ exposed \subseteq Blobs

\* Every blob a record references, its body, its tombstone's pin or a manifest's
\* entry, is stored, or the writer is about to put it back.  One may be lost only in
\* the two windows ADR 0028 leaves open (a sweep already under way when a manifest
\* newly names the blob, and a writer that dies before its check of an old blob) and
\* in one it does not name: two sweeps that decide on the same blob, and an upload of
\* it between their deletes.
ReferencedBlobsStored ==
    \A k \in Keys : \A b \in Referenced(k) :
        \/ blobs[b] # None
        \/ b \in exposed
        \/ \E w \in Writers : writer[w].pc = "verify" /\ b \in writer[w].todo

\* A sweep frees no blob younger than MinAge, however late its delete comes, unless
\* another sweep freed it first and it was uploaded again.
FreesOnlyOldBlobs ==
    [][\A b \in Blobs :
          blobs[b] # None /\ blobs'[b] = None
          => \/ clock - blobs[b] >= MinAge
             \/ \E g \in Sweeps : b \in sweep[g].late]_vars

\* Any number of sweeps are safe beside any number of writers: what is referenced
\* stays, and what goes is old.
SweepIsSafe == [](TypeOK /\ ReferencedBlobsStored) /\ FreesOnlyOldBlobs

(***************************************************************************)
(* The inductive invariant                                                 *)
(***************************************************************************)

\* Only manifests are written, under the keys that hold no note; a note is only ever
\* deleted and collected.
ManifestSlot(slot) == slot # None => /\ slot.kind = "GraphManifest" \/ IsManifestTombstone(slot)
                                     /\ slot.body \in ManifestBodies
NoteSlot(slot) == slot # None => slot.kind \notin ManifestKinds /\ ~IsManifestTombstone(slot)

RecordsSound ==
    \A k \in Keys : /\ WellFormed(records[k])
                    /\ IF k \in NoteKeys THEN NoteSlot(records[k]) ELSE ManifestSlot(records[k])

\* A blob a writer made in an upload phase is still too young to be freed.
UploadSound(run) ==
    /\ run.key \in Keys \ NoteKeys
    /\ run.body \in ManifestBodies
    /\ run.seen # None => IsLive(run.seen) /\ WellFormed(run.seen) /\ ManifestSlot(run.seen)
    /\ run.since <= clock /\ clock - run.since < MinAge
    /\ \A b \in run.made : b \in exposed \/ (blobs[b] # None /\ blobs[b] >= run.since)

WritersSound == \A w \in Writers : writer[w].pc = "upload" => UploadSound(writer[w])

\* A sweep that marks has seen every reference, has it to see, or it came later.
MarkSound(s) ==
    \A k \in Keys : \A b \in Referenced(k) : k \in s.todo \/ b \in s.live \/ b \in exposed

\* What a sweep has decided to free is old while no other sweep has freed it, and is
\* referenced only since then.
FreeSound(s) ==
    /\ s.todo \subseteq Blobs
    /\ \A b \in s.todo \ s.late : blobs[b] # None /\ clock - blobs[b] >= MinAge
    /\ \A k \in Keys : \A b \in Referenced(k) : b \in s.todo => b \in exposed

SweepsSound == \A g \in Sweeps : /\ sweep[g].pc = "mark" => MarkSound(sweep[g])
                                 /\ sweep[g].pc = "free" => FreeSound(sweep[g])

\* The writer that has yet to put a blob back did not make it itself.
StoredOrAwaited(b) ==
    \/ blobs[b] # None
    \/ b \in exposed
    \/ \E w \in Writers : writer[w].pc = "verify" /\ b \in writer[w].todo \ writer[w].made

LostIsAwaited == \A k \in Keys : \A b \in Referenced(k) : StoredOrAwaited(b)

GcInv == TypeOK /\ RecordsSound /\ WritersSound /\ SweepsSound /\ LostIsAwaited
=============================================================================
