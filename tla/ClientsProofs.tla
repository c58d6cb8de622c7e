---------------------------- MODULE ClientsProofs ---------------------------
(***************************************************************************)
(* Sweeps are safe beside writers, for any number of both, any records,     *)
(* blobs, ages and crashes.                                                 *)
(*                                                                         *)
(* That every referenced blob is stored is not inductive.  GcInv adds what   *)
(* each actor in flight has a right to: a writer, that what it uploaded      *)
(* itself is too young to be freed while it uploads; a sweep, that it has    *)
(* marked every reference older than itself, and that what it decided to     *)
(* free is old as long as it is the first to free it.                        *)
(*                                                                         *)
(* The second part is about Fleet: a link token is redeemed once at a site.   *)
(*                                                                         *)
(* The last is about Tickets: an import that ends well has mirrored what      *)
(* nobody else touched.  MirrorInv says it of an import under way: an item   *)
(* of the pages before its cursor is mirrored, or among the tickets it has   *)
(* yet to upsert, and those say what the provider says.                       *)
(***************************************************************************)
EXTENDS StoreClients, Sequences, RecordsProofs

CONSTANTS Sites, Redeemers, Accounts, Persons, ExpiresAt, MaxTime     \* of Fleet

VARIABLES token, attempt, bindings, clashed, time                     \* of Fleet

F == INSTANCE Fleet WITH now <- time

(***************************************************************************)
(* What a record references                                                *)
(***************************************************************************)

\* A stored record refers to blobs only (live_blob_hashes).
LEMMA ReferencedAreBlobs ==
    ASSUME TypeOK, RecordsSound, NEW k \in Keys
    PROVE  Referenced(k) \subseteq Blobs
<1>1. CASE records[k] = None BY <1>1 DEF Referenced
<1>2. CASE records[k] # None
  <2>1. records[k] \in Record BY <1>2 DEF TypeOK, Slot
  <2>2. {BlobOf[b] : b \in {records[k].body, records[k].deleted_blob} \cap BlobBodies} \subseteq Blobs
    BY BlobGcAssumption
  <2>3. records[k].kind \in ManifestKinds \/ IsManifestTombstone(records[k])
        => Names[records[k].body] \subseteq Blobs
    BY <1>2, BlobGcAssumption DEF RecordsSound, NoteSlot, ManifestSlot
  <2> QED BY <1>2, <2>2, <2>3 DEF Referenced, Refs
<1> QED BY <1>1, <1>2

\* A live manifest references exactly what it names.
LEMMA ManifestReferences ==
    ASSUME NEW rec \in Record, rec.kind = "GraphManifest", rec.body \in ManifestBodies,
           rec.deleted_blob = None
    PROVE  Refs(rec) = Names[rec.body]
<1>1. {rec.body, rec.deleted_blob} \cap BlobBodies = {} BY BlobGcAssumption
<1>2. rec.kind \in ManifestKinds BY DEF ManifestKinds
<1> QED BY <1>1, <1>2 DEF Refs

\* The tombstone of a record references no more than the record did: it pins the blob
\* that was the body and keeps a manifest's body (tombstone_of).
LEMMA TombstoneReferences ==
    ASSUME NEW rec \in Record, ~IsTombstone(rec), NEW now, NEW cap
    PROVE  Refs(TombstoneOf(rec, now, cap)) \subseteq Refs(rec)
<1> DEFINE t == TombstoneOf(rec, now, cap)
<1>1. /\ t.kind = "Tombstone"
      /\ t.body = IF rec.kind \in ManifestKinds THEN rec.body ELSE EmptyBody
      /\ t.deleted_blob = IF rec.body \in BlobBodies THEN rec.body ELSE None
      /\ t.deleted_kind = IF rec.kind \in ManifestKinds THEN rec.kind ELSE None
  BY DEF TombstoneOf
<1> HIDE DEF t
<1>2. {t.body, t.deleted_blob} \cap BlobBodies \subseteq {rec.body}
  BY <1>1, BlobGcAssumption, BodiesAssumption
<1>3. {BlobOf[b] : b \in {t.body, t.deleted_blob} \cap BlobBodies}
      \subseteq {BlobOf[b] : b \in {rec.body, rec.deleted_blob} \cap BlobBodies}
  BY <1>2
<1>4. t.kind \in ManifestKinds \/ IsManifestTombstone(t) => rec.kind \in ManifestKinds /\ t.body = rec.body
  BY <1>1, BlobGcAssumption DEF ManifestKinds, IsManifestTombstone, IsTombstone
<1>5. Refs(t) \subseteq Refs(rec) BY <1>3, <1>4 DEF Refs
<1> QED BY <1>5 DEF t

\* Deleting keeps a slot of its sort.
LEMMA TombstoneSorted ==
    ASSUME NEW rec \in Record, ~IsTombstone(rec), NEW now, NEW cap
    PROVE  /\ ManifestSlot(rec) => ManifestSlot(TombstoneOf(rec, now, cap))
           /\ NoteSlot(rec) => NoteSlot(TombstoneOf(rec, now, cap))
<1> DEFINE t == TombstoneOf(rec, now, cap)
<1>1. /\ t.kind = "Tombstone"
      /\ t.body = IF rec.kind \in ManifestKinds THEN rec.body ELSE EmptyBody
      /\ t.deleted_kind = IF rec.kind \in ManifestKinds THEN rec.kind ELSE None
  BY DEF TombstoneOf
<1>2. rec # None BY NoneIsNotRecord
<1> HIDE DEF t
<1>3. ManifestSlot(rec) => ManifestSlot(t)
  BY <1>1, <1>2 DEF ManifestSlot, IsManifestTombstone, IsTombstone, ManifestKinds
<1>4. NoteSlot(rec) => NoteSlot(t)
  BY <1>1, <1>2, BlobGcAssumption DEF NoteSlot, IsManifestTombstone, IsTombstone, ManifestKinds
<1> QED BY <1>3, <1>4 DEF t
(***************************************************************************)
(* The first state                                                         *)
(***************************************************************************)

\* A store of notes with their blobs and nobody at work satisfies the invariant.
LEMMA InitGcInv == Init => GcInv
<1> SUFFICES ASSUME Init PROVE GcInv OBVIOUS
<1>1. PICK note \in [NoteKeys -> BlobBodies] :
         /\ records = [k \in Keys |-> IF k \in NoteKeys THEN CreateRecord("Checkpoint", note[k])
                                      ELSE None]
         /\ blobs = [b \in Blobs |-> IF \E k \in NoteKeys : BlobOf[note[k]] = b THEN 0 ELSE None]
  BY DEF Init
<1>2. "Checkpoint" \in LiveKinds /\ "Checkpoint" \notin ManifestKinds
  BY DEF LiveKinds, ManifestKinds
<1>3. \A k \in NoteKeys : k \in Keys /\ note[k] \in BlobBodies /\ note[k] \in Bodies
  BY BlobGcAssumption, BodiesAssumption
<1>4. ASSUME NEW k \in NoteKeys
      PROVE  /\ records[k] \in Record /\ WellFormed(records[k]) /\ NoteSlot(records[k])
             /\ Referenced(k) \subseteq {BlobOf[note[k]]}
  <2> DEFINE rec == CreateRecord("Checkpoint", note[k])
  <2>1. records[k] = rec BY <1>1, <1>3
  <2>2. rec \in Record /\ WellFormed(rec) /\ ~IsTombstone(rec)
    BY <1>2, <1>3, CreateWellFormed
  <2>3. rec.kind = "Checkpoint" /\ rec.body = note[k] /\ rec.deleted_blob = None
    BY DEF CreateRecord
  <2> HIDE DEF rec
  <2>4. Refs(rec) \subseteq {BlobOf[note[k]]}
    BY <1>2, <2>2, <2>3, BlobGcAssumption DEF Refs, IsManifestTombstone
  <2>5. NoteSlot(rec) BY <1>2, <2>2, <2>3 DEF NoteSlot, IsManifestTombstone
  <2> QED BY <2>1, <2>2, <2>4, <2>5, NoneIsNotRecord DEF Referenced
<1>5. ASSUME NEW k \in Keys, k \notin NoteKeys PROVE records[k] = None /\ Referenced(k) = {}
  BY <1>1, <1>5 DEF Referenced
<1>6. TypeOK
  <2>1. Resting \in WriterRun
    BY BodiesAssumption DEF Resting, WriterRun, Slot
  <2>2. NoSweep \in SweepRun BY DEF NoSweep, SweepRun
  <2>3. records \in [Keys -> Slot] BY <1>1, <1>4, <1>5 DEF Slot
  <2>4. blobs \in [Blobs -> Nat \cup {None}] BY <1>1
  <2> QED BY <2>1, <2>2, <2>3, <2>4, BlobGcAssumption DEF Init, TypeOK
<1>7. RecordsSound
  BY <1>4, <1>5 DEF RecordsSound, WellFormed, BehindItself, NamesItsBody, ManifestSlot
<1>8. WritersSound BY DEF Init, WritersSound, Resting
<1>9. SweepsSound BY DEF Init, SweepsSound, NoSweep
<1>10. LostIsAwaited
  <2> SUFFICES ASSUME NEW k \in Keys, NEW b \in Referenced(k) PROVE blobs[b] # None
    BY DEF LostIsAwaited, StoredOrAwaited
  <2>1. k \in NoteKeys BY <1>5
  <2>2. b = BlobOf[note[k]] /\ b \in Blobs BY <1>3, <1>4, <2>1, BlobGcAssumption
  <2>3. blobs[b] = 0 BY <1>1, <2>1, <2>2
  <2> QED BY <2>3, NoneAssumption
<1> QED BY <1>6, <1>7, <1>8, <1>9, <1>10 DEF GcInv

(***************************************************************************)
(* What an actor has a right to survives the steps of the others            *)
(***************************************************************************)

\* A stored blob goes only when it is old, or when its loss is on record.
BlobsStay == \A b \in Blobs : blobs[b] # None =>
                \/ blobs'[b] = blobs[b]
                \/ clock - blobs[b] >= MinAge
                \/ b \in exposed'

\* The references a step adds are in S.
RefsGrowBy(S) == \A k \in Keys : Referenced(k)' \subseteq Referenced(k) \cup S

\* An upload phase stays sound while blobs stay and time stands still.
LEMMA UploadKept ==
    ASSUME GcInv, NEW w \in Writers, writer[w].pc = "upload", writer'[w] = writer[w],
           clock' = clock, exposed \subseteq exposed', BlobsStay
    PROVE  UploadSound(writer[w])'
<1> DEFINE run == writer[w]
<1>1. UploadSound(run) BY DEF GcInv, WritersSound
<1>2. run.made \subseteq Blobs /\ run.since \in Nat /\ clock \in Nat /\ MinAge \in Nat
  BY BlobGcAssumption DEF GcInv, TypeOK, WriterRun
<1>3. \A b \in Blobs : blobs[b] \in Nat \cup {None} BY DEF GcInv, TypeOK
<1>4. ASSUME NEW b \in run.made
      PROVE  b \in exposed' \/ (blobs'[b] # None /\ blobs'[b] >= run.since)
  <2>1. CASE b \in exposed BY <2>1
  <2>2. CASE blobs[b] # None /\ blobs[b] >= run.since
    <3>1. b \in Blobs /\ blobs[b] \in Nat BY <1>2, <1>3, <2>2
    <3>2. ~(clock - blobs[b] >= MinAge) BY <1>1, <1>2, <2>2, <3>1 DEF UploadSound
    <3>3. blobs'[b] = blobs[b] \/ b \in exposed' BY <2>2, <3>1, <3>2 DEF BlobsStay
    <3> QED BY <2>2, <3>3
  <2> QED BY <1>1, <2>1, <2>2 DEF UploadSound
<1> QED BY <1>1, <1>4 DEF UploadSound

\* A sweep's marks and decisions stay sound while new references are on record and
\* what it is to free, and is first to free, stays.
LEMMA SweepKept ==
    ASSUME GcInv, NEW g \in Sweeps, sweep'[g] = sweep[g], clock' \in Nat, clock' >= clock,
           exposed \subseteq exposed',
           sweep[g].pc # "idle" => RefsGrowBy(exposed'),
           sweep[g].pc = "free" =>
              \A b \in sweep[g].todo \ sweep[g].late : blobs[b] # None => blobs'[b] = blobs[b]
    PROVE  /\ sweep'[g].pc = "mark" => MarkSound(sweep[g])'
           /\ sweep'[g].pc = "free" => FreeSound(sweep[g])'
<1> DEFINE s == sweep[g]
<1>1. ASSUME s.pc = "mark" PROVE MarkSound(s)'
  <2>1. MarkSound(s) BY <1>1 DEF GcInv, SweepsSound
  <2>2. RefsGrowBy(exposed') BY <1>1
  <2> QED BY <2>1, <2>2 DEF MarkSound, RefsGrowBy
<1>2. ASSUME s.pc = "free" PROVE FreeSound(s)'
  <2>1. FreeSound(s) BY <1>2 DEF GcInv, SweepsSound
  <2>2. RefsGrowBy(exposed') BY <1>2
  <2>3. ASSUME NEW b \in s.todo \ s.late
        PROVE  blobs'[b] # None /\ clock' - blobs'[b] >= MinAge
    <3>1. b \in Blobs /\ blobs[b] # None /\ clock - blobs[b] >= MinAge
      BY <2>1 DEF FreeSound
    <3>2. blobs[b] \in Nat /\ clock \in Nat /\ MinAge \in Nat
      BY <3>1, BlobGcAssumption DEF GcInv, TypeOK
    <3>3. blobs'[b] = blobs[b] BY <1>2, <3>1
    <3> QED BY <3>1, <3>2, <3>3
  <2>4. ASSUME NEW k \in Keys, NEW b \in Referenced(k)', b \in s.todo PROVE b \in exposed'
    BY <2>1, <2>2, <2>4 DEF FreeSound, RefsGrowBy
  <2> QED BY <2>1, <2>3, <2>4 DEF FreeSound
<1> QED BY <1>1, <1>2
\* What was stored or awaited stays so while each blob stays, is put back, or its
\* loss is on record.
LEMMA LostKept ==
    ASSUME GcInv, exposed \subseteq exposed', NEW S, RefsGrowBy(S),
           \A b \in S : StoredOrAwaited(b)',
           \A k \in Keys : \A b \in Referenced(k) :
              blobs[b] # None => blobs'[b] # None \/ b \in exposed',
           \A w \in Writers : writer[w].pc = "verify" =>
              \A b \in writer[w].todo \ writer[w].made : StoredOrAwaited(b)'
    PROVE  LostIsAwaited'
<1> SUFFICES ASSUME NEW k \in Keys, NEW b \in Referenced(k)' PROVE StoredOrAwaited(b)'
  BY DEF LostIsAwaited
<1>1. CASE b \in S BY <1>1
<1>2. CASE b \in Referenced(k)
  <2>1. StoredOrAwaited(b) BY <1>2 DEF GcInv, LostIsAwaited
  <2>2. CASE blobs[b] # None BY <1>2, <2>2 DEF StoredOrAwaited
  <2>3. CASE b \in exposed BY <2>3 DEF StoredOrAwaited
  <2>4. CASE \E w \in Writers : writer[w].pc = "verify" /\ b \in writer[w].todo \ writer[w].made
    BY <2>4
  <2> QED BY <2>1, <2>2, <2>3, <2>4 DEF StoredOrAwaited
<1> QED BY <1>1, <1>2 DEF RefsGrowBy

\* A step that leaves the records alone adds no reference.
LEMMA SameRecords ==
    ASSUME GcInv, records' = records
    PROVE  RecordsSound' /\ \A S : RefsGrowBy(S)
BY DEF GcInv, RecordsSound, RefsGrowBy, Referenced, NoteSlot, ManifestSlot

\* put_blob adds a blob if it is absent, and no more.
LEMMA PutBlobAdds ==
    ASSUME TypeOK, NEW b \in Blobs, blobs' = PutBlob(b)
    PROVE  /\ blobs' \in [Blobs -> Nat \cup {None}]
           /\ blobs'[b] # None
           /\ \A x \in Blobs : blobs[x] # None => blobs'[x] = blobs[x]
           /\ blobs[b] = None => blobs'[b] = clock
BY NoneAssumption, BlobGcAssumption DEF TypeOK, PutBlob

(***************************************************************************)
(* Writers                                                                 *)
(***************************************************************************)

\* Loading a manifest starts an upload phase, with nothing made yet.
LEMMA LoadKeeps ==
    ASSUME GcInv, NEW w \in Writers, NEW k \in Keys, NEW body \in ManifestBodies, Load(w, k, body)
    PROVE  GcInv'
<1> DEFINE seen == IF IsLive(records[k]) THEN records[k] ELSE None
<1>0. /\ writer[w].pc = "idle" /\ k \notin NoteKeys
      /\ records' = records /\ blobs' = blobs /\ clock' = clock
      /\ sweep' = sweep /\ sweeps' = sweeps /\ exposed' = exposed
  BY DEF Load
<1>1. PICK upload \in {Names[body], Names[body] \ (IF seen = None THEN {} ELSE Names[seen.body])} :
         writer' = [writer EXCEPT ![w] = [Resting EXCEPT
            !.pc = "upload", !.key = k, !.seen = seen, !.body = body,
            !.todo = upload, !.since = clock]]
  BY DEF Load
<1> DEFINE run == [Resting EXCEPT !.pc = "upload", !.key = k, !.seen = seen, !.body = body,
                                  !.todo = upload, !.since = clock]
<1>2. /\ run.pc = "upload" /\ run.key = k /\ run.seen = seen /\ run.body = body
      /\ run.made = {} /\ run.since = clock
  BY DEF Resting
<1>3. records[k] \in Slot /\ WellFormed(records[k]) /\ ManifestSlot(records[k])
  BY <1>0 DEF GcInv, TypeOK, RecordsSound
<1>4. seen \in Slot /\ (seen # None => IsLive(seen) /\ WellFormed(seen) /\ ManifestSlot(seen))
  BY <1>3 DEF Slot
<1>5. upload \subseteq Blobs /\ clock \in Nat /\ body \in Bodies
  BY BlobGcAssumption DEF GcInv, TypeOK
<1> HIDE DEF seen
<1>6. run \in WriterRun BY <1>4, <1>5 DEF Resting, WriterRun
<1>7. writer' = [writer EXCEPT ![w] = run] BY <1>1
<1> HIDE DEF run
<1>8. TypeOK' BY <1>0, <1>6, <1>7 DEF GcInv, TypeOK
<1>9. \A v \in Writers : writer'[v] = IF v = w THEN run ELSE writer[v]
  BY <1>7 DEF GcInv, TypeOK
<1>10. BlobsStay BY <1>0 DEF BlobsStay
<1>11. UploadSound(writer[w])'
  <2>1. writer'[w] = run BY <1>9
  <2> QED BY <1>0, <1>2, <1>4, <1>5, <2>1, BlobGcAssumption DEF UploadSound
<1>12. WritersSound'
  BY <1>0, <1>9, <1>10, <1>11, UploadKept DEF WritersSound
<1>13. SweepsSound' BY <1>0 DEF GcInv, SweepsSound, MarkSound, FreeSound, Referenced
<1>14. LostIsAwaited'
  <2>1. \A b : StoredOrAwaited(b) => StoredOrAwaited(b)'
    BY <1>0, <1>9 DEF StoredOrAwaited
  <2> QED BY <1>0, <2>1 DEF GcInv, LostIsAwaited, Referenced
<1> QED BY <1>0, <1>8, <1>12, <1>13, <1>14, SameRecords DEF GcInv

\* put_blob of an upload phase: what the writer makes is as old as the clock.
LEMMA UploadKeeps ==
    ASSUME GcInv, NEW w \in Writers, NEW b \in Blobs, Upload(w, b)
    PROVE  GcInv'
<1> DEFINE run == [writer[w] EXCEPT !.todo = @ \ {b},
                                    !.made = IF blobs[b] = None THEN @ \cup {b} ELSE @]
<1>0. /\ writer[w].pc = "upload" /\ blobs' = PutBlob(b)
      /\ records' = records /\ clock' = clock
      /\ sweep' = sweep /\ sweeps' = sweeps /\ exposed' = exposed
  BY DEF Upload
<1>1. writer' = [writer EXCEPT ![w] = run] BY DEF Upload, GcInv, TypeOK
<1>2. writer[w] \in WriterRun BY DEF GcInv, TypeOK
<1>3. run \in WriterRun BY <1>2 DEF WriterRun
<1>4. /\ run.pc = "upload" /\ run.key = writer[w].key /\ run.seen = writer[w].seen
      /\ run.body = writer[w].body /\ run.since = writer[w].since
      /\ run.made = IF blobs[b] = None THEN writer[w].made \cup {b} ELSE writer[w].made
  BY <1>0, <1>2 DEF WriterRun
<1> HIDE DEF run
<1>5. \A v \in Writers : writer'[v] = IF v = w THEN run ELSE writer[v]
  BY <1>1 DEF GcInv, TypeOK
<1>6. /\ blobs' \in [Blobs -> Nat \cup {None}] /\ blobs'[b] # None
      /\ \A x \in Blobs : blobs[x] # None => blobs'[x] = blobs[x]
      /\ blobs[b] = None => blobs'[b] = clock
  BY <1>0, PutBlobAdds DEF GcInv
<1>7. TypeOK' BY <1>0, <1>1, <1>3, <1>6 DEF GcInv, TypeOK
<1>8. BlobsStay BY <1>6 DEF BlobsStay
<1>9. UploadSound(writer[w])'
  <2>1. UploadSound(writer[w]) BY <1>0 DEF GcInv, WritersSound
  <2>2. writer'[w] = run BY <1>5
  <2>3. \A x \in run.made : x \in exposed' \/ (blobs'[x] # None /\ blobs'[x] >= run.since)
    <3> SUFFICES ASSUME NEW x \in run.made, x \notin exposed
                 PROVE  blobs'[x] # None /\ blobs'[x] >= run.since
      BY <1>0
    <3>1. CASE x = b /\ blobs[b] = None BY <1>0, <1>4, <1>6, <2>1, <3>1 DEF UploadSound
    <3>2. CASE x \in writer[w].made
      <4>1. x \in Blobs BY <1>2, <3>2 DEF WriterRun
      <4>2. blobs[x] # None /\ blobs[x] >= run.since BY <1>4, <2>1, <3>2 DEF UploadSound
      <4> QED BY <1>6, <4>1, <4>2
    <3> QED BY <1>4, <3>1, <3>2
  <2> QED BY <1>0, <1>4, <2>1, <2>2, <2>3 DEF UploadSound
<1>10. WritersSound'
  BY <1>0, <1>5, <1>8, <1>9, UploadKept DEF WritersSound
<1>11. SweepsSound'
  <2> SUFFICES ASSUME NEW g \in Sweeps
               PROVE  /\ sweep'[g].pc = "mark" => MarkSound(sweep[g])'
                      /\ sweep'[g].pc = "free" => FreeSound(sweep[g])'
    BY DEF SweepsSound
  <2>1. sweep[g].pc = "free" => sweep[g].todo \subseteq Blobs
    BY DEF GcInv, SweepsSound, FreeSound
  <2>2. clock \in Nat BY BlobGcAssumption DEF GcInv, TypeOK
  <2>3. RefsGrowBy(exposed') BY <1>0, SameRecords
  <2> QED BY <1>0, <1>6, <2>1, <2>2, <2>3, SweepKept
<1>12. LostIsAwaited'
  <2>1. \A x \in Blobs : StoredOrAwaited(x) => StoredOrAwaited(x)'
    BY <1>0, <1>5, <1>6 DEF StoredOrAwaited
  <2>2. \A k \in Keys : Referenced(k) \subseteq Blobs BY ReferencedAreBlobs DEF GcInv
  <2> QED BY <1>0, <2>1, <2>2 DEF GcInv, LostIsAwaited, Referenced
<1> QED BY <1>0, <1>7, <1>10, <1>11, <1>12, SameRecords DEF GcInv
\* What a committed manifest adds to the references of its key is what it names and
\* the manifest it was built on did not: put writes only over the revision read, whose
\* hash is that of its body (plan_put).
LEMMA CommitWrites ==
    ASSUME GcInv, NEW run \in WriterRun, UploadSound(run), NEW k, k = run.key,
           NEW rec, rec = IF run.seen = None THEN CreateRecord("GraphManifest", run.body)
                          ELSE UpdateRecord(run.seen, run.body),
           NEW plan, plan = PlanPut(records[k], rec,
                                     IF run.seen = None THEN None ELSE run.seen.revision, Cap),
           plan.outcome = "Write"
    PROVE  /\ k \in Keys \ NoteKeys
           /\ plan.record \in Record /\ WellFormed(plan.record) /\ ManifestSlot(plan.record)
           /\ Refs(plan.record) = Names[run.body]
           /\ run.seen # None => records[k] # None /\ Names[run.seen.body] \subseteq Referenced(k)
<1>1. k \in Keys /\ k \notin NoteKeys /\ run.body \in ManifestBodies /\ run.body \in Bodies
  BY BlobGcAssumption DEF UploadSound
<1>2. records[k] \in Slot /\ WellFormed(records[k]) /\ ManifestSlot(records[k])
  BY <1>1 DEF GcInv, TypeOK, RecordsSound
<1>3. "GraphManifest" \in LiveKinds /\ "GraphManifest" \in ManifestKinds
  BY DEF LiveKinds, ManifestKinds
<1>4. WellFormed(None) BY DEF WellFormed, BehindItself, NamesItsBody
<1>5. CASE run.seen = None
  <2>1. rec = CreateRecord("GraphManifest", run.body) BY <1>5
  <2>2. rec \in Record /\ WellFormed(rec) /\ ~IsTombstone(rec)
    BY <1>1, <1>3, <2>1, CreateWellFormed
  <2>3. rec.kind = "GraphManifest" /\ rec.body = run.body /\ rec.deleted_blob = None
    BY <2>1 DEF CreateRecord
  <2>4. records[k] = None
    <3>1. CASE IsLive(records[k])
      <4>1. records[k].revision # None
        BY <1>2, <3>1, NoneAssumption DEF IsLive, Slot, Record
      <4>2. plan = Plan("Conflict")
        BY <1>5, <2>2, <3>1, <4>1 DEF PlanPut, IsLive
      <4> QED BY <4>2 DEF Plan
    <3>2. CASE records[k] # None /\ ~IsLive(records[k])
      <4>1. IsManifestTombstone(records[k])
        BY <1>2, <3>2 DEF ManifestSlot, IsLive, IsTombstone
      <4>2. plan = Plan("Rejected")
        BY <1>5, <2>2, <3>2, <4>1 DEF PlanPut
      <4> QED BY <4>2 DEF Plan
    <3> QED BY <3>1, <3>2
  <2>5. plan.record = Persisted(None, rec, Cap)
    BY <1>5, <2>2, <2>4 DEF PlanPut, Write, IsLive
  <2>6. Persisted(None, rec, Cap) \in Record /\ WellFormed(Persisted(None, rec, Cap))
    BY <1>4, <2>2, PersistedWellFormed DEF Slot
  <2>7. /\ Persisted(None, rec, Cap).kind = rec.kind /\ Persisted(None, rec, Cap).body = rec.body
        /\ Persisted(None, rec, Cap).deleted_blob = rec.deleted_blob
    BY <2>2 DEF Persisted, Record
  <2>8. Refs(plan.record) = Names[run.body]
    BY <1>1, <2>3, <2>5, <2>6, <2>7, ManifestReferences
  <2>9. ManifestSlot(plan.record) BY <1>1, <2>3, <2>5, <2>7 DEF ManifestSlot
  <2> QED BY <1>1, <1>5, <2>5, <2>6, <2>8, <2>9
<1>6. CASE run.seen # None
  <2>1. rec = UpdateRecord(run.seen, run.body) BY <1>6
  <2>2. /\ run.seen \in Record /\ ~IsTombstone(run.seen) /\ WellFormed(run.seen)
        /\ run.seen.kind = "GraphManifest" /\ run.seen.body \in ManifestBodies
    BY <1>6 DEF UploadSound, WriterRun, Slot, IsLive, ManifestSlot, IsManifestTombstone
  <2>3. rec \in Record /\ WellFormed(rec) /\ ~IsTombstone(rec)
        /\ rec.revision.counter > run.seen.revision.counter
    BY <1>1, <2>1, <2>2, UpdateWellFormed
  <2>4. rec.kind = "GraphManifest" /\ rec.body = run.body /\ rec.deleted_blob = None
    BY <2>1, <2>2 DEF UpdateRecord
  <2>5. run.seen.revision \in Revision /\ run.seen.revision # None
    BY <2>2, NoneAssumption DEF Record
  <2>6. IsLive(records[k]) /\ run.seen.revision = records[k].revision
        /\ plan.record = Persisted(records[k], rec, Cap)
    <3>1. CASE records[k] = None
      <4>1. plan = Plan("NotFound") BY <1>6, <2>3, <2>5, <3>1 DEF PlanPut, IsLive
      <4> QED BY <4>1 DEF Plan
    <3>2. CASE records[k] # None /\ ~IsLive(records[k])
      <4>1. plan = Plan("NotFound") BY <1>6, <2>3, <2>5, <3>2 DEF PlanPut
      <4> QED BY <4>1 DEF Plan
    <3>3. CASE IsLive(records[k])
      <4>1. plan = IF run.seen.revision = records[k].revision
                   THEN Write(Persisted(records[k], rec, Cap)) ELSE Plan("Conflict")
        BY <1>6, <2>3, <2>5, <3>3 DEF PlanPut, IsLive
      <4> QED BY <3>3, <4>1 DEF Plan, Write
    <3> QED BY <3>1, <3>2, <3>3
  <2>7. records[k] \in Record /\ records[k].kind = "GraphManifest" /\ records[k].body \in ManifestBodies
    BY <1>2, <2>6 DEF Slot, IsLive, ManifestSlot, IsManifestTombstone
  <2>8. records[k].body = run.seen.body
    <3>1. ContentHash[records[k].body] = ContentHash[run.seen.body]
      BY <1>2, <2>2, <2>6, NoneIsNotRecord DEF WellFormed, NamesItsBody, IsLive
    <3>2. records[k].body \in Bodies /\ run.seen.body \in Bodies BY <2>2, <2>7 DEF Record
    <3> QED BY <3>1, <3>2, ContentHashAssumption
  <2>9. Names[run.seen.body] \subseteq Referenced(k)
    BY <1>3, <2>6, <2>7, <2>8 DEF Referenced, Refs, IsLive
  <2>10. Persisted(records[k], rec, Cap) \in Record /\ WellFormed(Persisted(records[k], rec, Cap))
    BY <1>2, <2>3, <2>6, PersistedWellFormed DEF IsLive
  <2>11. /\ Persisted(records[k], rec, Cap).kind = rec.kind
         /\ Persisted(records[k], rec, Cap).body = rec.body
         /\ Persisted(records[k], rec, Cap).deleted_blob = rec.deleted_blob
    BY <2>3 DEF Persisted, Record
  <2>12. Refs(plan.record) = Names[run.body]
    BY <1>1, <2>4, <2>6, <2>10, <2>11, ManifestReferences
  <2>13. ManifestSlot(plan.record) BY <1>1, <2>4, <2>6, <2>11 DEF ManifestSlot
  <2> QED BY <1>1, <2>6, <2>9, <2>10, <2>12, <2>13 DEF IsLive
<1> QED BY <1>5, <1>6
\* A commit: what it newly names is on record if a sweep is under way, and is to be
\* checked; what the writer made itself is stored.
LEMMA CommitKeeps ==
    ASSUME GcInv, NEW w \in Writers, Commit(w)
    PROVE  GcInv'
<1> DEFINE run == writer[w]
           k == run.key
           fresh == run.seen = None
           rec == IF fresh THEN CreateRecord("GraphManifest", run.body)
                  ELSE UpdateRecord(run.seen, run.body)
           plan == PlanPut(records[k], rec, IF fresh THEN None ELSE run.seen.revision, Cap)
           added == Names[run.body] \ (IF fresh THEN {} ELSE Names[run.seen.body])
           checking == [Resting EXCEPT !.pc = "verify", !.todo = added, !.made = run.made]
           next == IF plan.outcome = "Write" THEN checking ELSE Resting
           open == IF plan.outcome = "Write" /\ \E g \in Sweeps : sweep[g].pc # "idle"
                   THEN added ELSE {}
<1>0. /\ run.pc = "upload"
      /\ records' = [records EXCEPT ![k] = Apply(records[k], plan)]
      /\ writer' = [writer EXCEPT ![w] = next]
      /\ exposed' = exposed \cup open
      /\ blobs' = blobs /\ clock' = clock /\ sweep' = sweep /\ sweeps' = sweeps
  BY DEF Commit, GcInv, TypeOK
<1>1. run \in WriterRun /\ UploadSound(run)
  BY <1>0 DEF GcInv, TypeOK, WritersSound
<1>2. k \in Keys \ NoteKeys /\ run.body \in ManifestBodies /\ Names[run.body] \subseteq Blobs
  BY <1>1, BlobGcAssumption DEF UploadSound
<1>3. plan.outcome = "Write" =>
         /\ plan.record \in Record /\ WellFormed(plan.record) /\ ManifestSlot(plan.record)
         /\ Refs(plan.record) = Names[run.body]
         /\ ~fresh => records[k] # None /\ Names[run.seen.body] \subseteq Referenced(k)
  <2>1. /\ rec = IF run.seen = None THEN CreateRecord("GraphManifest", run.body)
                ELSE UpdateRecord(run.seen, run.body)
        /\ plan = PlanPut(records[k], rec,
                          IF run.seen = None THEN None ELSE run.seen.revision, Cap)
    OBVIOUS
  <2> HIDE DEF rec, plan
  <2> QED BY <1>1, <2>1, CommitWrites
<1>4. plan.outcome # "Write" => Apply(records[k], plan) = records[k]
  <2>1. plan.outcome # "Remove"
    <3>1. plan \in {Plan("Rejected"), Plan("NotFound"), Plan("Conflict")} \/ plan.outcome = "Write"
      BY DEF PlanPut, Write, Plan, IsLive
    <3> QED BY <3>1 DEF Plan
  <2> QED BY <2>1 DEF Apply
<1>5. plan.outcome = "Write" => Apply(records[k], plan) = plan.record BY DEF Apply
<1>6. added \subseteq Blobs /\ run.made \subseteq Blobs /\ (fresh \/ ~fresh)
  BY <1>1, <1>2 DEF WriterRun
<1>7. /\ checking \in WriterRun /\ checking.pc = "verify"
      /\ checking.todo = added /\ checking.made = run.made
      /\ Resting \in WriterRun /\ Resting.pc = "idle"
  BY <1>6, BodiesAssumption DEF Resting, WriterRun, Slot
<1>r. plan.outcome = "Write" => Names[run.body] \subseteq Referenced(k) \cup added
  BY <1>3
<1> HIDE DEF plan, rec, added, checking, fresh
<1>8. \A v \in Writers : writer'[v] = IF v = w THEN next ELSE writer[v]
  BY <1>0 DEF GcInv, TypeOK
<1>9. records[k] \in Slot BY <1>2 DEF GcInv, TypeOK
<1>10. /\ records'[k] = IF plan.outcome = "Write" THEN plan.record ELSE records[k]
       /\ \A j \in Keys : j # k => records'[j] = records[j]
  BY <1>0, <1>2, <1>4, <1>5 DEF GcInv, TypeOK
<1>11. TypeOK'
  <2>1. records' \in [Keys -> Slot]
    BY <1>0, <1>3, <1>4, <1>5, <1>9 DEF GcInv, TypeOK, Slot
  <2>2. writer' \in [Writers -> WriterRun] BY <1>0, <1>7 DEF GcInv, TypeOK
  <2>3. exposed' \subseteq Blobs BY <1>0, <1>6 DEF GcInv, TypeOK
  <2> QED BY <1>0, <2>1, <2>2, <2>3 DEF GcInv, TypeOK
<1>12. RecordsSound' BY <1>2, <1>3, <1>10 DEF GcInv, RecordsSound
<1>13. plan.outcome = "Write" => RefsGrowBy(added)
  <2> SUFFICES ASSUME plan.outcome = "Write", NEW j \in Keys
               PROVE  Referenced(j)' \subseteq Referenced(j) \cup added
    BY DEF RefsGrowBy
  <2>1. CASE j # k BY <1>10, <2>1 DEF Referenced
  <2>2. CASE j = k
    <3>1. Referenced(j)' = Names[run.body]
      BY <1>3, <1>10, <2>2, NoneIsNotRecord DEF Referenced
    <3> QED BY <1>r, <2>2, <3>1
  <2> QED BY <2>1, <2>2
<1>14. plan.outcome # "Write" => RefsGrowBy({}) BY <1>10 DEF RefsGrowBy, Referenced
<1>15. BlobsStay BY <1>0 DEF BlobsStay
<1>16. WritersSound'
  <2> SUFFICES ASSUME NEW v \in Writers, writer'[v].pc = "upload" PROVE UploadSound(writer[v])'
    BY DEF WritersSound
  <2>1. v # w BY <1>7, <1>8
  <2> QED BY <1>0, <1>8, <1>15, <2>1, UploadKept
<1>17. SweepsSound'
  <2> SUFFICES ASSUME NEW g \in Sweeps
               PROVE  /\ sweep'[g].pc = "mark" => MarkSound(sweep[g])'
                      /\ sweep'[g].pc = "free" => FreeSound(sweep[g])'
    BY DEF SweepsSound
  <2>1. clock \in Nat BY BlobGcAssumption DEF GcInv, TypeOK
  <2>2. sweep[g].pc # "idle" => RefsGrowBy(exposed')
    BY <1>0, <1>13, <1>14 DEF RefsGrowBy
  <2> QED BY <1>0, <2>1, <2>2, SweepKept
<1>18. LostIsAwaited'
  <2>1. ASSUME plan.outcome = "Write", NEW b \in added PROVE StoredOrAwaited(b)'
    <3>1. CASE b \in run.made
      <4>1. b \in exposed \/ blobs[b] # None BY <1>1, <3>1 DEF UploadSound
      <4> QED BY <1>0, <4>1 DEF StoredOrAwaited
    <3>2. CASE b \notin run.made
      <4>1. writer'[w].pc = "verify" /\ b \in writer'[w].todo \ writer'[w].made
        BY <1>7, <1>8, <2>1, <3>2
      <4> QED BY <4>1 DEF StoredOrAwaited
    <3> QED BY <3>1, <3>2
  <2>2. ASSUME NEW v \in Writers, writer[v].pc = "verify",
               NEW b \in writer[v].todo \ writer[v].made
        PROVE  StoredOrAwaited(b)'
    <3>1. v # w BY <1>0, <2>2
    <3>2. writer'[v] = writer[v] BY <1>8, <3>1
    <3> QED BY <2>2, <3>2 DEF StoredOrAwaited
  <2>3. \A j \in Keys : \A b \in Referenced(j) : blobs[b] # None => blobs'[b] # None
    BY <1>0
  <2>4. CASE plan.outcome = "Write" BY <1>0, <1>13, <2>1, <2>2, <2>3, <2>4, LostKept
  <2>5. CASE plan.outcome # "Write" BY <1>0, <1>14, <2>2, <2>3, <2>5, LostKept
  <2> QED BY <2>4, <2>5
<1> QED BY <1>11, <1>12, <1>16, <1>17, <1>18 DEF GcInv

\* A check that puts back a blob the manifest newly names.
LEMMA CheckKeeps ==
    ASSUME GcInv, NEW w \in Writers, NEW b \in Blobs, Verify(w, b)
    PROVE  GcInv'
<1> DEFINE run == [writer[w] EXCEPT !.todo = @ \ {b}]
<1>0. /\ writer[w].pc = "verify" /\ blobs' = PutBlob(b)
      /\ records' = records /\ clock' = clock
      /\ sweep' = sweep /\ sweeps' = sweeps /\ exposed' = exposed
  BY DEF Verify
<1>1. writer' = [writer EXCEPT ![w] = run] BY DEF Verify, GcInv, TypeOK
<1>2. writer[w] \in WriterRun BY DEF GcInv, TypeOK
<1>3. run \in WriterRun /\ run.pc = "verify" /\ run.todo = writer[w].todo \ {b}
      /\ run.made = writer[w].made
  BY <1>0, <1>2 DEF WriterRun
<1> HIDE DEF run
<1>4. \A v \in Writers : writer'[v] = IF v = w THEN run ELSE writer[v]
  BY <1>1 DEF GcInv, TypeOK
<1>5. /\ blobs' \in [Blobs -> Nat \cup {None}] /\ blobs'[b] # None
      /\ \A x \in Blobs : blobs[x] # None => blobs'[x] = blobs[x]
  BY <1>0, PutBlobAdds DEF GcInv
<1>6. TypeOK' BY <1>0, <1>1, <1>3, <1>5 DEF GcInv, TypeOK
<1>7. BlobsStay BY <1>5 DEF BlobsStay
<1>8. WritersSound'
  BY <1>0, <1>3, <1>4, <1>7, UploadKept DEF WritersSound
<1>9. SweepsSound'
  <2> SUFFICES ASSUME NEW g \in Sweeps
               PROVE  /\ sweep'[g].pc = "mark" => MarkSound(sweep[g])'
                      /\ sweep'[g].pc = "free" => FreeSound(sweep[g])'
    BY DEF SweepsSound
  <2>1. sweep[g].pc = "free" => sweep[g].todo \subseteq Blobs
    BY DEF GcInv, SweepsSound, FreeSound
  <2>2. clock \in Nat BY BlobGcAssumption DEF GcInv, TypeOK
  <2>3. RefsGrowBy(exposed') BY <1>0, SameRecords
  <2> QED BY <1>0, <1>5, <2>1, <2>2, <2>3, SweepKept
<1>10. LostIsAwaited'
  <2>1. \A k \in Keys : \A x \in Referenced(k) : blobs[x] # None => blobs'[x] # None
    BY <1>5, ReferencedAreBlobs DEF GcInv
  <2>2. ASSUME NEW v \in Writers, writer[v].pc = "verify",
               NEW x \in writer[v].todo \ writer[v].made
        PROVE  StoredOrAwaited(x)'
    <3>1. CASE v = w /\ x = b BY <1>5, <3>1 DEF StoredOrAwaited
    <3>2. CASE ~(v = w /\ x = b)
      <4>1. writer'[v].pc = "verify" /\ x \in writer'[v].todo \ writer'[v].made
        BY <1>3, <1>4, <2>2, <3>2
      <4> QED BY <4>1 DEF StoredOrAwaited
    <3> QED BY <3>1, <3>2
  <2>3. RefsGrowBy({}) BY <1>0, SameRecords
  <2> QED BY <1>0, <2>1, <2>2, <2>3, LostKept
<1> QED BY <1>0, <1>6, <1>8, <1>9, <1>10, SameRecords DEF GcInv

\* A writer that ends or dies: what it has not checked, and did not make, is on record.
LEMMA RestKeeps ==
    ASSUME GcInv, NEW w \in Writers, Finish(w) \/ Crash(w)
    PROVE  GcInv'
<1>0. /\ records' = records /\ blobs' = blobs /\ clock' = clock
      /\ sweep' = sweep /\ sweeps' = sweeps
      /\ writer' = [writer EXCEPT ![w] = Resting]
      /\ exposed \subseteq exposed'
      /\ exposed' \subseteq exposed \cup writer[w].todo
      /\ writer[w].pc = "verify" => writer[w].todo \ writer[w].made \subseteq exposed'
  BY DEF Finish, Crash
<1>1. Resting \in WriterRun /\ Resting.pc = "idle"
  BY BodiesAssumption DEF Resting, WriterRun, Slot
<1>2. \A v \in Writers : writer'[v] = IF v = w THEN Resting ELSE writer[v]
  BY <1>0 DEF GcInv, TypeOK
<1>3. writer[w].todo \subseteq Blobs BY DEF GcInv, TypeOK, WriterRun
<1>4. TypeOK' BY <1>0, <1>1, <1>3 DEF GcInv, TypeOK
<1>5. BlobsStay BY <1>0 DEF BlobsStay
<1>6. WritersSound' BY <1>0, <1>1, <1>2, <1>5, UploadKept DEF WritersSound
<1>7. SweepsSound'
  <2>1. clock \in Nat BY BlobGcAssumption DEF GcInv, TypeOK
  <2>2. RefsGrowBy(exposed') BY <1>0, SameRecords
  <2> QED BY <1>0, <2>1, <2>2, SweepKept DEF SweepsSound
<1>8. LostIsAwaited'
  <2>1. ASSUME NEW v \in Writers, writer[v].pc = "verify",
               NEW b \in writer[v].todo \ writer[v].made
        PROVE  StoredOrAwaited(b)'
    BY <1>0, <1>2, <2>1 DEF StoredOrAwaited
  <2>2. RefsGrowBy({}) BY <1>0, SameRecords
  <2> QED BY <1>0, <2>1, <2>2, LostKept
<1> QED BY <1>0, <1>4, <1>6, <1>7, <1>8, SameRecords DEF GcInv
(***************************************************************************)
(* Deletion and collection of records                                      *)
(***************************************************************************)

\* A step that changes records only, and adds no reference.
LEMMA FewerReferences ==
    ASSUME GcInv, UNCHANGED <<blobs, clock, writer, sweep, sweeps, exposed>>,
           records' \in [Keys -> Slot], RecordsSound', RefsGrowBy({})
    PROVE  GcInv'
<1>1. TypeOK' BY DEF GcInv, TypeOK
<1>2. WritersSound'
  <2>1. BlobsStay BY DEF BlobsStay
  <2> QED BY <2>1, UploadKept DEF WritersSound
<1>3. SweepsSound'
  <2>1. clock \in Nat BY BlobGcAssumption DEF GcInv, TypeOK
  <2>2. RefsGrowBy(exposed') BY DEF RefsGrowBy
  <2> QED BY <2>1, <2>2, SweepKept DEF SweepsSound
<1>4. LostIsAwaited'
  <2>1. ASSUME NEW v \in Writers, writer[v].pc = "verify",
               NEW b \in writer[v].todo \ writer[v].made
        PROVE  StoredOrAwaited(b)'
    BY <2>1 DEF StoredOrAwaited
  <2> QED BY <2>1, LostKept
<1> QED BY <1>1, <1>2, <1>3, <1>4 DEF GcInv

\* delete leaves a tombstone that references what its record did.
LEMMA DeleteKeeps ==
    ASSUME GcInv, NEW k \in Keys, Delete(k)
    PROVE  GcInv'
<1> DEFINE plan == PlanDelete(records[k], None, clock, Cap)
           tomb == TombstoneOf(records[k], clock, Cap)
<1>1. /\ plan.outcome = "Write" /\ records' = [records EXCEPT ![k] = plan.record]
      /\ UNCHANGED <<blobs, clock, writer, sweep, sweeps, exposed>>
  BY DEF Delete
<1>2. clock \in Nat BY BlobGcAssumption DEF GcInv, TypeOK
<1>3. IsLive(records[k]) /\ plan.record = tomb
  BY <1>1 DEF PlanDelete, Plan, Write
<1>4. /\ records[k] \in Record /\ ~IsTombstone(records[k]) /\ WellFormed(records[k])
      /\ IF k \in NoteKeys THEN NoteSlot(records[k]) ELSE ManifestSlot(records[k])
  BY <1>3 DEF GcInv, TypeOK, RecordsSound, Slot, IsLive
<1>5. tomb \in Record /\ WellFormed(tomb) BY <1>2, <1>4, TombstoneWellFormed
<1>6. IF k \in NoteKeys THEN NoteSlot(tomb) ELSE ManifestSlot(tomb)
  BY <1>4, TombstoneSorted
<1>7. Refs(tomb) \subseteq Refs(records[k]) BY <1>4, TombstoneReferences
<1> HIDE DEF plan, tomb
<1>8. records'[k] = tomb /\ \A j \in Keys : j # k => records'[j] = records[j]
  BY <1>1, <1>3 DEF GcInv, TypeOK
<1>9. records' \in [Keys -> Slot] BY <1>1, <1>3, <1>5 DEF GcInv, TypeOK, Slot
<1>10. RecordsSound' BY <1>5, <1>6, <1>8 DEF GcInv, RecordsSound
<1>11. RefsGrowBy({}) BY <1>3, <1>5, <1>7, <1>8, NoneIsNotRecord DEF RefsGrowBy, Referenced, IsLive
<1> QED BY <1>1, <1>9, <1>10, <1>11, FewerReferences

\* collect takes a tombstone's references away.
LEMMA CollectKeeps ==
    ASSUME GcInv, NEW k \in Keys, Collect(k)
    PROVE  GcInv'
<1>1. /\ records' = [records EXCEPT ![k] = None]
      /\ UNCHANGED <<blobs, clock, writer, sweep, sweeps, exposed>>
  BY DEF Collect
<1>2. records'[k] = None /\ \A j \in Keys : j # k => records'[j] = records[j]
  BY <1>1 DEF GcInv, TypeOK
<1>3. records' \in [Keys -> Slot] BY <1>1 DEF GcInv, TypeOK, Slot
<1>4. RecordsSound'
  BY <1>2 DEF GcInv, RecordsSound, WellFormed, BehindItself, NamesItsBody, NoteSlot, ManifestSlot
<1>5. RefsGrowBy({}) BY <1>2 DEF RefsGrowBy, Referenced
<1> QED BY <1>1, <1>3, <1>4, <1>5, FewerReferences

(***************************************************************************)
(* Sweeps                                                                  *)
(***************************************************************************)

\* A step in which a sweep frees nothing, and is sound itself.
LEMMA OneSweepMoves ==
    ASSUME GcInv, UNCHANGED <<records, blobs, clock, writer, exposed>>, sweeps' \in 0..MaxSweeps,
           NEW g \in Sweeps, NEW s \in SweepRun, sweep' = [sweep EXCEPT ![g] = s],
           s.pc = "mark" => MarkSound(s), s.pc = "free" => FreeSound(s)
    PROVE  GcInv'
<1>1. TypeOK' BY DEF GcInv, TypeOK
<1>2. \A h \in Sweeps : sweep'[h] = IF h = g THEN s ELSE sweep[h] BY DEF GcInv, TypeOK
<1>3. WritersSound' BY DEF GcInv, WritersSound, UploadSound
<1>4. SweepsSound'
  BY <1>2 DEF GcInv, SweepsSound, MarkSound, FreeSound, Referenced
<1>5. LostIsAwaited' BY DEF GcInv, LostIsAwaited, StoredOrAwaited, Referenced
<1> QED BY <1>1, <1>3, <1>4, <1>5, SameRecords DEF GcInv

\* A sweep starts with every stored record to be marked.
LEMMA StartKeeps ==
    ASSUME GcInv, NEW g \in Sweeps, StartSweep(g)
    PROVE  GcInv'
<1> DEFINE s == [NoSweep EXCEPT !.pc = "mark", !.todo = {k \in Keys : records[k] # None}]
<1>1. /\ UNCHANGED <<records, blobs, clock, writer, exposed>>
      /\ sweep' = [sweep EXCEPT ![g] = s]
      /\ sweeps < MaxSweeps /\ sweeps' = sweeps + 1
  BY DEF StartSweep
<1>2. s \in SweepRun /\ s.pc = "mark" /\ s.todo = {k \in Keys : records[k] # None}
  BY DEF NoSweep, SweepRun
<1>3. sweeps' \in 0..MaxSweeps BY <1>1, BlobGcAssumption DEF GcInv, TypeOK
<1> HIDE DEF s
<1>4. MarkSound(s) BY <1>2 DEF MarkSound, Referenced
<1> QED BY <1>1, <1>2, <1>3, <1>4, OneSweepMoves

\* Marking a record passes its references from what is to be seen to what was seen.
LEMMA MarkKeeps ==
    ASSUME GcInv, NEW g \in Sweeps, NEW k \in Keys, Mark(g, k)
    PROVE  GcInv'
<1> DEFINE s == [sweep[g] EXCEPT !.todo = @ \ {k}, !.live = @ \cup Referenced(k)]
<1>1. /\ UNCHANGED <<records, blobs, clock, writer, exposed, sweeps>>
      /\ sweep[g].pc = "mark" /\ sweep' = [sweep EXCEPT ![g] = s]
  BY DEF Mark, GcInv, TypeOK
<1>2. sweep[g] \in SweepRun /\ MarkSound(sweep[g]) BY <1>1 DEF GcInv, TypeOK, SweepsSound
<1>3. Referenced(k) \subseteq Blobs BY ReferencedAreBlobs DEF GcInv
<1>4. /\ s \in SweepRun /\ s.pc = "mark" /\ s.todo = sweep[g].todo \ {k}
      /\ s.live = sweep[g].live \cup Referenced(k)
  BY <1>1, <1>2, <1>3 DEF SweepRun
<1> HIDE DEF s
<1>5. MarkSound(s) BY <1>2, <1>4 DEF MarkSound
<1>6. sweeps' \in 0..MaxSweeps BY <1>1 DEF GcInv, TypeOK
<1> QED BY <1>1, <1>4, <1>5, <1>6, OneSweepMoves

\* Deciding, with everything marked: what is chosen is old, and referenced only since.
LEMMA DecideKeeps ==
    ASSUME GcInv, NEW g \in Sweeps, Decide(g)
    PROVE  GcInv'
<1> DEFINE chosen == {b \in Blobs \ sweep[g].live : OldEnough(b)}
           s == [NoSweep EXCEPT !.pc = "free", !.todo = chosen]
<1>1. /\ UNCHANGED <<records, blobs, clock, writer, exposed, sweeps>>
      /\ sweep[g].pc = "mark" /\ sweep[g].todo = {} /\ sweep' = [sweep EXCEPT ![g] = s]
  BY DEF Decide
<1>2. MarkSound(sweep[g]) BY <1>1 DEF GcInv, SweepsSound
<1>3. s \in SweepRun /\ s.pc = "free" /\ s.todo = chosen /\ s.late = {}
  BY DEF NoSweep, SweepRun
<1> HIDE DEF s
<1>4. FreeSound(s)
  <2>1. s.todo \subseteq Blobs BY <1>3
  <2>2. \A b \in s.todo \ s.late : blobs[b] # None /\ clock - blobs[b] >= MinAge
    BY <1>3 DEF OldEnough
  <2>3. \A k \in Keys : \A b \in Referenced(k) : b \in s.todo => b \in exposed
    BY <1>1, <1>2, <1>3 DEF MarkSound
  <2> QED BY <2>1, <2>2, <2>3 DEF FreeSound
<1>5. sweeps' \in 0..MaxSweeps BY <1>1 DEF GcInv, TypeOK
<1> QED BY <1>1, <1>3, <1>4, <1>5, OneSweepMoves

\* A sweep that ends.
LEMMA EndKeeps ==
    ASSUME GcInv, NEW g \in Sweeps, EndSweep(g)
    PROVE  GcInv'
<1>1. /\ UNCHANGED <<records, blobs, clock, writer, exposed, sweeps>>
      /\ sweep' = [sweep EXCEPT ![g] = NoSweep]
  BY DEF EndSweep
<1>2. NoSweep \in SweepRun /\ NoSweep.pc = "idle" BY DEF NoSweep, SweepRun
<1>3. sweeps' \in 0..MaxSweeps BY <1>1 DEF GcInv, TypeOK
<1> QED BY <1>1, <1>2, <1>3, OneSweepMoves

\* delete_blob: what goes is old, or was freed by another sweep since the decision and
\* uploaded anew, which is then on record.
LEMMA FreeKeeps ==
    ASSUME GcInv, NEW g \in Sweeps, NEW b \in Blobs, Free(g, b)
    PROVE  GcInv'
<1>1. /\ sweep[g].pc = "free" /\ b \in sweep[g].todo
      /\ blobs' = [blobs EXCEPT ![b] = None]
      /\ sweep' = [h \in Sweeps |->
                     IF h = g THEN [sweep[h] EXCEPT !.todo = @ \ {b}, !.late = @ \ {b}]
                     ELSE [sweep[h] EXCEPT !.late = @ \cup (sweep[h].todo \cap {b})]]
      /\ exposed' = exposed \cup IF blobs[b] # None THEN sweep[g].late \cap {b} ELSE {}
      /\ UNCHANGED <<records, clock, writer, sweeps>>
  BY DEF Free
<1>2. \A h \in Sweeps : sweep[h] \in SweepRun BY DEF GcInv, TypeOK
<1>3. ASSUME NEW h \in Sweeps
      PROVE  /\ sweep'[h] \in SweepRun /\ sweep'[h].pc = sweep[h].pc
             /\ sweep'[h].live = sweep[h].live
             /\ sweep'[h].todo = IF h = g THEN sweep[h].todo \ {b} ELSE sweep[h].todo
             /\ sweep'[h].late = IF h = g THEN sweep[h].late \ {b}
                                 ELSE sweep[h].late \cup (sweep[h].todo \cap {b})
  BY <1>1, <1>2 DEF SweepRun
<1>4. /\ blobs'[b] = None /\ \A x \in Blobs : x # b => blobs'[x] = blobs[x]
      /\ blobs' \in [Blobs -> Nat \cup {None}]
  BY <1>1 DEF GcInv, TypeOK
<1>5. exposed \subseteq exposed' /\ exposed' \subseteq Blobs BY <1>1 DEF GcInv, TypeOK
<1>6. FreeSound(sweep[g]) BY <1>1 DEF GcInv, SweepsSound
<1>7. TypeOK'
  <2>1. sweep' \in [Sweeps -> SweepRun] BY <1>1, <1>3
  <2> QED BY <1>1, <1>4, <1>5, <2>1 DEF GcInv, TypeOK
<1>8. BlobsStay
  <2>1. blobs[b] # None => clock - blobs[b] >= MinAge \/ b \in exposed'
    BY <1>1, <1>6 DEF FreeSound
  <2> QED BY <1>4, <2>1 DEF BlobsStay
<1>9. WritersSound' BY <1>1, <1>5, <1>8, UploadKept DEF WritersSound
<1>10. SweepsSound'
  <2> SUFFICES ASSUME NEW h \in Sweeps
               PROVE  /\ sweep'[h].pc = "mark" => MarkSound(sweep[h])'
                      /\ sweep'[h].pc = "free" => FreeSound(sweep[h])'
    BY DEF SweepsSound
  <2>1. ASSUME sweep'[h].pc = "mark" PROVE MarkSound(sweep[h])'
    <3>1. h # g /\ MarkSound(sweep[h]) BY <1>1, <1>3, <2>1 DEF GcInv, SweepsSound
    <3>2. \A k \in Keys : Referenced(k)' = Referenced(k) BY <1>1 DEF Referenced
    <3> QED BY <1>3, <1>5, <3>1, <3>2 DEF MarkSound
  <2>2. ASSUME sweep'[h].pc = "free" PROVE FreeSound(sweep[h])'
    <3>1. FreeSound(sweep[h]) BY <1>3, <2>2 DEF GcInv, SweepsSound
    <3>2. \A k \in Keys : Referenced(k)' = Referenced(k) BY <1>1 DEF Referenced
    <3>3. sweep'[h].todo \subseteq sweep[h].todo /\ sweep[h].todo \subseteq Blobs
      BY <1>3, <3>1 DEF FreeSound
    <3>4. \A x \in sweep'[h].todo \ sweep'[h].late : x # b /\ x \in sweep[h].todo \ sweep[h].late
      BY <1>3
    <3>5. \A x \in sweep'[h].todo \ sweep'[h].late :
             blobs'[x] # None /\ clock' - blobs'[x] >= MinAge
      BY <1>1, <1>4, <3>1, <3>3, <3>4 DEF FreeSound
    <3>6. \A k \in Keys : \A x \in Referenced(k)' : x \in sweep'[h].todo => x \in exposed'
      BY <1>5, <3>1, <3>2, <3>3 DEF FreeSound
    <3> QED BY <3>3, <3>5, <3>6 DEF FreeSound
  <2> QED BY <2>1, <2>2
<1>11. LostIsAwaited'
  <2>1. ASSUME NEW k \in Keys, NEW x \in Referenced(k), blobs[x] # None
        PROVE  blobs'[x] # None \/ x \in exposed'
    <3>1. x \in Blobs BY ReferencedAreBlobs DEF GcInv
    <3>2. x = b => x \in exposed BY <1>1, <1>6 DEF FreeSound
    <3> QED BY <1>4, <1>5, <2>1, <3>1, <3>2
  <2>2. ASSUME NEW v \in Writers, writer[v].pc = "verify",
               NEW x \in writer[v].todo \ writer[v].made
        PROVE  StoredOrAwaited(x)'
    BY <1>1, <2>2 DEF StoredOrAwaited
  <2>3. RefsGrowBy({}) BY <1>1, SameRecords
  <2> QED BY <1>5, <2>1, <2>2, <2>3, LostKept
<1> QED BY <1>1, <1>7, <1>9, <1>10, <1>11, SameRecords DEF GcInv

(***************************************************************************)
(* Time                                                                    *)
(***************************************************************************)

\* Time passes for everyone, and no upload phase lasts for MinAge.
LEMMA TickKeeps == ASSUME GcInv, Tick PROVE GcInv'
<1>1. /\ clock < MaxClock /\ clock' = clock + 1
      /\ UNCHANGED <<records, blobs, writer, sweep, sweeps, exposed>>
      /\ \A w \in Writers : writer[w].pc = "upload" => clock + 1 - writer[w].since < MinAge
  BY DEF Tick
<1>2. clock \in Nat /\ clock' \in Nat /\ clock' >= clock /\ clock' \in 0..MaxClock
  BY <1>1, BlobGcAssumption DEF GcInv, TypeOK
<1>3. TypeOK' BY <1>1, <1>2 DEF GcInv, TypeOK
<1>4. WritersSound'
  <2> SUFFICES ASSUME NEW w \in Writers, writer[w].pc = "upload" PROVE UploadSound(writer[w])'
    BY <1>1 DEF WritersSound
  <2>1. UploadSound(writer[w]) BY DEF GcInv, WritersSound
  <2>2. writer[w].since \in Nat BY DEF GcInv, TypeOK, WriterRun
  <2>3. writer[w].since <= clock' /\ clock' - writer[w].since < MinAge
    BY <1>1, <1>2, <2>1, <2>2 DEF UploadSound
  <2> QED BY <1>1, <2>1, <2>3 DEF UploadSound
<1>5. SweepsSound'
  <2>1. RefsGrowBy(exposed') BY <1>1, SameRecords
  <2> QED BY <1>1, <1>2, <2>1, SweepKept DEF SweepsSound
<1>6. LostIsAwaited' BY <1>1 DEF GcInv, LostIsAwaited, StoredOrAwaited, Referenced
<1> QED BY <1>1, <1>3, <1>4, <1>5, <1>6, SameRecords DEF GcInv

(***************************************************************************)
(* The theorems                                                            *)
(***************************************************************************)

\* Every step of writers, sweeps, deletes, collection and the clock keeps the invariant.
LEMMA NextGcInv == ASSUME GcInv, [Next]_vars PROVE GcInv'
<1>1. ASSUME NEW w \in Writers, WriterNext(w) PROVE GcInv'
  BY <1>1, LoadKeeps, UploadKeeps, CheckKeeps, CommitKeeps, RestKeeps DEF WriterNext
<1>2. ASSUME NEW g \in Sweeps, SweepNext(g) PROVE GcInv'
  BY <1>2, StartKeeps, MarkKeeps, DecideKeeps, FreeKeeps, EndKeeps DEF SweepNext
<1>3. ASSUME NEW k \in Keys, Delete(k) \/ Collect(k) PROVE GcInv'
  BY <1>3, DeleteKeeps, CollectKeeps
<1>4. CASE UNCHANGED vars
  BY <1>4 DEF vars, GcInv, TypeOK, RecordsSound, WritersSound, UploadSound, SweepsSound,
              MarkSound, FreeSound, LostIsAwaited, StoredOrAwaited, Referenced
<1> QED BY <1>1, <1>2, <1>3, <1>4, TickKeeps DEF Next

\* The invariant holds in every behaviour of writers and sweeps.
THEOREM GcInvariant == Spec => []GcInv
<1>1. Init => GcInv BY InitGcInv
<1>2. GcInv /\ [Next]_vars => GcInv' BY NextGcInv
<1> QED BY <1>1, <1>2, PTL DEF Spec

\* Only a sweep frees a blob, and what it frees is old unless another sweep was first.
LEMMA FreedIsOld ==
    ASSUME GcInv, Next, NEW b \in Blobs, blobs[b] # None, blobs'[b] = None
    PROVE  clock - blobs[b] >= MinAge \/ \E g \in Sweeps : b \in sweep[g].late
<1>1. ASSUME NEW x \in Blobs, blobs' = PutBlob(x) PROVE FALSE
  BY <1>1, PutBlobAdds DEF GcInv
<1>2. ASSUME NEW g \in Sweeps, NEW x \in Blobs, Free(g, x)
      PROVE  clock - blobs[b] >= MinAge \/ \E h \in Sweeps : b \in sweep[h].late
  <2>1. sweep[g].pc = "free" /\ x \in sweep[g].todo /\ blobs' = [blobs EXCEPT ![x] = None]
    BY <1>2 DEF Free
  <2>2. x = b BY <2>1 DEF GcInv, TypeOK
  <2>3. FreeSound(sweep[g]) BY <2>1 DEF GcInv, SweepsSound
  <2> QED BY <2>1, <2>2, <2>3 DEF FreeSound
<1>3. ASSUME NEW w \in Writers, WriterNext(w) PROVE blobs' = blobs
  BY <1>1, <1>3 DEF WriterNext, Load, Upload, Commit, Verify, Finish, Crash
<1>4. ASSUME NEW g \in Sweeps, SweepNext(g), ~ \E x \in Blobs : Free(g, x) PROVE blobs' = blobs
  BY <1>4 DEF SweepNext, StartSweep, Mark, Decide, EndSweep
<1>5. ASSUME NEW k \in Keys, Delete(k) \/ Collect(k) PROVE blobs' = blobs
  BY <1>5 DEF Delete, Collect
<1>6. Tick => blobs' = blobs BY DEF Tick
<1> QED BY <1>2, <1>3, <1>4, <1>5, <1>6 DEF Next

\* Sweeps are safe beside writers, for any number of both: every referenced blob is
\* stored or its writer is about to put it back, but for the windows in which a sweep
\* acts on an old decision, and no young blob is freed but by the second of two sweeps
\* (gc_blobs, sweep_blobs_with, DEFAULT_MIN_AGE).
THEOREM SweepsAreSafe == Spec => SweepIsSafe
<1>1. GcInv => TypeOK /\ ReferencedBlobsStored
  BY DEF GcInv, LostIsAwaited, StoredOrAwaited, ReferencedBlobsStored
<1> DEFINE A == \A b \in Blobs :
                   blobs[b] # None /\ blobs'[b] = None
                   => \/ clock - blobs[b] >= MinAge
                      \/ \E g \in Sweeps : b \in sweep[g].late
<1>2. GcInv /\ [Next]_vars => [A]_vars BY FreedIsOld
<1> QED BY <1>1, <1>2, GcInvariant, PTL DEF Spec, SweepIsSafe, FreesOnlyOldBlobs

(***************************************************************************)
(* Link tokens                                                             *)
(***************************************************************************)

\* Before any attempt has read the token, nothing is accepted.
LEMMA LinkInit == ASSUME F!FleetAssumption, F!Init PROVE F!LinkInv
<1>1. F!TypeOK BY DEF F!FleetAssumption, F!Init, F!TypeOK, F!Attempt
<1>2. \A r \in Redeemers : attempt[r].pc = "read" BY DEF F!Init
<1> QED BY <1>1, <1>2 DEF F!LinkInv, F!AttemptsSound, F!RedeemedOncePerSite, F!AcceptedIsRecorded, F!Accepted

\* Only Put accepts, and it finds the token as the attempt read it: unredeemed.  So no other
\* attempt at that site was accepted before, and sync only fills an unredeemed token.
LEMMA LinkStep == ASSUME F!FleetAssumption, F!LinkInv, [F!Next]_F!vars PROVE F!LinkInv'
<1>0. /\ token \in [Sites -> F!Consumption \cup {None}] /\ attempt \in [Redeemers -> F!Attempt]
      /\ time \in 0 .. MaxTime /\ None \notin F!Consumption /\ MaxTime \in Nat /\ ExpiresAt \in Nat
  BY DEF F!FleetAssumption, F!LinkInv, F!TypeOK
<1>1. ASSUME NEW r \in Redeemers, F!Fetch(r) PROVE F!LinkInv'
  <2>1. attempt[r].site \in Sites BY <1>0 DEF F!Attempt
  <2> DEFINE seen == token[attempt[r].site]
  <2>a. attempt' = [attempt EXCEPT ![r].pc = "redeem", ![r].read = seen] /\ UNCHANGED <<token, time>>
    BY <1>1 DEF F!Fetch
  <2>b. seen \in F!Consumption \cup {None} BY <1>0, <2>1
  <2> HIDE DEF seen
  <2>2. F!TypeOK'
    <3>1. [attempt[r] EXCEPT !.pc = "redeem", !.read = seen] \in F!Attempt BY <1>0, <2>b DEF F!Attempt
    <3>2. attempt' = [attempt EXCEPT ![r] = [attempt[r] EXCEPT !.pc = "redeem", !.read = seen]]
      BY <1>0, <2>a
    <3> QED BY <1>0, <2>a, <3>1, <3>2 DEF F!TypeOK
  <2>3. /\ attempt'[r].pc = "redeem" /\ token' = token
        /\ \A q \in Redeemers \ {r} : attempt'[q] = attempt[q]
    BY <1>0, <1>1 DEF F!Fetch, F!Attempt
  <2> QED BY <2>2, <2>3
       DEF F!LinkInv, F!AttemptsSound, F!RedeemedOncePerSite, F!AcceptedIsRecorded, F!Accepted
<1>2. ASSUME NEW r \in Redeemers, F!Redeem(r) PROVE F!LinkInv'
  <2>0. attempt[r] \in F!Attempt /\ attempt[r].pc = "redeem" /\ UNCHANGED <<token, time>>
    BY <1>0, <1>2 DEF F!Redeem
  <2>a. \/ ~attempt[r].secret
        \/ attempt[r].secret /\ time >= ExpiresAt /\ ~(time < ExpiresAt)
        \/ attempt[r].secret /\ time < ExpiresAt /\ ~(time >= ExpiresAt)
    BY <1>0, <2>0 DEF F!Attempt
  <2>1. CASE F!redeem(attempt[r]) = "Ok"
    <3> DEFINE consumed == [person |-> attempt[r].person, binding |-> F!binding_id(attempt[r].account), at |-> time]
    <3>1. attempt' = [attempt EXCEPT ![r].pc = "put", ![r].wrote = consumed]
      BY <1>2, <2>1 DEF F!Redeem
    <3>2. consumed \in F!Consumption BY <1>0, <2>0 DEF F!Consumption, F!Attempt
    <3>3. attempt[r].read = None BY <2>1, <2>a DEF F!redeem
    <3> HIDE DEF consumed
    <3>4. /\ attempt' \in [Redeemers -> F!Attempt]
          /\ attempt'[r].pc = "put" /\ attempt'[r].read = None /\ attempt'[r].wrote = consumed
          /\ \A q \in Redeemers \ {r} : attempt'[q] = attempt[q]
      <4>1. [attempt[r] EXCEPT !.pc = "put", !.wrote = consumed] \in F!Attempt BY <2>0, <3>2 DEF F!Attempt
      <4>2. attempt' = [attempt EXCEPT ![r] = [attempt[r] EXCEPT !.pc = "put", !.wrote = consumed]]
        BY <1>0, <3>1
      <4>3. LET me == [attempt[r] EXCEPT !.pc = "put", !.wrote = consumed]
            IN  me.pc = "put" /\ me.read = None /\ me.wrote = consumed
        BY <2>0, <3>3 DEF F!Attempt
      <4> QED BY <1>0, <4>1, <4>2, <4>3
    <3> QED BY <1>0, <2>0, <3>2, <3>4
         DEF F!LinkInv, F!TypeOK, F!AttemptsSound, F!RedeemedOncePerSite, F!AcceptedIsRecorded, F!Accepted
  <2>2. CASE F!redeem(attempt[r]) # "Ok"
    <3> DEFINE pc == F!redeem(attempt[r])
    <3>1. attempt' = [attempt EXCEPT ![r].pc = pc] BY <1>2, <2>2 DEF F!Redeem
    <3>2. pc \in {"WrongSecret", "Expired", "AlreadyConsumed", "PersonMismatch"}
      BY <2>a, <2>2 DEF F!redeem
    <3> HIDE DEF pc
    <3>3. /\ attempt' \in [Redeemers -> F!Attempt] /\ attempt'[r].pc = pc
          /\ \A q \in Redeemers \ {r} : attempt'[q] = attempt[q]
      BY <1>0, <3>1, <3>2 DEF F!Attempt
    <3> QED BY <1>0, <2>0, <3>2, <3>3
         DEF F!LinkInv, F!TypeOK, F!AttemptsSound, F!RedeemedOncePerSite, F!AcceptedIsRecorded, F!Accepted
  <2> QED BY <2>1, <2>2
<1>3. ASSUME NEW r \in Redeemers, F!Put(r) PROVE F!LinkInv'
  <2>0. /\ attempt[r] \in F!Attempt /\ attempt[r].pc = "put" /\ attempt[r].site \in Sites
        /\ attempt[r].read = None /\ attempt[r].wrote \in F!Consumption /\ time' = time
    BY <1>0, <1>3 DEF F!Put, F!LinkInv, F!AttemptsSound, F!Attempt
  <2>1. CASE token[attempt[r].site] = attempt[r].read
    <3>1. /\ token' = [token EXCEPT ![attempt[r].site] = attempt[r].wrote]
          /\ attempt' = [attempt EXCEPT ![r].pc = "bind"]
      BY <1>3, <2>1 DEF F!Put
    <3>2. F!TypeOK' BY <1>0, <2>0, <3>1 DEF F!TypeOK, F!Attempt
    <3>3. /\ attempt'[r].pc = "bind" /\ attempt'[r].site = attempt[r].site
          /\ attempt'[r].wrote = attempt[r].wrote
          /\ \A q \in Redeemers \ {r} : attempt'[q] = attempt[q]
      BY <1>0, <2>0, <3>1 DEF F!Attempt
    <3>4. /\ token'[attempt[r].site] = attempt[r].wrote
          /\ \A s \in Sites : s # attempt[r].site => token'[s] = token[s]
      BY <1>0, <2>0, <3>1
    <3>5. \A q \in F!Accepted : attempt[q].site # attempt[r].site
      BY <2>0, <2>1 DEF F!LinkInv, F!AttemptsSound, F!AcceptedIsRecorded, F!Accepted
    <3>6. \A q \in Redeemers : attempt[q].site \in Sites BY <1>0 DEF F!Attempt
    <3>7. F!Accepted' = F!Accepted \cup {r} BY <3>3 DEF F!Accepted
    <3>8. F!Accepted \subseteq Redeemers BY DEF F!Accepted
    <3>9. F!RedeemedOncePerSite'
      BY <3>3, <3>5, <3>7, <3>8 DEF F!LinkInv, F!RedeemedOncePerSite
    <3>10. F!AcceptedIsRecorded'
      BY <3>3, <3>4, <3>5, <3>6, <3>7, <3>8 DEF F!LinkInv, F!AcceptedIsRecorded
    <3>11. F!AttemptsSound' BY <1>0, <2>0, <3>3 DEF F!LinkInv, F!AttemptsSound
    <3> QED BY <3>2, <3>9, <3>10, <3>11 DEF F!LinkInv
  <2>2. CASE token[attempt[r].site] # attempt[r].read
    <3>1. attempt' = [attempt EXCEPT ![r].pc = "Conflict"] /\ token' = token
      BY <1>3, <2>2 DEF F!Put
    <3>2. /\ attempt' \in [Redeemers -> F!Attempt] /\ attempt'[r].pc = "Conflict"
          /\ \A q \in Redeemers \ {r} : attempt'[q] = attempt[q]
      BY <1>0, <3>1 DEF F!Attempt
    <3> QED BY <1>0, <2>0, <3>1, <3>2
         DEF F!LinkInv, F!TypeOK, F!AttemptsSound, F!RedeemedOncePerSite, F!AcceptedIsRecorded, F!Accepted
  <2> QED BY <2>1, <2>2
<1>4. ASSUME NEW r \in Redeemers, F!Bind(r) PROVE F!LinkInv'
  <2>1. /\ attempt[r].pc = "bind" /\ attempt' = [attempt EXCEPT ![r].pc = "bound"]
        /\ UNCHANGED <<token, time>>
    BY <1>4 DEF F!Bind
  <2>2. /\ attempt' \in [Redeemers -> F!Attempt] /\ attempt'[r].pc = "bound"
        /\ \A q \in Redeemers : attempt'[q].site = attempt[q].site /\ attempt'[q].wrote = attempt[q].wrote
        /\ \A q \in Redeemers \ {r} : attempt'[q] = attempt[q]
    BY <1>0, <2>1 DEF F!Attempt
  <2>3. F!Accepted' = F!Accepted BY <2>1, <2>2 DEF F!Accepted
  <2>4. F!Accepted \subseteq Redeemers BY DEF F!Accepted
  <2> QED BY <1>0, <2>1, <2>2, <2>3, <2>4
       DEF F!LinkInv, F!TypeOK, F!AttemptsSound, F!RedeemedOncePerSite, F!AcceptedIsRecorded
<1>5. ASSUME NEW s \in Sites, NEW t \in Sites, s # t, F!Sync(s, t) PROVE F!LinkInv'
  <2>1. UNCHANGED <<attempt, time>> BY <1>5 DEF F!Sync
  <2>2. /\ token' \in [Sites -> F!Consumption \cup {None}]
        /\ \A p \in Sites : token[p] # None => token'[p] = token[p]
    BY <1>0, <1>5 DEF F!Sync
  <2>3. \A q \in F!Accepted : attempt[q].site \in Sites /\ attempt[q].wrote # None
    BY <1>0 DEF F!Attempt, F!Accepted, F!LinkInv, F!AttemptsSound
  <2> QED BY <1>0, <2>1, <2>2, <2>3
       DEF F!LinkInv, F!TypeOK, F!AttemptsSound, F!RedeemedOncePerSite, F!AcceptedIsRecorded, F!Accepted
<1>6. CASE F!Tick \/ UNCHANGED F!vars
  <2>1. UNCHANGED <<token, attempt>> /\ time' \in 0 .. MaxTime BY <1>0, <1>6 DEF F!Tick, F!vars
  <2> QED BY <1>0, <2>1
       DEF F!LinkInv, F!TypeOK, F!AttemptsSound, F!RedeemedOncePerSite, F!AcceptedIsRecorded, F!Accepted
<1> QED BY <1>1, <1>2, <1>3, <1>4, <1>5, <1>6 DEF F!Next

\* Every behaviour of the sites keeps the inductive invariant.
THEOREM LinkInvariant ==
    ASSUME F!FleetAssumption
    PROVE  F!Spec => []F!LinkInv
<1>1. F!Init => F!LinkInv BY LinkInit
<1>2. F!LinkInv /\ [F!Next]_F!vars => F!LinkInv' BY LinkStep
<1> QED BY <1>1, <1>2, PTL DEF F!Spec

\* LinkToken::redeem with the conditional put: for any number of sites, attempts and
\* accounts, a token is redeemed at most once at a site, and what was accepted there is
\* what its token goes on recording, whatever is synced.
THEOREM RedeemedOnce ==
    ASSUME F!FleetAssumption
    PROVE  F!Spec => [](F!RedeemedOncePerSite /\ F!AcceptedIsRecorded)
<1>1. F!LinkInv => F!RedeemedOncePerSite /\ F!AcceptedIsRecorded BY DEF F!LinkInv
<1> QED BY <1>1, LinkInvariant, PTL

(***************************************************************************)
(* Imports (Tickets)                                                       *)
(***************************************************************************)

\* An item that changes moves to the end, and the others close up.
LEMMA MovedLastLists ==
    ASSUME NEW b \in Boards, T!Lists(order[b]), NEW u \in T!Uids
    PROVE  T!Lists(T!MovedLast(b, u))
<1> DEFINE all == order[b]
           n == Len(all)
           at == CHOOSE i \in 1 .. n : all[i] = u
           moved == T!MovedLast(b, u)
<1>1. n \in Nat /\ all \in [1 .. n -> T!Uids] /\ \A v \in T!Uids : \E i \in 1 .. n : all[i] = v
  BY DEF T!Lists
<1>2. at \in 1 .. n /\ all[at] = u BY <1>1
<1>3. moved = [i \in 1 .. n |-> IF i < at THEN all[i] ELSE IF i < n THEN all[i + 1] ELSE u]
  BY DEF T!MovedLast
<1> HIDE DEF all, n, at, moved
<1>4. moved \in Seq(T!Uids) /\ Len(moved) = n
  <2>1. moved \in [1 .. n -> T!Uids] BY <1>1, <1>2, <1>3
  <2> QED BY <1>1, <2>1
<1>5. ASSUME NEW v \in T!Uids PROVE \E i \in 1 .. n : moved[i] = v
  <2>1. CASE v = u BY <1>1, <1>2, <1>3, <2>1
  <2>2. CASE v # u
    <3>1. PICK i \in 1 .. n : all[i] = v BY <1>1
    <3>2. i # at BY <1>2, <2>2, <3>1
    <3>3. CASE i < at BY <1>1, <1>3, <3>1, <3>3
    <3>4. CASE i > at
      <4>1. i - 1 \in 1 .. n /\ ~(i - 1 < at) /\ i - 1 < n /\ (i - 1) + 1 = i
        BY <1>1, <1>2, <3>1, <3>4
      <4>2. moved[i - 1] = all[i] BY <1>3, <4>1
      <4> QED BY <3>1, <4>1, <4>2
    <3> QED BY <1>1, <1>2, <3>2, <3>3, <3>4
  <2> QED BY <2>1, <2>2
<1> QED BY <1>4, <1>5 DEF T!Lists, moved

\* A listing names every item, whichever way the provider pages.
LEMMA ListingLists ==
    ASSUME T!TicketsAssumption, T!TypeOK, NEW b \in Boards
    PROVE  T!Lists(T!Listing(b))
<1>1. T!Lists(Items) BY DEF T!TicketsAssumption, T!Lists, T!Uids
<1> QED BY <1>1 DEF T!Listing, T!TypeOK

\* Every state is read as some category.
LEMMA ReadIsCategory ==
    ASSUME T!TicketsAssumption, conn \in Configs, NEW b \in Boards, NEW item
    PROVE  T!Read(conn[b], item) \in T!States
<1> DEFINE c == conn[b]
<1>1. /\ c.provider \in {"github", "project", "gitlab", "asana", "jira", "linear"}
      /\ c.default \in T!States
      /\ \A v \in DOMAIN c.values : c.values[v] \in T!States
  BY DEF T!TicketsAssumption
<1> HIDE DEF c
<1>s. {"Triage", "Backlog", "Open", "InProgress", "Done", "Canceled"} \subseteq T!States
  BY DEF T!States
<1>2. ASSUME NEW value PROVE T!CategoryOf(c, value) \in T!States
  <2> DEFINE alike == {v \in DOMAIN c.values : Lower[v] = Lower[value]}
  <2>1. alike # {} => (CHOOSE v \in alike : TRUE) \in DOMAIN c.values OBVIOUS
  <2> QED BY <1>1, <2>1 DEF T!CategoryOf
<1>3. T!ReadGitHub(item) \in T!States BY <1>s DEF T!ReadGitHub
<1>4. T!ReadProject(c, item) \in T!States BY <1>2 DEF T!ReadProject
<1>5. T!ReadGitLab(c, item) \in T!States BY <1>s, <1>2 DEF T!ReadGitLab
<1>6. T!ReadAsana(c, item) \in T!States BY <1>s, <1>2 DEF T!ReadAsana
<1>7. T!ReadJira(c, item) \in T!States BY <1>s, <1>1 DEF T!ReadJira, T!JiraGroup
<1>8. T!ReadLinear(c, item) \in T!States BY <1>s, <1>1 DEF T!ReadLinear, T!LinearGroup
<1>9. T!Read(c, item) \in T!States BY <1>1, <1>3, <1>4, <1>5, <1>6, <1>7, <1>8 DEF T!Read
<1> QED BY <1>9 DEF c

\* No two connections have a record in common.
LEMMA KeysDiffer ==
    ASSUME T!TicketsAssumption, conn \in Configs,
           NEW b \in Boards, NEW d \in Boards, NEW u \in T!Uids, NEW v \in T!Uids
    PROVE  /\ T!RecordKey(b, u) \in T!TicketKeys
           /\ T!RecordKey(b, u) = T!RecordKey(d, v) => b = d /\ u = v
BY DEF T!TicketsAssumption, T!RecordKey, T!TicketKeys


\* An import that has not begun, or was given up, is sound.
LEMMA IdleSound ==
    ASSUME T!TicketsAssumption, NEW me, NEW paging, NEW listing, NEW says, NEW mirror,
           me.pc \in {"idle", "fetch"}, me.cursor = None, me.todo = <<>>, me.outcome # "ok",
           me.pc = "fetch" => me.outcome = None
    PROVE  T!Sound(me, paging, listing, says, mirror)
<1>1. None # 0 BY DEF T!TicketsAssumption
<1>2. me.pc = "fetch" => T!Fetched(me, listing) = 0 BY DEF T!Fetched
<1> QED BY <1>1, <1>2 DEF T!Sound

LEMMA MirrorInit == ASSUME T!TicketsAssumption, T!Init PROVE T!MirrorInv
<1>1. conn \in Configs BY DEF T!Init
<1>2. DOMAIN remote = Boards /\ \A b \in Boards : DOMAIN remote[b] = T!Uids BY DEF T!Init
<1>3. DOMAIN order = Boards /\ \A b \in Boards : T!Lists(order[b])
  <2>1. T!Lists(Items) BY DEF T!TicketsAssumption, T!Lists, T!Uids
  <2> QED BY <2>1 DEF T!Init
<1>4. store \in [T!TicketKeys -> T!Ticket \cup {None}]
  <2> DEFINE before == [rev |-> 0, body |-> "Before", live |-> TRUE]
  <2>1. before \in T!Ticket BY DEF T!Ticket, T!States
  <2>2. store = [k \in T!TicketKeys |-> None] \/ store = [k \in T!TicketKeys |-> before]
    BY DEF T!Init
  <2> HIDE DEF before
  <2> QED BY <2>1, <2>2
<1>5. T!Idle \in T!Import BY DEF T!Idle, T!Import
<1>6. sync \in [Boards -> T!Import] /\ \A b \in Boards : sync[b] = T!Idle BY <1>5 DEF T!Init
<1>7. T!TypeOK BY <1>1, <1>2, <1>3, <1>4, <1>6 DEF T!TypeOK
<1>8. /\ T!Idle.pc = "idle" /\ T!Idle.cursor = None /\ T!Idle.todo = <<>> /\ T!Idle.outcome = None
      /\ None # "ok"
  BY DEF T!Idle, T!TicketsAssumption
<1>9. \A b \in Boards : T!ImportSound(b) BY <1>6, <1>8, IdleSound DEF T!ImportSound
<1> QED BY <1>7, <1>9 DEF T!MirrorInv

LEMMA MirrorHolds == ASSUME T!MirrorInv PROVE QuietSyncMirrors
<1> SUFFICES ASSUME NEW b \in Boards, sync[b].outcome = "ok",
                    NEW u \in T!Uids \ sync[b].touched,
                    conn[b].paging = "token" \/ sync[b].touched = {}
             PROVE  /\ T!Live(T!RecordKey(b, u)) # None
                    /\ T!Live(T!RecordKey(b, u)).body = T!Read(conn[b], remote[b][u])
  BY DEF QuietSyncMirrors, T!QuietSyncMirrors
<1>1. u \in T!Owed(sync[b], conn[b].paging) BY DEF T!Owed
<1>2. u \in T!Mirror(b) BY <1>1 DEF T!MirrorInv, T!ImportSound, T!Sound
<1> QED BY <1>2 DEF T!Mirror, T!Says

\* What an import has done stays done while what it answers for stays as it is.
LEMMA StillSound ==
    ASSUME NEW me, NEW now, NEW paging, NEW listing, NEW says, NEW mirror,
           NEW listed, NEW said, NEW mirrored,
           T!Sound(me, paging, listing, says, mirror),
           now.pc = me.pc, now.cursor = me.cursor, now.todo = me.todo,
           now.outcome \in {me.outcome, None}, me.touched \subseteq now.touched,
           T!Owed(now, paging) # {} => listed = listing,
           \A u \in T!Owed(now, paging) : said[u] = says[u] /\ (u \in mirror => u \in mirrored),
           None # "ok"
    PROVE  T!Sound(now, paging, listed, said, mirrored)
<1>1. T!Owed(now, paging) \subseteq T!Owed(me, paging) BY DEF T!Owed
<1>2. T!Fetched(now, listing) = T!Fetched(me, listing) BY DEF T!Fetched
<1>3. ASSUME now.pc # "idle", NEW n \in 1 .. Len(listed), n <= T!Fetched(now, listed),
             listed[n] \in T!Owed(now, paging)
      PROVE  listed[n] \in mirrored \/ \E i \in 1 .. Len(now.todo) : now.todo[i].uid = listed[n]
  BY <1>1, <1>2, <1>3 DEF T!Sound
<1> QED BY <1>1, <1>3 DEF T!Sound

\* A page holds what lies between its ends.
LEMMA PageHolds ==
    ASSUME NEW all \in Seq(T!Uids), NEW from \in Nat \ {0}, NEW last \in Nat, last <= Len(all),
           NEW n \in Nat, from <= n, n <= last
    PROVE  \E i \in 1 .. Len(SubSeq(all, from, last)) : SubSeq(all, from, last)[i] = all[n]
<1> DEFINE page == SubSeq(all, from, last)
<1>1. Len(all) \in Nat OBVIOUS
<1>2. page = [i \in 1 .. (last - from + 1) |-> all[i + from - 1]] BY <1>1
<1>3. Len(page) = last - from + 1 BY <1>1, <1>2
<1>4. n - from + 1 \in 1 .. (last - from + 1) /\ (n - from + 1) + from - 1 = n OBVIOUS
<1> HIDE DEF page
<1>5. page[n - from + 1] = all[n] BY <1>2, <1>4
<1> QED BY <1>3, <1>4, <1>5 DEF page

\* A page is fetched: what it holds of the listing follows what was fetched before.
LEMMA FetchSound ==
    ASSUME T!TicketsAssumption, NEW me, NEW now, NEW paging, NEW listing, NEW says, NEW mirror,
           T!Sound(me, paging, listing, says, mirror), me.pc = "fetch",
           now.pc = "get", now.outcome = me.outcome, now.touched = me.touched, now.cursor # 0,
           \A i \in 1 .. Len(now.todo) : now.todo[i].body = says[now.todo[i].uid],
           \A n \in 1 .. Len(listing) : n <= T!Fetched(now, listing) =>
              \/ n <= T!Fetched(me, listing)
              \/ \E i \in 1 .. Len(now.todo) : now.todo[i].uid = listing[n]
    PROVE  T!Sound(now, paging, listing, says, mirror)
<1>1. T!Owed(now, paging) = T!Owed(me, paging) BY DEF T!Owed
<1>2. now.outcome = None /\ None # "ok" BY DEF T!Sound, T!TicketsAssumption
<1>3. me.todo = <<>> /\ Len(me.todo) = 0 BY DEF T!Sound
<1>4. \A n \in 1 .. Len(listing) :
         n <= T!Fetched(me, listing) /\ listing[n] \in T!Owed(me, paging) => listing[n] \in mirror
  BY <1>3 DEF T!Sound
<1> QED BY <1>1, <1>2, <1>4 DEF T!Sound

\* The first ticket is dealt with: its record says what it says, or did before.
LEMMA UpsertSound ==
    ASSUME T!TicketsAssumption, NEW me \in T!Import, NEW now, NEW paging, NEW listing, NEW says,
           NEW mirror, NEW mirrored,
           T!Sound(me, paging, listing, says, mirror), me.pc \in {"get", "put"}, me.todo # <<>>,
           now.pc = "get", now.cursor = me.cursor, now.todo = Tail(me.todo),
           now.outcome = me.outcome, now.touched = me.touched,
           \A u \in mirror : u # Head(me.todo).uid => u \in mirrored,
           Head(me.todo).uid \in T!Owed(me, paging) => Head(me.todo).uid \in mirrored
    PROVE  T!Sound(now, paging, listing, says, mirrored)
<1> DEFINE n == Len(me.todo)
<1>1. /\ me.todo \in Seq([uid : T!Uids, body : T!States]) /\ n \in Nat \ {0}
      /\ Len(now.todo) = n - 1 /\ Head(me.todo) = me.todo[1]
      /\ \A i \in 1 .. (n - 1) : now.todo[i] = me.todo[i + 1]
  <2>1. me.todo \in Seq([uid : T!Uids, body : T!States]) BY DEF T!Import
  <2> QED BY <2>1
<1> HIDE DEF n
<1>2. T!Owed(now, paging) = T!Owed(me, paging) BY DEF T!Owed
<1>3. T!Fetched(now, listing) = T!Fetched(me, listing) BY DEF T!Fetched
<1>4. now.outcome = None /\ None # "ok" BY DEF T!Sound, T!TicketsAssumption
<1>5. ASSUME NEW i \in 1 .. Len(now.todo), now.todo[i].uid \in T!Owed(now, paging)
      PROVE  now.todo[i].body = says[now.todo[i].uid]
  <2>1. i + 1 \in 1 .. n /\ now.todo[i] = me.todo[i + 1] BY <1>1
  <2> QED BY <1>2, <1>5, <2>1 DEF T!Sound, n
<1>6. ASSUME NEW k \in 1 .. Len(listing), k <= T!Fetched(now, listing),
             listing[k] \in T!Owed(now, paging)
      PROVE  listing[k] \in mirrored \/ \E i \in 1 .. Len(now.todo) : now.todo[i].uid = listing[k]
  <2>1. CASE listing[k] = Head(me.todo).uid BY <1>2, <1>6, <2>1
  <2>2. CASE listing[k] # Head(me.todo).uid /\ listing[k] \in mirror BY <2>2
  <2>3. CASE listing[k] # Head(me.todo).uid /\ listing[k] \notin mirror
    <3>1. PICK i \in 1 .. n : me.todo[i].uid = listing[k]
      BY <1>2, <1>3, <1>6, <2>3 DEF T!Sound, n
    <3>2. i # 1 BY <1>1, <2>3, <3>1
    <3>3. i - 1 \in 1 .. Len(now.todo) /\ now.todo[i - 1] = me.todo[i] BY <1>1, <3>1, <3>2
    <3> QED BY <3>1, <3>3
  <2> QED BY <2>1, <2>2, <2>3
<1>7. now.cursor # 0 BY DEF T!Sound
<1> QED BY <1>4, <1>5, <1>6, <1>7 DEF T!Sound

\* The last page dealt with, everything the import answers for is mirrored.
LEMMA PageEndSound ==
    ASSUME T!TicketsAssumption, NEW me, NEW now, NEW paging, NEW listing, NEW says, NEW mirror,
           T!Lists(listing),
           T!Sound(me, paging, listing, says, mirror), me.pc = "get", me.todo = <<>>,
           now.pc = (IF me.cursor = None THEN "idle" ELSE "fetch"),
           now.outcome = (IF me.cursor = None THEN "ok" ELSE None),
           now.cursor = me.cursor, now.todo = me.todo, now.touched = me.touched
    PROVE  T!Sound(now, paging, listing, says, mirror)
<1>1. T!Owed(now, paging) = T!Owed(me, paging) BY DEF T!Owed
<1>2. None # "ok" BY DEF T!TicketsAssumption
<1>3. me.todo = <<>> /\ Len(me.todo) = 0 OBVIOUS
<1>4. \A n \in 1 .. Len(listing) :
         n <= T!Fetched(me, listing) /\ listing[n] \in T!Owed(me, paging) => listing[n] \in mirror
  BY <1>3 DEF T!Sound
<1>5. CASE me.cursor = None
  <2>1. T!Fetched(me, listing) = Len(listing) BY <1>5 DEF T!Fetched
  <2>2. ASSUME NEW u \in T!Owed(me, paging) PROVE u \in mirror
    <3>1. PICK n \in 1 .. Len(listing) : listing[n] = u BY DEF T!Lists, T!Owed
    <3>2. n <= Len(listing) BY <3>1 DEF T!Lists
    <3> QED BY <1>4, <2>1, <3>1, <3>2
  <2> QED BY <1>1, <1>3, <1>5, <2>2 DEF T!Sound
<1>6. CASE me.cursor # None
  <2>1. T!Fetched(now, listing) = T!Fetched(me, listing) BY <1>6 DEF T!Fetched
  <2> QED BY <1>1, <1>2, <1>3, <1>4, <1>6, <2>1 DEF T!Sound
<1> QED BY <1>5, <1>6

\* An item whose state and record stay is mirrored if it was.
LEMMA MirrorStays ==
    ASSUME NEW b \in Boards, NEW u \in T!Uids, UNCHANGED conn, remote'[b][u] = remote[b][u],
           store'[T!RecordKey(b, u)] = store[T!RecordKey(b, u)]
    PROVE  /\ T!Says(b)'[u] = T!Says(b)[u]
           /\ u \in T!Mirror(b)' <=> u \in T!Mirror(b)
<1>1. T!RecordKey(b, u)' = T!RecordKey(b, u) BY DEF T!RecordKey
<1>2. T!Live(T!RecordKey(b, u))' = T!Live(T!RecordKey(b, u)) BY <1>1 DEF T!Live
<1>3. T!Says(b)'[u] = T!Says(b)[u] BY DEF T!Says
<1> QED BY <1>2, <1>3 DEF T!Mirror

\* What others do is nothing to the import of a board they do not touch.
LEMMA OtherSound ==
    ASSUME T!TicketsAssumption, T!MirrorInv, NEW d \in Boards, UNCHANGED conn,
           sync'[d] = sync[d], order'[d] = order[d], remote'[d] = remote[d],
           \A v \in T!Uids : store'[T!RecordKey(d, v)] = store[T!RecordKey(d, v)]
    PROVE  T!ImportSound(d)'
<1>1. T!Sound(sync[d], conn[d].paging, T!Listing(d), T!Says(d), T!Mirror(d))
  BY DEF T!MirrorInv, T!ImportSound
<1>2. T!Listing(d)' = T!Listing(d) BY DEF T!Listing
<1>3. \A u \in T!Uids : T!Says(d)'[u] = T!Says(d)[u] /\ (u \in T!Mirror(d)' <=> u \in T!Mirror(d))
  BY MirrorStays
<1>4. T!Owed(sync[d], conn[d].paging) \subseteq T!Uids BY DEF T!Owed
<1>5. None # "ok" BY DEF T!TicketsAssumption
<1> DEFINE says == T!Says(d)'
           mirror == T!Mirror(d)'
           listing == T!Listing(d)'
<1>6. listing = T!Listing(d) BY <1>2
<1>7. \A u \in T!Uids : says[u] = T!Says(d)[u] /\ (u \in mirror <=> u \in T!Mirror(d)) BY <1>3
<1>8. T!ImportSound(d)' <=> T!Sound(sync[d], conn[d].paging, listing, says, mirror)
  BY DEF T!ImportSound
<1> HIDE DEF says, mirror, listing
<1>9. T!Sound(sync[d], conn[d].paging, listing, says, mirror)
  BY <1>1, <1>4, <1>5, <1>6, <1>7, StillSound
<1> QED BY <1>8, <1>9

\* A touched item is none an import answers for, and where pages are numbers none is.
LEMMA TouchedSound ==
    ASSUME T!TicketsAssumption, T!MirrorInv, NEW b \in Boards, NEW u \in T!Uids, UNCHANGED conn,
           sync'[b] = [sync[b] EXCEPT !.touched = @ \cup {u}, !.outcome = None],
           \A v \in T!Uids \ {u} : /\ remote'[b][v] = remote[b][v]
                                  /\ store'[T!RecordKey(b, v)] = store[T!RecordKey(b, v)]
    PROVE  T!ImportSound(b)'
<1> DEFINE me == sync[b]
           now == sync'[b]
           says == T!Says(b)'
           mirror == T!Mirror(b)'
           listing == T!Listing(b)'
           paging == conn[b].paging
<1>1. me \in T!Import BY DEF T!MirrorInv, T!TypeOK
<1>2. /\ now.pc = me.pc /\ now.cursor = me.cursor /\ now.todo = me.todo /\ now.outcome = None
      /\ now.touched = me.touched \cup {u}
  BY <1>1 DEF T!Import
<1>3. T!Sound(me, paging, T!Listing(b), T!Says(b), T!Mirror(b))
  BY DEF T!MirrorInv, T!ImportSound
<1>4. \A v \in T!Uids \ {u} : says[v] = T!Says(b)[v] /\ (v \in mirror <=> v \in T!Mirror(b))
  BY MirrorStays
<1>5. paging = "token" => listing = T!Listing(b)
  BY DEF T!Listing
<1>6. T!Owed(now, paging) \subseteq T!Uids \ {u} /\ (T!Owed(now, paging) # {} => paging = "token")
  <2> HIDE DEF now, me, paging
  <2> QED BY <1>2 DEF T!Owed
<1>7. T!ImportSound(b)' <=> T!Sound(now, paging, listing, says, mirror)
  BY DEF T!ImportSound
<1>8. None # "ok" BY DEF T!TicketsAssumption
<1> HIDE DEF me, now, says, mirror, listing, paging
<1>9. T!Sound(now, paging, listing, says, mirror)
  BY <1>2, <1>3, <1>4, <1>5, <1>6, <1>8, StillSound
<1> QED BY <1>7, <1>9

\* An import's own step that writes no record.
LEMMA OwnStep ==
    ASSUME T!TicketsAssumption, T!MirrorInv, NEW b \in Boards, NEW now \in T!Import,
           UNCHANGED <<conn, remote, order, store>>, sync' = [sync EXCEPT ![b] = now],
           T!Sound(now, conn[b].paging, T!Listing(b), T!Says(b), T!Mirror(b))
    PROVE  T!MirrorInv'
<1>1. T!TypeOK BY DEF T!MirrorInv
<1>2. /\ sync' \in [Boards -> T!Import] /\ sync'[b] = now
      /\ \A d \in Boards \ {b} : sync'[d] = sync[d]
  BY <1>1 DEF T!TypeOK
<1>3. T!TypeOK'
  <2>1. T!TicketKeys' = T!TicketKeys BY DEF T!TicketKeys, T!RecordKey
  <2> QED BY <1>1, <1>2, <2>1 DEF T!TypeOK
<1>4. ASSUME NEW d \in Boards PROVE T!ImportSound(d)'
  <2>1. CASE d = b
    <3>1. T!Listing(b)' = T!Listing(b) BY DEF T!Listing
    <3>2. T!Says(b)' = T!Says(b) BY DEF T!Says
    <3>3. T!Mirror(b)' = T!Mirror(b) BY DEF T!Mirror, T!Live, T!RecordKey, T!Says
    <3> QED BY <1>2, <2>1, <3>1, <3>2, <3>3 DEF T!ImportSound
  <2>2. CASE d # b
    <3>1. /\ conn' = conn /\ sync'[d] = sync[d] /\ order'[d] = order[d] /\ remote'[d] = remote[d]
          /\ \A v \in T!Uids : store'[T!RecordKey(d, v)] = store[T!RecordKey(d, v)]
      BY <1>2, <2>2
    <3> QED BY <3>1, OtherSound
  <2> QED BY <2>1, <2>2
<1> QED BY <1>3, <1>4 DEF T!MirrorInv

LEMMA StartSyncStep ==
    ASSUME T!TicketsAssumption, T!MirrorInv, NEW b \in Boards, T!StartSync(b) PROVE T!MirrorInv'
<1> DEFINE now == [T!Idle EXCEPT !.pc = "fetch"]
<1>1. now \in T!Import
  <2>1. T!Idle \in T!Import BY DEF T!Idle, T!Import
  <2> QED BY <2>1 DEF T!Import
<1>2. /\ now.pc = "fetch" /\ now.cursor = None /\ now.todo = <<>> /\ now.outcome = None
      /\ None # "ok"
  BY DEF T!Idle, T!TicketsAssumption
<1>3. sync' = [sync EXCEPT ![b] = now] /\ UNCHANGED <<conn, remote, order, store>>
  BY DEF T!StartSync
<1> HIDE DEF now
<1>4. T!Sound(now, conn[b].paging, T!Listing(b), T!Says(b), T!Mirror(b)) BY <1>2, IdleSound
<1> QED BY <1>1, <1>3, <1>4, OwnStep

LEMMA FetchStep ==
    ASSUME T!TicketsAssumption, T!MirrorInv, NEW b \in Boards, T!Fetch(b) PROVE T!MirrorInv'
<1> DEFINE me == sync[b]
           all == T!Listing(b)
           from == IF me.cursor = None THEN 1 ELSE me.cursor
           to == from + PageSize - 1
           last == IF to > Len(all) THEN Len(all) ELSE to
           items == SubSeq(all, from, last)
           next == IF to < Len(all) THEN to + 1 ELSE None
           tickets == [i \in 1 .. Len(items) |->
                          [uid |-> items[i], body |-> T!Read(conn[b], remote[b][items[i]])]]
           now == [me EXCEPT !.pc = "get", !.todo = tickets, !.cursor = next]
<1>0. T!TypeOK BY DEF T!MirrorInv
<1>1. me \in T!Import BY <1>0 DEF T!TypeOK
<1>2. /\ me.pc = "fetch" /\ UNCHANGED <<conn, remote, order, store>>
      /\ sync' = [sync EXCEPT ![b].pc = "get", ![b].todo = tickets, ![b].cursor = next]
  BY DEF T!Fetch, T!PageAt
<1>3. T!Sound(me, conn[b].paging, all, T!Says(b), T!Mirror(b)) BY DEF T!MirrorInv, T!ImportSound
<1>4. all \in Seq(T!Uids) BY <1>0, ListingLists DEF T!Lists
<1>5. from \in Nat \ {0} /\ next \in Nat \cup {None}
  <2>1. me.cursor \in Nat \cup {None} BY <1>1 DEF T!Import
  <2>2. me.cursor # 0 BY <1>3 DEF T!Sound
  <2>3. PageSize \in Nat \ {0} BY DEF T!TicketsAssumption
  <2>4. from \in Nat \ {0} BY <2>1, <2>2
  <2> HIDE DEF from
  <2>5. to \in Nat BY <2>3, <2>4
  <2> QED BY <2>4, <2>5
<1>6. last \in Nat /\ last <= Len(all)
  <2>1. Len(all) \in Nat /\ PageSize \in Nat \ {0} BY <1>4 DEF T!TicketsAssumption
  <2> HIDE DEF from, all
  <2> QED BY <1>5, <2>1
<1>7. items \in Seq(T!Uids)
  <2> HIDE DEF from, last, all
  <2> QED BY <1>4, <1>5, <1>6
<1> HIDE DEF all, from, to, last, items, next
<1>8. /\ tickets \in Seq([uid : T!Uids, body : T!States]) /\ Len(tickets) = Len(items)
      /\ \A i \in 1 .. Len(items) : /\ tickets[i].uid = items[i]
                                    /\ tickets[i].body = T!Says(b)[items[i]]
  <2>1. Len(items) \in Nat /\ \A i \in 1 .. Len(items) : items[i] \in T!Uids BY <1>7
  <2>2. \A i \in 1 .. Len(items) : T!Read(conn[b], remote[b][items[i]]) \in T!States
    BY <1>0, ReadIsCategory DEF T!TypeOK
  <2>3. \A i \in 1 .. Len(items) : tickets[i] \in [uid : T!Uids, body : T!States]
    BY <2>1, <2>2
  <2>4. tickets \in Seq([uid : T!Uids, body : T!States]) /\ Len(tickets) = Len(items)
    BY <2>1, <2>3
  <2>5. \A i \in 1 .. Len(items) : tickets[i].uid = items[i] /\ tickets[i].body = T!Says(b)[items[i]]
    BY <2>1 DEF T!Says
  <2> QED BY <2>4, <2>5
<1> HIDE DEF tickets
<1>9. sync' = [sync EXCEPT ![b] = now] BY <1>0, <1>1, <1>2 DEF T!TypeOK
<1>10. now \in T!Import
  BY <1>1, <1>5, <1>8 DEF T!Import
<1>11. /\ now.pc = "get" /\ now.todo = tickets /\ now.cursor = next
       /\ now.outcome = me.outcome /\ now.touched = me.touched
  BY <1>1 DEF T!Import
<1> HIDE DEF now
<1>12. PageSize \in Nat \ {0} /\ None \notin Nat /\ Len(all) \in Nat
  BY <1>4 DEF T!TicketsAssumption
<1>13. to \in Nat BY <1>5, <1>12 DEF to
<1>14. T!Fetched(me, all) = from - 1
  <2>1. me.cursor \in Nat \cup {None} BY <1>1 DEF T!Import
  <2>2. T!Fetched(me, all) = IF me.cursor # None THEN me.cursor - 1 ELSE 0
    BY <1>2 DEF T!Fetched
  <2> HIDE DEF me
  <2> QED BY <1>12, <2>1, <2>2 DEF from
<1>15. now.cursor # 0 /\ T!Fetched(now, all) = last
  <2>1. T!Fetched(now, all) = IF next # None THEN next - 1 ELSE Len(all)
    BY <1>11 DEF T!Fetched
  <2>2. CASE to < Len(all)
    <3>1. next = to + 1 /\ next # None /\ last = to BY <1>12, <1>13, <2>2 DEF next, last
    <3> QED BY <1>11, <1>13, <2>1, <3>1
  <2>3. CASE ~(to < Len(all))
    <3>1. next = None /\ last = Len(all) BY <1>12, <1>13, <2>3 DEF next, last
    <3> QED BY <1>11, <1>12, <2>1, <3>1
  <2> QED BY <2>2, <2>3
<1>16. ASSUME NEW n \in 1 .. Len(all), n <= last
       PROVE  \/ n <= from - 1
              \/ \E i \in 1 .. Len(now.todo) : now.todo[i].uid = all[n]
  <2>1. CASE n < from BY <1>5, <2>1
  <2>2. CASE from <= n
    <3>1. n \in Nat BY <1>12
    <3>2. \E i \in 1 .. Len(items) : items[i] = all[n]
      <4>1. \E i \in 1 .. Len(SubSeq(all, from, last)) : SubSeq(all, from, last)[i] = all[n]
        BY ONLY <1>4, <1>5, <1>6, <1>16, <2>2, <3>1, PageHolds, ZenonT(30)
      <4> QED BY <4>1 DEF items
    <3> QED BY <1>8, <1>11, <3>2
  <2> QED BY <1>5, <1>12, <2>1, <2>2
<1>17. \A i \in 1 .. Len(now.todo) : now.todo[i].body = T!Says(b)[now.todo[i].uid]
  BY <1>8, <1>11
<1> HIDE DEF me
<1>18. T!Sound(now, conn[b].paging, all, T!Says(b), T!Mirror(b))
  BY <1>2, <1>3, <1>11, <1>14, <1>15, <1>16, <1>17, FetchSound
<1> QED BY <1>2, <1>9, <1>10, <1>18, OwnStep DEF all

LEMMA NextPageStep ==
    ASSUME T!TicketsAssumption, T!MirrorInv, NEW b \in Boards, T!NextPage(b) PROVE T!MirrorInv'
<1> DEFINE me == sync[b]
           now == [me EXCEPT !.pc = IF me.cursor = None THEN "idle" ELSE "fetch",
                             !.outcome = IF me.cursor = None THEN "ok" ELSE None]
<1>0. T!TypeOK BY DEF T!MirrorInv
<1>1. me \in T!Import BY <1>0 DEF T!TypeOK
<1>2. /\ me.pc = "get" /\ me.todo = <<>> /\ UNCHANGED <<conn, remote, order, store>>
      /\ sync' = [sync EXCEPT ![b] = now]
  BY <1>0, <1>1 DEF T!NextPage, T!TypeOK
<1>3. T!Sound(me, conn[b].paging, T!Listing(b), T!Says(b), T!Mirror(b))
  BY DEF T!MirrorInv, T!ImportSound
<1>4. now \in T!Import BY <1>1 DEF T!Import
<1>5. /\ now.pc = (IF me.cursor = None THEN "idle" ELSE "fetch")
      /\ now.outcome = (IF me.cursor = None THEN "ok" ELSE None)
      /\ now.cursor = me.cursor /\ now.todo = me.todo /\ now.touched = me.touched
  BY <1>1 DEF T!Import
<1>6. T!Lists(T!Listing(b)) BY <1>0, ListingLists
<1> HIDE DEF me, now
<1>7. T!Sound(now, conn[b].paging, T!Listing(b), T!Says(b), T!Mirror(b))
  BY <1>2, <1>3, <1>5, <1>6, PageEndSound
<1> QED BY <1>2, <1>4, <1>7, OwnStep

\* The first ticket of those to upsert.
LEMMA FirstTicket ==
    ASSUME NEW todo \in Seq([uid : T!Uids, body : T!States]), todo # <<>>
    PROVE  /\ Head(todo) \in [uid : T!Uids, body : T!States] /\ Head(todo) = todo[1]
           /\ 1 \in 1 .. Len(todo) /\ Tail(todo) \in Seq([uid : T!Uids, body : T!States])
<1> DEFINE S == [uid : T!Uids, body : T!States]
<1>1. todo \in Seq(S) OBVIOUS
<1> HIDE DEF S
<1>2. 1 \in 1 .. Len(todo) /\ Head(todo) = todo[1] /\ todo[1] \in S /\ Tail(todo) \in Seq(S)
  BY <1>1
<1> QED BY <1>2 DEF S

LEMMA GetStep ==
    ASSUME T!TicketsAssumption, T!MirrorInv, NEW b \in Boards, T!Get(b) PROVE T!MirrorInv'
<1> DEFINE me == sync[b]
           t == Head(me.todo)
           seen == T!Live(T!RecordKey(b, t.uid))
           skips == [me EXCEPT !.todo = Tail(@)]
           puts == [me EXCEPT !.pc = "put", !.seen = seen]
           paging == conn[b].paging
<1>0. T!TypeOK BY DEF T!MirrorInv
<1>1. me \in T!Import BY <1>0 DEF T!TypeOK
<1>2. /\ me.pc = "get" /\ me.todo # <<>> /\ UNCHANGED <<conn, remote, order, store>>
      /\ sync' = IF seen # None /\ seen.body = t.body THEN [sync EXCEPT ![b] = skips]
                 ELSE [sync EXCEPT ![b] = puts]
  BY <1>0, <1>1 DEF T!Get, T!TypeOK
<1>3. T!Sound(me, paging, T!Listing(b), T!Says(b), T!Mirror(b))
  BY DEF T!MirrorInv, T!ImportSound
<1>4. me.todo \in Seq([uid : T!Uids, body : T!States]) BY <1>1 DEF T!Import
<1>5. t \in [uid : T!Uids, body : T!States] /\ t = me.todo[1] /\ 1 \in 1 .. Len(me.todo)
  BY <1>2, <1>4, FirstTicket
<1>6. CASE seen # None /\ seen.body = t.body
  <2>1. skips \in T!Import
    <3>1. Tail(me.todo) \in Seq([uid : T!Uids, body : T!States]) BY <1>2, <1>4
    <3> QED BY <1>1, <3>1 DEF T!Import
  <2>2. /\ skips.pc = "get" /\ skips.cursor = me.cursor /\ skips.todo = Tail(me.todo)
        /\ skips.outcome = me.outcome /\ skips.touched = me.touched
    BY <1>1, <1>2 DEF T!Import
  <2>3. t.uid \in T!Owed(me, paging) => t.uid \in T!Mirror(b)
    <3>1. t.uid \in T!Owed(me, paging) => t.body = T!Says(b)[t.uid] BY <1>3, <1>5 DEF T!Sound
    <3> QED BY <1>5, <1>6, <3>1 DEF T!Mirror
  <2> HIDE DEF me, skips, paging, seen
  <2>4. T!Sound(skips, paging, T!Listing(b), T!Says(b), T!Mirror(b))
    BY <1>1, <1>2, <1>3, <2>2, <2>3, UpsertSound
  <2>5. sync' = [sync EXCEPT ![b] = skips] BY <1>2, <1>6
  <2> QED BY <1>2, <2>1, <2>4, <2>5, OwnStep DEF paging
<1>7. CASE ~(seen # None /\ seen.body = t.body)
  <2>1. seen \in T!Ticket \cup {None}
    <3>1. T!RecordKey(b, t.uid) \in T!TicketKeys BY <1>0, <1>5, KeysDiffer DEF T!TypeOK
    <3> QED BY <1>0, <3>1 DEF T!TypeOK, T!Live
  <2> HIDE DEF seen
  <2>2. puts \in T!Import BY <1>1, <2>1 DEF T!Import
  <2>3. /\ puts.pc = "put" /\ puts.cursor = me.cursor /\ puts.todo = me.todo
        /\ puts.outcome = me.outcome /\ puts.touched = me.touched
    BY <1>1 DEF T!Import
  <2>4. sync' = [sync EXCEPT ![b] = puts] BY <1>2, <1>7
  <2>5. T!Sound(puts, paging, T!Listing(b), T!Says(b), T!Mirror(b))
    <3> HIDE DEF me, puts
    <3>1. T!Owed(puts, paging) = T!Owed(me, paging) BY <2>3 DEF T!Owed
    <3>2. T!Fetched(puts, T!Listing(b)) = T!Fetched(me, T!Listing(b)) BY <1>2, <2>3 DEF T!Fetched
    <3> QED BY <1>2, <1>3, <2>3, <3>1, <3>2 DEF T!Sound
  <2> HIDE DEF puts
  <2> QED BY <1>2, <2>2, <2>4, <2>5, OwnStep
<1> QED BY <1>6, <1>7

LEMMA PutStep ==
    ASSUME T!TicketsAssumption, T!MirrorInv, NEW b \in Boards, T!Put(b) PROVE T!MirrorInv'
<1> DEFINE me == sync[b]
           now == [me EXCEPT !.pc = "get", !.todo = Tail(@)]
           paging == conn[b].paging
<1>0. T!TypeOK BY DEF T!MirrorInv
<1>1. me \in T!Import BY <1>0 DEF T!TypeOK
<1>2. me.pc = "put" /\ UNCHANGED <<conn, remote, order>> BY DEF T!Put
<1>3. T!Sound(me, paging, T!Listing(b), T!Says(b), T!Mirror(b))
  BY DEF T!MirrorInv, T!ImportSound
<1>4. me.todo \in Seq([uid : T!Uids, body : T!States]) /\ me.todo # <<>>
  BY <1>1, <1>2, <1>3 DEF T!Import, T!Sound
<1>5. PICK t \in [uid : T!Uids, body : T!States] :
          t = Head(me.todo) /\ t = me.todo[1] /\ 1 \in 1 .. Len(me.todo)
  BY <1>4, FirstTicket
<1>6. conn \in Configs BY <1>0 DEF T!TypeOK
<1>7. PICK key \in T!TicketKeys : key = T!RecordKey(b, t.uid) BY <1>5, <1>6, KeysDiffer
<1>8. CASE /\ store' = [store EXCEPT ![key] = T!Committed(key, t.body)]
           /\ sync' = [sync EXCEPT ![b].pc = "get", ![b].todo = Tail(@)]
  <2>1. sync' = [sync EXCEPT ![b] = now] BY <1>0, <1>1, <1>8 DEF T!TypeOK
  <2>2. now \in T!Import
    <3>1. Tail(me.todo) \in Seq([uid : T!Uids, body : T!States]) BY <1>4
    <3> QED BY <1>1, <3>1 DEF T!Import
  <2>3. /\ now.pc = "get" /\ now.cursor = me.cursor /\ now.todo = Tail(me.todo)
        /\ now.outcome = me.outcome /\ now.touched = me.touched
    BY <1>1 DEF T!Import
  <2>4. /\ sync' \in [Boards -> T!Import] /\ sync'[b] = now
        /\ \A d \in Boards \ {b} : sync'[d] = sync[d]
    <3> HIDE DEF now
    <3> QED BY <1>0, <2>1, <2>2 DEF T!TypeOK
  <2>5. T!Committed(key, t.body) \in T!Ticket
    <3>1. store[key] \in T!Ticket \cup {None} /\ t.body \in T!States BY <1>0, <1>5, <1>7 DEF T!TypeOK
    <3> QED BY <3>1 DEF T!Committed, T!Ticket
  <2>6. /\ store' \in [T!TicketKeys -> T!Ticket \cup {None}]
        /\ store'[key] = T!Committed(key, t.body)
        /\ \A k \in T!TicketKeys \ {key} : store'[k] = store[k]
    <3> QED BY <1>0, <1>7, <1>8, <2>5 DEF T!TypeOK
  <2>7. T!TypeOK'
    <3>1. T!TicketKeys' = T!TicketKeys BY <1>2 DEF T!TicketKeys, T!RecordKey
    <3> QED BY <1>0, <1>2, <2>4, <2>6, <3>1 DEF T!TypeOK
  <2>8. ASSUME NEW d \in Boards, NEW v \in T!Uids, d # b \/ v # t.uid
        PROVE  store'[T!RecordKey(d, v)] = store[T!RecordKey(d, v)]
    <3>1. T!RecordKey(d, v) \in T!TicketKeys /\ T!RecordKey(d, v) # key
      BY <1>5, <1>6, <1>7, <2>8, KeysDiffer
    <3> QED BY <2>6, <3>1
  <2>9. ASSUME NEW d \in Boards \ {b} PROVE T!ImportSound(d)'
    <3>1. /\ conn' = conn /\ sync'[d] = sync[d] /\ order'[d] = order[d] /\ remote'[d] = remote[d]
          /\ \A v \in T!Uids : store'[T!RecordKey(d, v)] = store[T!RecordKey(d, v)]
      BY <1>2, <2>4, <2>8
    <3> QED BY <3>1, OtherSound
  <2>10. T!ImportSound(b)'
    <3> DEFINE mirror == T!Mirror(b)'
    <3>1. T!Listing(b)' = T!Listing(b) /\ T!Says(b)' = T!Says(b)
      BY <1>2 DEF T!Listing, T!Says
    <3>2. \A u \in T!Mirror(b) : u # t.uid => u \in mirror
      <4>1. T!Mirror(b) \subseteq T!Uids BY DEF T!Mirror
      <4> QED BY <1>2, <2>8, <4>1, MirrorStays
    <3>3. t.uid \in T!Owed(me, paging) => t.uid \in mirror
      <4>1. t.uid \in T!Owed(me, paging) => t.body = T!Says(b)[t.uid] BY <1>3, <1>5 DEF T!Sound
      <4>2. T!Live(key)' = store'[key] /\ store'[key].body = t.body /\ store'[key] # None
        <5>1. store'[key].live /\ store'[key].body = t.body BY <2>6 DEF T!Committed
        <5>2. store'[key] # None BY <2>5, <2>6 DEF T!TicketsAssumption
        <5> QED BY <5>1, <5>2 DEF T!Live
      <4>3. T!RecordKey(b, t.uid)' = key BY <1>2, <1>7 DEF T!RecordKey
      <4> QED BY <1>5, <3>1, <4>1, <4>2, <4>3 DEF T!Mirror
    <3>4. T!ImportSound(b)' <=> T!Sound(now, paging, T!Listing(b), T!Says(b), mirror)
      BY <1>2, <2>4, <3>1 DEF T!ImportSound
    <3> HIDE DEF me, now, paging, mirror
    <3>5. T!Sound(now, paging, T!Listing(b), T!Says(b), mirror)
      BY <1>1, <1>2, <1>3, <1>4, <1>5, <2>3, <3>2, <3>3, UpsertSound
    <3> QED BY <3>4, <3>5
  <2> QED BY <2>7, <2>9, <2>10 DEF T!MirrorInv
<1>9. CASE UNCHANGED store /\ sync' = [sync EXCEPT ![b] = [T!Idle EXCEPT !.outcome = "conflict"]]
  <2> DEFINE idle == [T!Idle EXCEPT !.outcome = "conflict"]
  <2>1. idle \in T!Import
    <3>1. T!Idle \in T!Import BY DEF T!Idle, T!Import
    <3> QED BY <3>1 DEF T!Import
  <2>2. /\ idle.pc = "idle" /\ idle.cursor = None /\ idle.todo = <<>> /\ idle.outcome = "conflict"
    BY DEF T!Idle
  <2> HIDE DEF idle
  <2>3. T!Sound(idle, paging, T!Listing(b), T!Says(b), T!Mirror(b)) BY <2>2, IdleSound
  <2>4. sync' = [sync EXCEPT ![b] = idle] /\ UNCHANGED <<conn, remote, order, store>>
    BY <1>2, <1>9 DEF idle
  <2> QED BY <2>1, <2>3, <2>4, OwnStep
<1> QED BY <1>5, <1>7, <1>8, <1>9 DEF T!Put

\* An item that somebody touched, on one board: its import is told.
LEMMA TouchStep ==
    ASSUME T!TypeOK, NEW b \in Boards, NEW u \in T!Uids, sync' = T!Touch({b}, u)
    PROVE  /\ sync' \in [Boards -> T!Import]
           /\ sync'[b] = [sync[b] EXCEPT !.touched = @ \cup {u}, !.outcome = None]
           /\ \A d \in Boards \ {b} : sync'[d] = sync[d]
<1> DEFINE now == [sync[b] EXCEPT !.touched = @ \cup {u}, !.outcome = None]
<1>1. sync[b] \in T!Import BY DEF T!TypeOK
<1>2. now \in T!Import BY <1>1 DEF T!Import
<1>3. sync' = [d \in Boards |-> IF d \in {b} THEN [sync[d] EXCEPT !.touched = @ \cup {u}, !.outcome = None]
                                ELSE sync[d]]
  BY DEF T!Touch
<1>4. sync'[b] = now BY <1>3
<1>5. \A d \in Boards \ {b} : sync'[d] = sync[d] BY <1>3
<1>6. \A d \in Boards : sync'[d] \in T!Import
  <2>1. \A d \in Boards : sync[d] \in T!Import BY DEF T!TypeOK
  <2> QED BY <1>2, <1>4, <1>5, <2>1
<1>7. DOMAIN sync' = Boards BY <1>3
<1>8. sync' = [d \in Boards |-> sync'[d]] BY <1>3
<1>9. sync' \in [Boards -> T!Import] BY <1>6, <1>8
<1> QED BY <1>4, <1>5, <1>9

\* An item changes at the provider.
LEMMA RemoteStep ==
    ASSUME T!TicketsAssumption, T!MirrorInv, NEW b \in Boards, NEW u \in T!Uids, NEW item,
           remote' = [remote EXCEPT ![b][u] = item],
           order' = [order EXCEPT ![b] = T!MovedLast(b, u)], sync' = T!Touch({b}, u),
           UNCHANGED <<conn, store>>
    PROVE  T!MirrorInv'
<1>0. T!TypeOK BY DEF T!MirrorInv
<1>1. /\ sync' \in [Boards -> T!Import]
      /\ sync'[b] = [sync[b] EXCEPT !.touched = @ \cup {u}, !.outcome = None]
      /\ \A d \in Boards \ {b} : sync'[d] = sync[d]
  BY <1>0, TouchStep
<1>2. /\ DOMAIN remote' = Boards /\ \A d \in Boards : DOMAIN remote'[d] = T!Uids
      /\ \A d \in Boards \ {b} : remote'[d] = remote[d]
      /\ \A v \in T!Uids \ {u} : remote'[b][v] = remote[b][v]
  BY <1>0 DEF T!TypeOK
<1>3. /\ DOMAIN order' = Boards /\ \A d \in Boards : T!Lists(order'[d])
      /\ \A d \in Boards \ {b} : order'[d] = order[d]
  <2>1. T!Lists(order[b]) /\ DOMAIN order = Boards /\ \A d \in Boards : T!Lists(order[d])
    BY <1>0 DEF T!TypeOK
  <2>2. T!Lists(T!MovedLast(b, u)) BY <2>1, MovedLastLists
  <2>3. DOMAIN order' = Boards /\ order'[b] = T!MovedLast(b, u) /\ \A d \in Boards \ {b} : order'[d] = order[d]
    BY <2>1
  <2> QED BY <2>1, <2>2, <2>3
<1>4. T!TypeOK'
  <2>1. T!TicketKeys' = T!TicketKeys BY DEF T!TicketKeys, T!RecordKey
  <2>2. \A d \in Boards : T!Lists(order[d])' BY <1>3 DEF T!Lists
  <2> QED BY <1>0, <1>1, <1>2, <1>3, <2>1, <2>2 DEF T!TypeOK
<1>5. \A d \in Boards, v \in T!Uids : store'[T!RecordKey(d, v)] = store[T!RecordKey(d, v)] OBVIOUS
<1>6. T!ImportSound(b)' BY <1>1, <1>2, <1>5, TouchedSound
<1>7. ASSUME NEW d \in Boards \ {b} PROVE T!ImportSound(d)'
  <2>1. sync'[d] = sync[d] /\ order'[d] = order[d] /\ remote'[d] = remote[d] BY <1>1, <1>2, <1>3
  <2> QED BY <1>5, <2>1, OtherSound
<1> QED BY <1>4, <1>6, <1>7 DEF T!MirrorInv

LEMMA EditRecordStep ==
    ASSUME T!TicketsAssumption, T!MirrorInv, NEW key \in T!TicketKeys, T!EditRecord(key)
    PROVE  T!MirrorInv'
<1>0. T!TypeOK /\ conn \in Configs BY DEF T!MirrorInv, T!TypeOK
<1>1. PICK b \in Boards, u \in T!Uids : key = T!RecordKey(b, u) BY DEF T!TicketKeys
<1>2. UNCHANGED <<conn, remote, order>> /\ T!Live(key) # None BY DEF T!EditRecord
<1>3. key[2] = u /\ {d \in Boards : \E v \in T!Uids : T!RecordKey(d, v) = key} = {b}
  <2>1. key[2] = u BY <1>1 DEF T!RecordKey
  <2>2. \A d \in Boards, v \in T!Uids : T!RecordKey(d, v) = key => d = b
    BY <1>0, <1>1, KeysDiffer
  <2> QED BY <1>1, <2>1, <2>2
<1>4. sync' = T!Touch({b}, u) BY <1>3 DEF T!EditRecord
<1>5. /\ sync' \in [Boards -> T!Import]
      /\ sync'[b] = [sync[b] EXCEPT !.touched = @ \cup {u}, !.outcome = None]
      /\ \A d \in Boards \ {b} : sync'[d] = sync[d]
  BY <1>0, <1>4, TouchStep
<1>6. /\ store' \in [T!TicketKeys -> T!Ticket \cup {None}]
      /\ \A k \in T!TicketKeys \ {key} : store'[k] = store[k]
  <2>1. store \in [T!TicketKeys -> T!Ticket \cup {None}] BY <1>0 DEF T!TypeOK
  <2>2. store[key] \in T!Ticket BY <1>2, <2>1 DEF T!Live
  <2>3. PICK live \in BOOLEAN :
           store' = [store EXCEPT ![key].rev = @ + 1, ![key].live = live,
                                  ![key].body = IF live THEN "Edited" ELSE @]
    BY DEF T!EditRecord
  <2> DEFINE edited == [store[key] EXCEPT !.rev = @ + 1, !.live = live,
                                          !.body = IF live THEN "Edited" ELSE @]
  <2>4. edited \in T!Ticket
    <3>1. "Edited" \in T!States BY DEF T!States
    <3>2. store[key].rev + 1 \in Nat /\ (IF live THEN "Edited" ELSE store[key].body) \in T!States
      BY <2>2, <3>1 DEF T!Ticket
    <3> QED BY <2>2, <3>2 DEF T!Ticket
  <2>5. store' = [store EXCEPT ![key] = edited] BY <2>1, <2>2, <2>3
  <2> HIDE DEF edited
  <2> QED BY <2>1, <2>4, <2>5
<1>7. T!TypeOK'
  <2>1. T!TicketKeys' = T!TicketKeys BY <1>2 DEF T!TicketKeys, T!RecordKey
  <2> QED BY <1>0, <1>2, <1>5, <1>6, <2>1 DEF T!TypeOK
<1>8. ASSUME NEW d \in Boards, NEW v \in T!Uids, d # b \/ v # u
      PROVE  store'[T!RecordKey(d, v)] = store[T!RecordKey(d, v)]
  <2>1. T!RecordKey(d, v) \in T!TicketKeys /\ T!RecordKey(d, v) # key
    BY <1>0, <1>1, <1>8, KeysDiffer
  <2> QED BY <1>6, <2>1
<1>9. T!ImportSound(b)'
  <2>1. /\ conn' = conn
        /\ \A v \in T!Uids \ {u} : /\ remote'[b][v] = remote[b][v]
                                   /\ store'[T!RecordKey(b, v)] = store[T!RecordKey(b, v)]
    BY <1>2, <1>8
  <2> QED BY <1>5, <2>1, TouchedSound
<1>10. ASSUME NEW d \in Boards \ {b} PROVE T!ImportSound(d)'
  <2>1. /\ conn' = conn /\ sync'[d] = sync[d] /\ order'[d] = order[d] /\ remote'[d] = remote[d]
        /\ \A v \in T!Uids : store'[T!RecordKey(d, v)] = store[T!RecordKey(d, v)]
    BY <1>2, <1>5, <1>8
  <2> QED BY <2>1, OtherSound
<1> QED BY <1>7, <1>9, <1>10 DEF T!MirrorInv

LEMMA MirrorStep ==
    ASSUME T!TicketsAssumption, T!MirrorInv, [T!Next]_ticketVars PROVE T!MirrorInv'
<1>1. CASE UNCHANGED ticketVars
  <2>1. UNCHANGED <<conn, remote, order, store, sync>> BY <1>1 DEF ticketVars
  <2>2. T!TypeOK'
    <3>1. T!TicketKeys' = T!TicketKeys BY <2>1 DEF T!TicketKeys, T!RecordKey
    <3>2. T!TypeOK BY DEF T!MirrorInv
    <3> QED BY <2>1, <3>1, <3>2 DEF T!TypeOK
  <2>3. ASSUME NEW d \in Boards PROVE T!ImportSound(d)' BY <2>1, OtherSound
  <2> QED BY <2>2, <2>3 DEF T!MirrorInv
<1>2. ASSUME NEW b \in Boards, T!StartSync(b) PROVE T!MirrorInv' BY <1>2, StartSyncStep
<1>3. ASSUME NEW b \in Boards, T!Fetch(b) PROVE T!MirrorInv' BY <1>3, FetchStep
<1>4. ASSUME NEW b \in Boards, T!NextPage(b) PROVE T!MirrorInv' BY <1>4, NextPageStep
<1>5. ASSUME NEW b \in Boards, T!Get(b) PROVE T!MirrorInv' BY <1>5, GetStep
<1>6. ASSUME NEW b \in Boards, T!Put(b) PROVE T!MirrorInv' BY <1>6, PutStep
<1>7. ASSUME NEW b \in Boards, NEW u \in T!Uids, T!EditRemote(b, u) PROVE T!MirrorInv'
  BY <1>7, RemoteStep DEF T!EditRemote
<1>8. ASSUME NEW b \in Boards, NEW u \in T!Uids, NEW t \in Categories, T!WriteBack(b, u, t)
      PROVE  T!MirrorInv'
  BY <1>8, RemoteStep DEF T!WriteBack
<1>9. ASSUME NEW key \in T!TicketKeys, T!EditRecord(key) PROVE T!MirrorInv'
  BY <1>9, EditRecordStep
<1> QED BY <1>1, <1>2, <1>3, <1>4, <1>5, <1>6, <1>7, <1>8, <1>9 DEF T!Next

\* For any connections, items and page size: an import that ends well has mirrored every item
\* nobody else touched while it ran, whatever the imports of other connections did, and where
\* pages are numbers, if nothing at all was touched (ingest and upsert).
THEOREM QuietImportsMirror ==
    ASSUME T!TicketsAssumption PROVE T!Spec => []QuietSyncMirrors
<1>1. T!Init => T!MirrorInv BY MirrorInit
<1>2. T!MirrorInv /\ [T!Next]_T!vars => T!MirrorInv' BY MirrorStep DEF T!vars, ticketVars
<1>3. T!MirrorInv => QuietSyncMirrors BY MirrorHolds
<1> QED BY <1>1, <1>2, <1>3, PTL DEF T!Spec
=============================================================================
