----------------------------- MODULE VectorIndex -----------------------------
(***************************************************************************)
(* The durable vector index (gonzalo-vector: record_index.rs, shard.rs).    *)
(* Vectors live in content-addressed shard blobs that one manifest record   *)
(* names; a handle serves queries from memory and commits under optimistic  *)
(* concurrency against the manifest it last saw, reloading the shards a     *)
(* winner changed.  Handles of several processes commit at the same time,   *)
(* calls are cut off, the index is deleted and purged, and garbage          *)
(* collection sweeps old blobs no manifest names.                           *)
(*                                                                         *)
(* A shard's bytes are its entries, so a blob is a set of <<item, vector>>  *)
(* pairs.  A revision is its counter and the manifest it hashes.            *)
(***************************************************************************)
EXTENDS Integers, FiniteSets

CONSTANTS None,
          Items, Vectors,       \* the keys and the vectors of the index
          ShardOf(_, _),        \* shard_of: item, shard count -> shard id
          Handles,
          Declarations,         \* the [space, shards] a caller may open an index with
          PurgeWhileOpen,       \* whether an index is purged while handles have it open
          MaxAttempts,          \* MAX_COMMIT_ATTEMPTS
          MaxCommits,           \* bound: calls of commit
          MaxFaults             \* bound: calls cut off, deletions and sweeps

VARIABLES declared,   \* handle -> what its caller declares
          manifest,   \* the manifest record: None, live, or a tombstone
          blobs,      \* the blobs stored
          old,        \* those past the sweep's age
          handle,     \* handle -> closed, or what it keeps in memory
          content,    \* history: what the commits made of the index, item -> vector
          unverified, \* history: blobs of commits cut off before they were checked
          skipped,    \* history: a reload left out a shard an earlier one had moved
          commits, faults

vars == <<declared, manifest, blobs, old, handle, content, unverified, skipped, commits, faults>>

Nothing == [i \in Items |-> None]
Empty == [x \in {} |-> None]
Closed == [pc |-> "closed"]

Init == /\ declared \in [Handles -> Declarations]
        /\ manifest = None
        /\ blobs = {} /\ old = {}
        /\ handle = [h \in Handles |-> Closed]
        /\ content = Nothing
        /\ unverified = {}
        /\ skipped = FALSE
        /\ commits = 0 /\ faults = 0

\* A shard's blob, and a manifest record.
Blob == SUBSET (Items \X Vectors)
ShardIds(n) == 0..(n - 1)
Ids == UNION {ShardIds(d.shards) : d \in Declarations}
Manifest == [live : BOOLEAN, counter : Nat, space : {d.space : d \in Declarations},
             shards : {d.shards : d \in Declarations},
             entries : UNION {[ids -> Blob] : ids \in SUBSET Ids}]

\* An item's shard is one of the shards (shard_of is a remainder), and no vector, blob or
\* manifest is the absence of one.
ASSUME VectorAssumption ==
    /\ \A d \in Declarations : /\ d.shards \in Nat \ {0}
                                /\ \A i \in Items : ShardOf(i, d.shards) \in ShardIds(d.shards)
    /\ None \notin Vectors /\ (\A blob \in Blob : blob # None) /\ None \notin Manifest

Live(rec) == rec # None /\ rec.live
Body(rec) == [space |-> rec.space, shards |-> rec.shards, entries |-> rec.entries]
Revision(rec) == <<rec.counter, Body(rec)>>

\* encode_shard of what memory holds for a shard, after deltas (None removes).
StageShard(mem, deltas, id, n) ==
    LET staged == [i \in Items |-> IF i \in DOMAIN deltas THEN deltas[i] ELSE mem[i]]
    IN  {<<i, staged[i]>> : i \in {j \in Items : ShardOf(j, n) = id /\ staged[j] # None}}

\* decode_shard: the vector a shard's blob holds for an item.
Decoded(blob, i) == IF \E v \in Vectors : <<i, v>> \in blob
                    THEN CHOOSE v \in Vectors : <<i, v>> \in blob ELSE None

\* clear_shard and apply_shard_bytes: memory with one shard replaced by a blob's
\* entries.  An id the manifest does not name is an empty shard.
Hydrated(mem, id, n, blob) ==
    [i \in Items |-> IF ShardOf(i, n) # id THEN mem[i] ELSE Decoded(blob, i)]

NamedBy(rec, id) == IF id \in DOMAIN rec.entries THEN rec.entries[id] ELSE {}
EntryOf(rec, id) == IF rec # None /\ id \in DOMAIN rec.entries THEN rec.entries[id] ELSE None

\* put of a manifest: plan_put for the create and update a handle sends.
PutOutcome(expected) ==
    CASE expected = None /\ manifest = None -> "Committed"
      [] expected = None /\ manifest # None -> IF Live(manifest) THEN "Conflict" ELSE "Rejected"
      [] expected # None /\ ~Live(manifest) -> "NotFound"
      [] expected # None /\ Live(manifest)  ->
            IF Revision(manifest) = Revision(expected) THEN "Committed" ELSE "Conflict"

(***************************************************************************)
(* open                                                                    *)
(***************************************************************************)

\* check_space_and_dim, of the space the handle was opened for.
SameSpace(h) == manifest.space = declared[h].space

\* get_raw of the manifest: a deleted index with a restore window is refused, and
\* so is one of another space; a missing one starts empty.
Open(h) ==
    /\ handle[h] = Closed
    /\ manifest # None => Live(manifest) /\ SameSpace(h)
    /\ handle' = [handle EXCEPT ![h] =
          [pc      |-> IF manifest = None THEN "idle" ELSE "hydrate",
           shards  |-> IF manifest = None THEN declared[h].shards ELSE manifest.shards,
           mem     |-> Nothing, seen |-> manifest,
           deltas  |-> Empty, attempt |-> 0, staged |-> Empty, winner |-> None, loose |-> {}]]
    /\ UNCHANGED <<declared, manifest, blobs, old, content, unverified, skipped, commits, faults>>

\* Every shard blob is read; one that is gone fails the open.
Hydrate(h) ==
    LET me == handle[h]
        ids == DOMAIN me.seen.entries
    IN  /\ me.pc = "hydrate"
        /\ handle' = [handle EXCEPT ![h] =
              IF \E id \in ids : me.seen.entries[id] \notin blobs THEN Closed
              ELSE [me EXCEPT !.pc = "idle",
                              !.mem = [i \in Items |->
                                 Hydrated(Nothing, ShardOf(i, me.shards), me.shards,
                                          NamedBy(me.seen, ShardOf(i, me.shards)))[i]]]]
        /\ UNCHANGED <<declared, manifest, blobs, old, content, unverified, skipped, commits, faults>>

(***************************************************************************)
(* commit                                                                  *)
(***************************************************************************)

\* upsert, remove or upsert_many: commit of a batch, under the handle's commit lock.
Begin(h, deltas) ==
    /\ handle[h].pc = "idle"
    /\ commits < MaxCommits
    /\ commits' = commits + 1
    /\ handle' = [handle EXCEPT ![h].pc = "stage", ![h].deltas = deltas, ![h].attempt = 1]
    /\ UNCHANGED <<declared, manifest, blobs, old, content, unverified, skipped, faults>>

Dirty(me) == {ShardOf(i, me.shards) : i \in DOMAIN me.deltas}

\* put_blob of every dirty shard, staged on a copy of memory.
Stage(h) ==
    LET me     == handle[h]
        staged == [id \in Dirty(me) |-> StageShard(me.mem, me.deltas, id, me.shards)]
    IN  /\ me.pc = "stage"
        /\ blobs' = blobs \cup {staged[id] : id \in Dirty(me)}
        /\ handle' = [handle EXCEPT ![h].pc = "put", ![h].staged = staged]
        /\ UNCHANGED <<declared, manifest, old, content, unverified, skipped, commits, faults>>

\* The manifest the handle sends: what it last saw, with its shards in.
Proposed(h) ==
    LET me   == handle[h]
        base == IF me.seen = None THEN Empty ELSE me.seen.entries
        ids  == (DOMAIN base) \cup (DOMAIN me.staged)
    IN  [live    |-> TRUE,
         counter |-> IF me.seen = None THEN 0 ELSE me.seen.counter + 1,
         space   |-> IF me.seen = None THEN declared[h].space ELSE me.seen.space,
         shards  |-> IF me.seen = None THEN me.shards ELSE me.seen.shards,
         entries |-> [id \in ids |-> IF id \in DOMAIN me.staged THEN me.staged[id] ELSE base[id]]]

Applied(map, deltas) == [i \in Items |-> IF i \in DOMAIN deltas THEN deltas[i] ELSE map[i]]
Failed(me) == [me EXCEPT !.pc = "idle", !.deltas = Empty, !.staged = Empty, !.winner = None]

\* The manifest lands, and the deltas are in the index from here on.
Land(h) ==
    /\ PutOutcome(handle[h].seen) = "Committed"
    /\ manifest' = Proposed(h)
    /\ content' = Applied(IF manifest = None THEN Nothing ELSE content, handle[h].deltas)

\* Committed: the deltas enter memory, and the record written is the one last seen.
Commit(h) ==
    /\ handle[h].pc = "put"
    /\ Land(h)
    /\ handle' = [handle EXCEPT ![h].pc = "verify", ![h].seen = Proposed(h),
                                ![h].mem = Applied(@, handle[h].deltas)]
    /\ UNCHANGED <<declared, blobs, old, unverified, skipped, commits, faults>>

\* The put landed and the call failed, or was cut off, before it knew.
CommitUnheard(h) ==
    /\ handle[h].pc = "put"
    /\ faults < MaxFaults
    /\ faults' = faults + 1
    /\ Land(h)
    /\ unverified' = unverified \cup {handle[h].staged[id] : id \in DOMAIN handle[h].staged}
    /\ handle' = [handle EXCEPT ![h] = Failed(@)]
    /\ UNCHANGED <<declared, blobs, old, skipped, commits>>

\* Mutant: a winner of another space or shard count is reloaded like any other.
RefusedUnchecked(h) ==
    LET me      == handle[h]
        outcome == PutOutcome(me.seen)
    IN  /\ me.pc = "put"
        /\ outcome # "Committed"
        /\ handle' = [handle EXCEPT ![h] =
              IF outcome = "Conflict" /\ me.attempt < MaxAttempts
              THEN [me EXCEPT !.pc = "reload", !.winner = manifest]
              ELSE Failed(me)]
        /\ UNCHANGED <<declared, manifest, blobs, old, content, unverified, skipped, commits, faults>>

\* A refusal, a lost last attempt, or a winner that vanished or disagrees about the
\* space or the shard count end the call; any other conflict goes on to reload it.
Refused(h) ==
    LET me      == handle[h]
        outcome == PutOutcome(me.seen)
    IN  /\ me.pc = "put"
        /\ outcome # "Committed"
        /\ handle' = [handle EXCEPT ![h] =
              IF /\ outcome = "Conflict"
                 /\ me.attempt < MaxAttempts
                 /\ SameSpace(h)
                 /\ manifest.shards = me.shards
              THEN [me EXCEPT !.pc = "reload", !.winner = manifest]
              ELSE Failed(me)]
        /\ UNCHANGED <<declared, manifest, blobs, old, content, unverified, skipped, commits, faults>>

\* Mutant: the retry builds on the winner's manifest and on memory as it is.
NoShards(me) == {}

\* Every shard the winner changed relative to what the handle knew, and its own.
ToHydrate(me) ==
    Dirty(me) \cup {id \in ShardIds(me.shards) : EntryOf(me.seen, id) # EntryOf(me.winner, id)}

\* The shards to reload whose blob is gone, and memory with some of them reloaded.
Gone(me) == {id \in ToHydrate(me) : id \in DOMAIN me.winner.entries /\ me.winner.entries[id] \notin blobs}
Reloaded(me, ids) ==
    [i \in Items |->
        LET id == ShardOf(i, me.shards) IN
        IF id \in ids THEN Hydrated(me.mem, id, me.shards, NamedBy(me.winner, id))[i] ELSE me.mem[i]]

\* hydrate_shard, one after the other in the order of the ids; a blob that is gone, or
\* a read that fails or is cut off, ends the call with the shards before it reloaded and
\* the manifest last seen still the old one.  `loose' and `skipped' are history: the
\* shards that such calls moved away from the manifest last seen, and whether a reload
\* that went through ever left one of them where it was.
Reload(h) ==
    LET me == handle[h] IN
    /\ me.pc = "reload"
    /\ \/ /\ Gone(me) = {}
          /\ handle' = [handle EXCEPT ![h] =
                [me EXCEPT !.pc = "stage", !.mem = Reloaded(me, ToHydrate(me)), !.seen = me.winner,
                           !.attempt = me.attempt + 1, !.winner = None,
                           !.loose = me.loose \ ToHydrate(me)]]
          /\ skipped' = (skipped \/ ~(me.loose \subseteq ToHydrate(me)))
          /\ UNCHANGED faults
       \/ /\ faults < MaxFaults \/ Gone(me) # {}
          /\ faults' = IF Gone(me) = {} THEN faults + 1 ELSE faults
          /\ \E ids \in SUBSET (ToHydrate(me) \ Gone(me)) :
                /\ ids # ToHydrate(me)
                /\ \A id \in ids, other \in ToHydrate(me) : other < id => other \in ids
                /\ handle' = [handle EXCEPT ![h] =
                      [Failed(me) EXCEPT !.mem = Reloaded(me, ids), !.loose = me.loose \cup ids]]
          /\ UNCHANGED skipped
    /\ UNCHANGED <<declared, manifest, blobs, old, content, unverified, commits>>

\* verify_shard_blobs: a shard swept before the manifest named it is uploaded again
\* from memory.
Verify(h) ==
    LET me == handle[h] IN
    /\ me.pc = "verify"
    /\ blobs' = blobs \cup {StageShard(me.mem, Empty, id, me.shards) : id \in DOMAIN me.staged}
    /\ old' = old \cap blobs
    /\ handle' = [handle EXCEPT ![h] = Failed(@)]
    /\ UNCHANGED <<declared, manifest, content, unverified, skipped, commits, faults>>

(***************************************************************************)
(* Calls cut off, restarts, deletion and garbage collection                 *)
(***************************************************************************)

\* A call is dropped before its manifest lands, or between that and the check.
Cancel(h) ==
    /\ handle[h].pc \in {"stage", "put", "verify"}
    /\ faults < MaxFaults
    /\ faults' = faults + 1
    /\ unverified' = IF handle[h].pc = "verify"
                     THEN unverified \cup {handle[h].staged[id] : id \in DOMAIN handle[h].staged}
                     ELSE unverified
    /\ handle' = [handle EXCEPT ![h] = Failed(@)]
    /\ UNCHANGED <<declared, manifest, blobs, old, content, skipped, commits>>

Close(h) ==
    /\ handle[h].pc = "idle"
    /\ handle' = [handle EXCEPT ![h] = Closed]
    /\ UNCHANGED <<declared, manifest, blobs, old, content, unverified, skipped, commits, faults>>

\* gonzalo delete and gonzalo undelete: the tombstone retains the manifest.
DeleteIndex ==
    /\ Live(manifest)
    /\ faults < MaxFaults
    /\ faults' = faults + 1
    /\ manifest' = [manifest EXCEPT !.live = FALSE, !.counter = @ + 1]
    /\ UNCHANGED <<declared, blobs, old, handle, content, unverified, skipped, commits>>

Undelete ==
    /\ manifest # None /\ ~manifest.live
    /\ manifest' = [manifest EXCEPT !.live = TRUE, !.counter = @ + 1]
    /\ UNCHANGED <<declared, blobs, old, handle, content, unverified, skipped, commits, faults>>

\* gonzalo purge, the way to start over: callers of the old index have gone.
Purge ==
    /\ manifest # None /\ ~manifest.live
    /\ PurgeWhileOpen \/ \A h \in Handles : handle[h] = Closed
    /\ manifest' = None /\ skipped' = FALSE
    /\ UNCHANGED <<declared, blobs, old, handle, content, unverified, commits, faults>>

\* The sweep's age is longer than a commit: a blob uploaded by a call in flight is
\* not old yet.
Age == /\ \A h \in Handles : handle[h].pc \in {"closed", "idle"}
       /\ old' = blobs /\ old' # old
       /\ UNCHANGED <<declared, manifest, blobs, handle, content, unverified, skipped, commits, faults>>

\* A tombstone retains the manifest, and with it its blobs.
Sweep ==
    LET named == IF manifest = None THEN {}
                 ELSE {manifest.entries[id] : id \in DOMAIN manifest.entries}
    IN  /\ old \ named # {}
        /\ faults < MaxFaults
        /\ faults' = faults + 1
        /\ blobs' = blobs \ (old \ named)
        /\ old' = old \cap named
        /\ UNCHANGED <<declared, manifest, handle, content, unverified, skipped, commits>>

\* upsert and upsert_many write vectors, remove takes one item away.
Batches == (UNION {[items -> Vectors] : items \in (SUBSET Items) \ {{}}})
           \cup {[i \in {item} |-> None] : item \in Items}

Next ==
    \/ \E h \in Handles : \/ Open(h) \/ Hydrate(h) \/ Close(h)
                          \/ \E deltas \in Batches : Begin(h, deltas)
                          \/ Stage(h) \/ Commit(h) \/ CommitUnheard(h) \/ Refused(h)
                          \/ Reload(h) \/ Verify(h) \/ Cancel(h)
    \/ DeleteIndex \/ Undelete \/ Purge \/ Age \/ Sweep

Spec == Init /\ [][Next]_vars

(***************************************************************************)
(* Properties                                                              *)
(***************************************************************************)

\* What a manifest's shards hold.
Contents(rec) ==
    [i \in Items |-> LET id == ShardOf(i, rec.shards) IN
                     Hydrated(Nothing, id, rec.shards, NamedBy(rec, id))[i]]

\* No committed vector is lost: the stored index is what the commits made of it, in
\* the order they landed, however the handles raced, whatever they had in memory and
\* wherever their calls were cut off (commit's conflict arm; "the next staged write
\* from that shard would then silently drop the winner's vectors").
StoredIsCommitted == manifest # None => Contents(manifest) = content

\* "Memory only ever reflects a committed manifest": a handle at rest that has seen
\* the current manifest serves exactly what it holds.
MemoryIsManifest ==
    \A h \in Handles : handle[h].pc = "idle" /\ Live(manifest) =>
        (handle[h].seen # None /\ Revision(handle[h].seen) = Revision(manifest)
         => handle[h].mem = Contents(manifest))

\* The index can be opened: every shard the manifest names is stored, or the commit
\* that named it is about to check it, or was cut off before it could (ADR 0028).
ShardsStored ==
    manifest # None =>
        \A id \in DOMAIN manifest.entries :
            \/ manifest.entries[id] \in blobs \cup unverified
            \/ \E h \in Handles : handle[h].pc = "verify" /\ id \in DOMAIN handle[h].staged

\* The index is whole: its manifest names shards that are stored, and they hold exactly
\* the vectors the commits made of it.  The one exception is an index in which a reload
\* left out a shard that an earlier reload, cut short, had moved: nothing else in
\* commit, however its steps race or fail, loses a vector.
IndexIsWhole == ShardsStored /\ (~skipped => StoredIsCommitted)

\* What a handle serves is what it has seen, with the same exception.
MemoryIsCurrent == ~skipped => MemoryIsManifest
=============================================================================
