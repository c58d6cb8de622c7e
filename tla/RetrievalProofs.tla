--------------------------- MODULE RetrievalProofs ---------------------------
(***************************************************************************)
(* Proofs about the durable vector index: for any items, shards, number of   *)
(* handles, races, cut-off calls, deletions and sweeps, the manifest holds    *)
(* exactly the vectors that were committed and names shards that are stored,  *)
(* and a handle at rest serves what it has seen, until a reload leaves out a  *)
(* shard that an earlier one, cut short, had moved.                          *)
(*                                                                         *)
(* The last part is about the knowledge store over such an index: no chunk   *)
(* of a record is ever out of reach of the calls that have to remove it.      *)
(***************************************************************************)
EXTENDS Retrieval, TLAPS, WellFoundedInduction

(***************************************************************************)
(* The inductive invariant                                                 *)
(***************************************************************************)

Value == Vectors \cup {None}
Memory == [Items -> Value]
Spaces == {d.space : d \in Declarations}
Counts == {d.shards : d \in Declarations}
Partial(S, T) == UNION {[D -> T] : D \in SUBSET S}

OpenHandle == [pc : {"idle", "hydrate", "stage", "put", "verify", "reload"}, shards : Counts,
               mem : Memory, seen : Manifest \cup {None}, deltas : Partial(Items, Value),
               attempt : Nat, staged : Partial(Ids, Blob), winner : Manifest \cup {None},
               loose : SUBSET Ids]

TypeOK ==
    /\ declared \in [Handles -> Declarations]
    /\ manifest \in Manifest \cup {None}
    /\ blobs \in SUBSET Blob /\ unverified \in SUBSET Blob
    /\ handle \in [Handles -> {Closed} \cup OpenHandle]
    /\ content \in Memory
    /\ skipped \in BOOLEAN

\* A manifest a handle holds is one the index had: it is the current one, or an earlier
\* one with a smaller counter.
Past(rec, current) == /\ current # None
                      /\ rec.counter =< current.counter
                      /\ rec.counter = current.counter => rec = current

\* What memory has to hold once a manifest is hydrated.
Served(rec, i) == IF rec = None THEN None ELSE Decoded(NamedBy(rec, ShardOf(i, rec.shards)), i)

SeenIsPast(me, current) == me.seen # None => Past(me.seen, current) /\ me.seen.shards = me.shards
WinnerIsNewer(me, current) == me.pc = "reload" =>
    /\ me.winner # None /\ Past(me.winner, current) /\ me.winner.shards = me.shards
    /\ me.seen # None => me.seen.counter < me.winner.counter
HydratesSeen(me) == me.pc = "hydrate" => me.seen # None

\* Off the loose shards, memory is what the manifest last seen holds.
MemoryIsSeen(me) == me.pc # "hydrate" =>
    \A i \in Items : ShardOf(i, me.shards) \notin me.loose => me.mem[i] = Served(me.seen, i)

\* What is staged for the put, and what a check uploads again.
StagedIsFaithful(me) ==
    /\ me.pc = "put" =>
          /\ DOMAIN me.staged = Dirty(me)
          /\ \A id \in Dirty(me) : me.staged[id] = StageShard(me.mem, me.deltas, id, me.shards)
    /\ me.pc = "verify" =>
          \A id \in DOMAIN me.staged : me.staged[id] = StageShard(me.mem, Empty, id, me.shards)

\* Only a handle that is behind has loose shards.
LooseIsStale(me, current, skip) == ~skip /\ me.seen = current => me.loose = {}

HandleOK(me, current, skip) ==
    /\ SeenIsPast(me, current) /\ WinnerIsNewer(me, current) /\ HydratesSeen(me)
    /\ MemoryIsSeen(me) /\ StagedIsFaithful(me) /\ LooseIsStale(me, current, skip)

HandlesOK == \A h \in Handles : handle[h] # Closed => HandleOK(handle[h], manifest, skipped)

\* ShardsStored, with the very blob the check will upload.
NamedAreStored ==
    manifest # None =>
        \A id \in DOMAIN manifest.entries :
            \/ manifest.entries[id] \in blobs \cup unverified
            \/ \E h \in Handles : /\ handle[h].pc = "verify" /\ id \in DOMAIN handle[h].staged
                                  /\ handle[h].staged[id] = manifest.entries[id]

HoldsCommitted == ~skipped /\ manifest # None => \A i \in Items : Served(manifest, i) = content[i]

IndInv == /\ TypeOK
          /\ HandlesOK /\ NamedAreStored /\ HoldsCommitted

(***************************************************************************)
(* The operators                                                           *)
(***************************************************************************)

\* A function on a part of S is a partial function, and has such a domain.
LEMMA PartialIntro ==
    ASSUME NEW S, NEW T, NEW D \in SUBSET S, NEW f \in [D -> T]
    PROVE  f \in Partial(S, T)
  BY DEF Partial

LEMMA PartialElim ==
    ASSUME NEW S, NEW T, NEW f \in Partial(S, T)
    PROVE  DOMAIN f \in SUBSET S /\ f \in [DOMAIN f -> T]
  BY DEF Partial

LEMMA EmptyIsPartial ==
    ASSUME NEW S, NEW T
    PROVE  Empty \in Partial(S, T) /\ DOMAIN Empty = {}
  <1>1. Empty \in [{} -> T] /\ DOMAIN Empty = {}
    BY DEF Empty
  <1>. QED
    BY <1>1, PartialIntro

\* What a manifest is made of.
LEMMA ManifestFields ==
    ASSUME NEW rec \in Manifest
    PROVE  /\ rec # None /\ rec.live \in BOOLEAN /\ rec.counter \in Nat
           /\ rec.space \in Spaces /\ rec.shards \in Counts
           /\ rec.entries \in Partial(Ids, Blob)
           /\ DOMAIN rec.entries \in SUBSET Ids
           /\ rec.entries \in [DOMAIN rec.entries -> Blob]
  <1>1. rec.entries \in Partial(Ids, Blob)
    BY DEF Manifest, Partial
  <1>2. DOMAIN rec.entries \in SUBSET Ids /\ rec.entries \in [DOMAIN rec.entries -> Blob]
    BY <1>1, PartialElim
  <1>. QED
    BY <1>1, <1>2, VectorAssumption DEF Manifest, Spaces, Counts

\* An item's shard is an id of the index.
LEMMA ShardIsId ==
    ASSUME NEW n \in Counts, NEW i \in Items
    PROVE  ShardOf(i, n) \in ShardIds(n) /\ ShardOf(i, n) \in Ids
  BY VectorAssumption DEF Counts, Ids

LEMMA DecodedValue ==
    ASSUME NEW blob, NEW i
    PROVE  Decoded(blob, i) \in Value
  BY DEF Decoded, Value

LEMMA ServedValue ==
    ASSUME NEW rec, NEW i
    PROVE  Served(rec, i) \in Value
  BY DecodedValue DEF Served, Value

\* Contents is what a manifest serves.
LEMMA ContentsAt ==
    ASSUME NEW rec, rec # None
    PROVE  Contents(rec) = [i \in Items |-> Served(rec, i)]
  BY DEF Contents, Hydrated, Served

\* Applying deltas stays in memory.
LEMMA AppliedIsMemory ==
    ASSUME NEW mem \in Memory, NEW deltas \in Partial(Items, Value)
    PROVE  Applied(mem, deltas) \in Memory
  <1>1. deltas \in [DOMAIN deltas -> Value]
    BY PartialElim
  <1>. QED
    BY <1>1 DEF Applied, Memory

\* A staged shard is a blob of the index.
LEMMA StageIsBlob ==
    ASSUME NEW mem \in Memory, NEW deltas \in Partial(Items, Value), NEW id, NEW n
    PROVE  StageShard(mem, deltas, id, n) \in Blob
  <1>1. Applied(mem, deltas) \in Memory
    BY AppliedIsMemory
  <1>2. StageShard(mem, deltas, id, n) =
           {<<i, Applied(mem, deltas)[i]>> :
              i \in {j \in Items : ShardOf(j, n) = id /\ Applied(mem, deltas)[j] # None}}
    BY DEF StageShard, Applied
  <1>3. \A i \in Items : Applied(mem, deltas)[i] # None => Applied(mem, deltas)[i] \in Vectors
    BY <1>1 DEF Memory, Value
  <1>. QED
    BY <1>2, <1>3 DEF Blob

\* decode_shard undoes encode_shard: a staged shard read back is memory with the deltas.
LEMMA DecodeOfStage ==
    ASSUME NEW mem \in Memory, NEW deltas \in Partial(Items, Value), NEW n, NEW i \in Items
    PROVE  Decoded(StageShard(mem, deltas, ShardOf(i, n), n), i) = Applied(mem, deltas)[i]
  <1> DEFINE to == Applied(mem, deltas)
             blob == StageShard(mem, deltas, ShardOf(i, n), n)
  <1>1. to \in Memory
    BY AppliedIsMemory
  <1>2. blob = {<<j, to[j]>> : j \in {k \in Items : ShardOf(k, n) = ShardOf(i, n) /\ to[k] # None}}
    BY DEF StageShard, Applied
  <1>. HIDE DEF to, blob
  <1>3. \A v : <<i, v>> \in blob <=> v = to[i] /\ to[i] # None
    BY <1>2
  <1>4. to[i] \in Value
    BY <1>1 DEF Memory
  <1>5. CASE to[i] = None
    <2>1. ~\E v \in Vectors : <<i, v>> \in blob
      BY <1>3, <1>5
    <2>. QED
      BY <2>1, <1>5 DEF Decoded, to, blob
  <1>6. CASE to[i] # None
    <2>1. to[i] \in Vectors
      BY <1>4, <1>6 DEF Value
    <2>2. \A v \in Vectors : <<i, v>> \in blob <=> v = to[i]
      BY <1>3, <1>6
    <2>3. Decoded(blob, i) = CHOOSE v \in Vectors : <<i, v>> \in blob
      BY <2>1, <2>2 DEF Decoded
    <2>4. Decoded(blob, i) = to[i]
      BY <2>1, <2>2, <2>3
    <2>. QED
      BY <2>4 DEF to, blob
  <1>. QED
    BY <1>5, <1>6

\* A check uploads what the commit staged: the deltas are in memory by then.
LEMMA StageAfterApply ==
    ASSUME NEW mem, NEW deltas, NEW id, NEW n
    PROVE  StageShard(Applied(mem, deltas), Empty, id, n) = StageShard(mem, deltas, id, n)
  <1> DEFINE to == Applied(mem, deltas)
  <1>1. StageShard(mem, deltas, id, n) = {<<i, to[i]>> : i \in {j \in Items : ShardOf(j, n) = id /\ to[j] # None}}
    BY DEF StageShard, Applied
  <1>2. [i \in Items |-> IF i \in DOMAIN Empty THEN Empty[i] ELSE to[i]] = to
    BY EmptyIsPartial DEF Applied
  <1>3. StageShard(to, Empty, id, n) = {<<i, to[i]>> : i \in {j \in Items : ShardOf(j, n) = id /\ to[j] # None}}
    BY <1>2 DEF StageShard
  <1>. QED
    BY <1>1, <1>3

(***************************************************************************)
(* The parts of a step                                                     *)
(***************************************************************************)

LEMMA OpenIsNotClosed ==
    ASSUME NEW me \in OpenHandle
    PROVE  me # Closed /\ me.pc # "closed"
  <1>1. me.pc # "closed"
    BY DEF OpenHandle
  <1>. QED
    BY <1>1 DEF Closed

\* Once skipped, nothing is asked of loose shards.
LEMMA SkippedWeakens ==
    ASSUME NEW me, NEW current, NEW skip, NEW skip2, HandleOK(me, current, skip),
           skip => skip2
    PROVE  HandleOK(me, current, skip2)
  BY DEF HandleOK, LooseIsStale

\* A handle is behind a manifest that has moved on.
LEMMA ManifestMoves ==
    ASSUME NEW me \in OpenHandle, NEW current \in Manifest \cup {None}, NEW skip,
           HandleOK(me, current, skip),
           NEW later \in Manifest, current # None => later.counter > current.counter
    PROVE  HandleOK(me, later, skip)
  <1>1. me.seen \in Manifest \cup {None} /\ me.winner \in Manifest \cup {None}
    BY DEF OpenHandle
  <1>2. ASSUME NEW rec \in Manifest, Past(rec, current)
        PROVE  rec.counter < later.counter /\ Past(rec, later) /\ rec # later
    <2>1. current \in Manifest
      BY <1>2 DEF Past
    <2>2. rec.counter \in Nat /\ current.counter \in Nat /\ later.counter \in Nat /\ later # None
      BY <2>1, ManifestFields
    <2>3. rec.counter < later.counter
      BY <2>1, <2>2, <1>2, VectorAssumption DEF Past
    <2>. QED
      BY <2>2, <2>3 DEF Past
  <1>3. SeenIsPast(me, later)
    BY <1>1, <1>2 DEF HandleOK, SeenIsPast
  <1>4. WinnerIsNewer(me, later)
    BY <1>1, <1>2 DEF HandleOK, WinnerIsNewer
  <1>5. me.seen # later
    <2>1. CASE me.seen = None
      BY <2>1, ManifestFields
    <2>2. CASE me.seen # None
      BY <2>2, <1>1, <1>2 DEF HandleOK, SeenIsPast
    <2>. QED
      BY <2>1, <2>2
  <1>. QED
    BY <1>3, <1>4, <1>5 DEF HandleOK, LooseIsStale

\* A step of one handle, that was not checking its blobs, which moves no manifest.
LEMMA HandleMoves ==
    ASSUME IndInv, NEW h \in Handles, NEW me \in {Closed} \cup OpenHandle,
           handle' = [handle EXCEPT ![h] = me], handle[h].pc # "verify",
           skipped' \in BOOLEAN, skipped => skipped',
           me # Closed => HandleOK(me, manifest, skipped'),
           blobs' \in SUBSET Blob, blobs \subseteq blobs',
           UNCHANGED <<declared, manifest, content, unverified>>
    PROVE  IndInv'
  <1>1. TypeOK'
    BY DEF IndInv, TypeOK
  <1>2. HandlesOK'
    <2>1. SUFFICES ASSUME NEW g \in Handles, handle'[g] # Closed
                   PROVE  HandleOK(handle'[g], manifest', skipped')
      BY DEF HandlesOK
    <2>2. CASE g = h
      BY <2>1, <2>2 DEF IndInv, TypeOK
    <2>3. CASE g # h
      <3>1. handle'[g] = handle[g]
        BY <2>3 DEF IndInv, TypeOK
      <3>2. HandleOK(handle[g], manifest, skipped)
        BY <2>1, <3>1 DEF IndInv, HandlesOK
      <3>. QED
        BY <3>1, <3>2, SkippedWeakens
    <2>. QED
      BY <2>2, <2>3
  <1>3. NamedAreStored'
    <2>1. SUFFICES ASSUME manifest # None, NEW id \in DOMAIN manifest.entries
                   PROVE  \/ manifest.entries[id] \in blobs' \cup unverified'
                          \/ \E g \in Handles : /\ handle'[g].pc = "verify" /\ id \in DOMAIN handle'[g].staged
                                                /\ handle'[g].staged[id] = manifest.entries[id]
      BY DEF NamedAreStored
    <2>2. CASE manifest.entries[id] \in blobs \cup unverified
      BY <2>2
    <2>3. CASE \E g \in Handles : /\ handle[g].pc = "verify" /\ id \in DOMAIN handle[g].staged
                                  /\ handle[g].staged[id] = manifest.entries[id]
      <3>1. PICK g \in Handles : /\ handle[g].pc = "verify" /\ id \in DOMAIN handle[g].staged
                                 /\ handle[g].staged[id] = manifest.entries[id]
        BY <2>3
      <3>2. handle'[g] = handle[g]
        BY <3>1 DEF IndInv, TypeOK
      <3>. QED
        BY <3>1, <3>2
    <2>. QED
      BY <2>1, <2>2, <2>3 DEF IndInv, NamedAreStored
  <1>4. HoldsCommitted'
    BY DEF IndInv, HoldsCommitted
  <1>. QED
    BY <1>1, <1>2, <1>3, <1>4 DEF IndInv

\* A call that ends, in whatever way, keeps what the handle knows.
LEMMA FailedIsOpen ==
    ASSUME NEW me \in OpenHandle
    PROVE  /\ Failed(me) \in OpenHandle
           /\ Failed(me).pc = "idle" /\ Failed(me).shards = me.shards /\ Failed(me).mem = me.mem
           /\ Failed(me).seen = me.seen /\ Failed(me).loose = me.loose
  <1>1. Empty \in Partial(Items, Value) /\ Empty \in Partial(Ids, Blob)
    BY EmptyIsPartial
  <1>. QED
    BY <1>1 DEF Failed, OpenHandle

LEMMA FailedIsOK ==
    ASSUME NEW me \in OpenHandle, NEW current, NEW skip, HandleOK(me, current, skip),
           me.pc # "hydrate"
    PROVE  HandleOK(Failed(me), current, skip)
  <1>1. /\ Failed(me).pc = "idle" /\ Failed(me).shards = me.shards /\ Failed(me).mem = me.mem
        /\ Failed(me).seen = me.seen /\ Failed(me).loose = me.loose
    BY FailedIsOpen
  <1>2. SeenIsPast(Failed(me), current) /\ LooseIsStale(Failed(me), current, skip)
    BY <1>1 DEF HandleOK, SeenIsPast, LooseIsStale
  <1>3. MemoryIsSeen(Failed(me))
    BY <1>1 DEF HandleOK, MemoryIsSeen
  <1>. QED
    BY <1>1, <1>2, <1>3 DEF HandleOK, WinnerIsNewer, HydratesSeen, StagedIsFaithful

\* A handle that is not closed is open.
LEMMA OpenByPc ==
    ASSUME TypeOK, NEW h \in Handles, handle[h].pc # "closed"
    PROVE  handle[h] \in OpenHandle /\ handle[h] # Closed
  BY DEF TypeOK, Closed

(***************************************************************************)
(* The actions of a handle                                                 *)
(***************************************************************************)

LEMMA OpenPreserves ==
    ASSUME IndInv, NEW h \in Handles, Open(h)
    PROVE  IndInv'
  <1> DEFINE me == [pc |-> IF manifest = None THEN "idle" ELSE "hydrate",
                    shards |-> IF manifest = None THEN declared[h].shards ELSE manifest.shards,
                    mem |-> Nothing, seen |-> manifest, deltas |-> Empty, attempt |-> 0,
                    staged |-> Empty, winner |-> None, loose |-> {}]
  <1>1. handle' = [handle EXCEPT ![h] = me] /\ handle[h] = Closed
    BY DEF Open
  <1>2. UNCHANGED <<declared, manifest, blobs, content, unverified, skipped>>
    BY DEF Open
  <1>3. manifest \in Manifest \cup {None} /\ declared[h] \in Declarations
    BY DEF IndInv, TypeOK
  <1>4. manifest # None => manifest.shards \in Counts
    BY <1>3, ManifestFields
  <1>5. me.shards \in Counts
    BY <1>3, <1>4 DEF Counts
  <1>6. Nothing \in Memory
    BY DEF Nothing, Memory, Value
  <1>7. me \in OpenHandle
    BY <1>3, <1>5, <1>6, EmptyIsPartial DEF OpenHandle
  <1>8. HandleOK(me, manifest, skipped)
    <2>1. manifest # None => Past(manifest, manifest)
      BY <1>3, ManifestFields DEF Past
    <2>2. SeenIsPast(me, manifest) /\ WinnerIsNewer(me, manifest) /\ HydratesSeen(me)
      BY <2>1 DEF SeenIsPast, WinnerIsNewer, HydratesSeen
    <2>3. MemoryIsSeen(me)
      BY DEF MemoryIsSeen, Served, Nothing
    <2>. QED
      BY <2>2, <2>3 DEF HandleOK, StagedIsFaithful, LooseIsStale
  <1>. HIDE DEF me
  <1>9. handle[h].pc # "verify"
    BY <1>1 DEF Closed
  <1>. QED
    BY <1>1, <1>2, <1>7, <1>8, <1>9, HandleMoves DEF IndInv, TypeOK

LEMMA HydratePreserves ==
    ASSUME IndInv, NEW h \in Handles, Hydrate(h)
    PROVE  IndInv'
  <1> DEFINE me == handle[h]
             mem == [i \in Items |-> Hydrated(Nothing, ShardOf(i, me.shards), me.shards,
                                              NamedBy(me.seen, ShardOf(i, me.shards)))[i]]
             loaded == [me EXCEPT !.pc = "idle", !.mem = mem]
  <1>1. me.pc = "hydrate" /\ me \in OpenHandle /\ me # Closed
    BY OpenByPc DEF Hydrate, IndInv
  <1>2. UNCHANGED <<declared, manifest, blobs, content, unverified, skipped>>
    BY DEF Hydrate
  <1>3. \/ handle' = [handle EXCEPT ![h] = Closed]
        \/ handle' = [handle EXCEPT ![h] = loaded]
    BY DEF Hydrate
  <1>4. HandleOK(me, manifest, skipped)
    BY <1>1 DEF IndInv, HandlesOK
  <1>5. me.seen # None /\ me.seen.shards = me.shards
    BY <1>1, <1>4 DEF HandleOK, HydratesSeen, SeenIsPast
  <1>6. \A i \in Items : mem[i] = Served(me.seen, i)
    BY <1>5 DEF Hydrated, Served
  <1>7. mem \in Memory
    BY <1>6, ServedValue DEF Memory
  <1>8. loaded \in OpenHandle /\ loaded.pc = "idle" /\ loaded.mem = mem /\ loaded.seen = me.seen
        /\ loaded.shards = me.shards /\ loaded.loose = me.loose
    <2>. HIDE DEF mem
    <2>. QED
      BY <1>1, <1>7 DEF OpenHandle
  <1>9. HandleOK(loaded, manifest, skipped)
    <2>. HIDE DEF mem, loaded
    <2>1. SeenIsPast(loaded, manifest) /\ LooseIsStale(loaded, manifest, skipped)
      BY <1>4, <1>8 DEF HandleOK, SeenIsPast, LooseIsStale
    <2>2. MemoryIsSeen(loaded)
      BY <1>6, <1>8 DEF MemoryIsSeen
    <2>. QED
      BY <2>1, <2>2, <1>8 DEF HandleOK, WinnerIsNewer, HydratesSeen, StagedIsFaithful
  <1>. HIDE DEF mem, loaded
  <1>. QED
    BY <1>1, <1>2, <1>3, <1>8, <1>9, HandleMoves DEF IndInv, TypeOK

LEMMA ClosePreserves ==
    ASSUME IndInv, NEW h \in Handles, Close(h)
    PROVE  IndInv'
  <1>1. UNCHANGED <<declared, manifest, blobs, content, unverified, skipped>>
        /\ handle' = [handle EXCEPT ![h] = Closed] /\ handle[h].pc # "verify"
    BY DEF Close
  <1>. QED
    BY <1>1, HandleMoves DEF IndInv, TypeOK

LEMMA BatchIsPartial == Batches \subseteq Partial(Items, Value)
  <1>1. ASSUME NEW items \in SUBSET Items, NEW f \in [items -> Vectors]
        PROVE  f \in Partial(Items, Value)
    <2>1. f \in [items -> Value]
      BY <1>1 DEF Value
    <2>. QED
      BY <2>1, PartialIntro
  <1>2. ASSUME NEW item \in Items
        PROVE  [i \in {item} |-> None] \in Partial(Items, Value)
    <2>1. [i \in {item} |-> None] \in [{item} -> Value]
      BY DEF Value
    <2>. QED
      BY <2>1, PartialIntro
  <1>3. ASSUME NEW f \in Batches
        PROVE  f \in Partial(Items, Value)
    <2>1. CASE f \in UNION {[items -> Vectors] : items \in (SUBSET Items) \ {{}}}
      BY <2>1, <1>1
    <2>2. CASE f \in {[i \in {item} |-> None] : item \in Items}
      <3>1. PICK item \in Items : f = [i \in {item} |-> None]
        BY <2>2
      <3>. QED
        BY <3>1, <1>2
    <2>. QED
      BY <1>3, <2>1, <2>2 DEF Batches
  <1>. QED
    BY <1>3

LEMMA BeginPreserves ==
    ASSUME IndInv, NEW h \in Handles, NEW deltas \in Batches, Begin(h, deltas)
    PROVE  IndInv'
  <1> DEFINE me == handle[h]
             begun == [me EXCEPT !.pc = "stage", !.deltas = deltas, !.attempt = 1]
  <1>1. me.pc = "idle" /\ me \in OpenHandle /\ me # Closed
    BY OpenByPc DEF Begin, IndInv
  <1>2. UNCHANGED <<declared, manifest, blobs, content, unverified, skipped>>
    BY DEF Begin
  <1>3. handle' = [handle EXCEPT ![h] = begun]
    BY <1>1 DEF Begin, IndInv, TypeOK
  <1>4. HandleOK(me, manifest, skipped)
    BY <1>1 DEF IndInv, HandlesOK
  <1>5. begun \in OpenHandle /\ begun.pc = "stage" /\ begun.mem = me.mem /\ begun.seen = me.seen
        /\ begun.shards = me.shards /\ begun.loose = me.loose
    BY <1>1, BatchIsPartial DEF OpenHandle
  <1>6. HandleOK(begun, manifest, skipped)
    <2>. HIDE DEF begun
    <2>1. SeenIsPast(begun, manifest) /\ LooseIsStale(begun, manifest, skipped)
      BY <1>4, <1>5 DEF HandleOK, SeenIsPast, LooseIsStale
    <2>2. MemoryIsSeen(begun)
      BY <1>1, <1>4, <1>5 DEF HandleOK, MemoryIsSeen
    <2>. QED
      BY <2>1, <2>2, <1>5 DEF HandleOK, WinnerIsNewer, HydratesSeen, StagedIsFaithful
  <1>. HIDE DEF begun
  <1>. QED
    BY <1>1, <1>2, <1>3, <1>5, <1>6, HandleMoves DEF IndInv, TypeOK

LEMMA DirtyAreIds ==
    ASSUME NEW me \in OpenHandle
    PROVE  Dirty(me) \in SUBSET Ids
  <1>1. DOMAIN me.deltas \in SUBSET Items /\ me.shards \in Counts
    BY PartialElim DEF OpenHandle
  <1>. QED
    BY <1>1, ShardIsId DEF Dirty

LEMMA StagePreserves ==
    ASSUME IndInv, NEW h \in Handles, Stage(h)
    PROVE  IndInv'
  <1> DEFINE me == handle[h]
             staged == [id \in Dirty(me) |-> StageShard(me.mem, me.deltas, id, me.shards)]
             ready == [me EXCEPT !.pc = "put", !.staged = staged]
  <1>1. me.pc = "stage" /\ me \in OpenHandle /\ me # Closed
    BY OpenByPc DEF Stage, IndInv
  <1>2. /\ UNCHANGED <<declared, manifest, content, unverified, skipped>>
        /\ blobs' = blobs \cup {staged[id] : id \in Dirty(me)}
    BY DEF Stage
  <1>3. handle' = [handle EXCEPT ![h] = ready]
    BY <1>1 DEF Stage, IndInv, TypeOK
  <1>4. HandleOK(me, manifest, skipped)
    BY <1>1 DEF IndInv, HandlesOK
  <1>5. staged \in [Dirty(me) -> Blob]
    <2>1. me.mem \in Memory /\ me.deltas \in Partial(Items, Value)
      BY <1>1 DEF OpenHandle
    <2>. QED
      BY <2>1, StageIsBlob
  <1>6. staged \in Partial(Ids, Blob) /\ DOMAIN staged = Dirty(me)
        /\ \A id \in Dirty(me) : staged[id] = StageShard(me.mem, me.deltas, id, me.shards)
    BY <1>1, <1>5, DirtyAreIds, PartialIntro
  <1>7. blobs' \in SUBSET Blob
    BY <1>2, <1>5 DEF IndInv, TypeOK
  <1>. HIDE DEF staged
  <1>8. ready \in OpenHandle /\ ready.pc = "put" /\ ready.mem = me.mem /\ ready.seen = me.seen
        /\ ready.shards = me.shards /\ ready.loose = me.loose /\ ready.staged = staged
        /\ ready.deltas = me.deltas
    BY <1>1, <1>6 DEF OpenHandle
  <1>9. HandleOK(ready, manifest, skipped)
    <2>. HIDE DEF ready
    <2>1. SeenIsPast(ready, manifest) /\ LooseIsStale(ready, manifest, skipped)
      BY <1>4, <1>8 DEF HandleOK, SeenIsPast, LooseIsStale
    <2>2. MemoryIsSeen(ready)
      BY <1>1, <1>4, <1>8 DEF HandleOK, MemoryIsSeen
    <2>3. StagedIsFaithful(ready)
      BY <1>6, <1>8 DEF StagedIsFaithful, Dirty
    <2>. QED
      BY <2>1, <2>2, <2>3, <1>8 DEF HandleOK, WinnerIsNewer, HydratesSeen
  <1>. HIDE DEF ready
  <1>. QED
    BY <1>1, <1>2, <1>3, <1>7, <1>8, <1>9, HandleMoves DEF IndInv, TypeOK

\* A conflict is with a manifest newer than the one last seen.
LEMMA ConflictIsNewer ==
    ASSUME NEW seen \in Manifest \cup {None}, manifest \in Manifest \cup {None},
           seen # None => Past(seen, manifest), PutOutcome(seen) = "Conflict"
    PROVE  manifest \in Manifest /\ (seen # None => seen.counter < manifest.counter)
  <1>1. CASE seen = None
    BY <1>1 DEF PutOutcome
  <1>2. CASE seen # None
    <2>1. Past(seen, manifest) /\ manifest \in Manifest
      BY <1>2 DEF Past
    <2>2. Revision(manifest) # Revision(seen)
      BY <1>2 DEF PutOutcome
    <2>3. seen.counter \in Nat /\ manifest.counter \in Nat
      BY <1>2, <2>1, ManifestFields
    <2>. QED
      BY <2>1, <2>2, <2>3 DEF Past
  <1>. QED
    BY <1>1, <1>2

LEMMA RefusedPreserves ==
    ASSUME IndInv, NEW h \in Handles, Refused(h)
    PROVE  IndInv'
  <1> DEFINE me == handle[h]
             losing == [me EXCEPT !.pc = "reload", !.winner = manifest]
  <1>1. me.pc = "put" /\ me \in OpenHandle /\ me # Closed
    BY OpenByPc DEF Refused, IndInv
  <1>2. UNCHANGED <<declared, manifest, blobs, content, unverified, skipped>>
    BY DEF Refused
  <1>3. HandleOK(me, manifest, skipped)
    BY <1>1 DEF IndInv, HandlesOK
  <1>4. CASE handle' = [handle EXCEPT ![h] = Failed(me)]
    BY <1>1, <1>2, <1>3, <1>4, FailedIsOpen, FailedIsOK, HandleMoves DEF IndInv, TypeOK
  <1>5. CASE /\ PutOutcome(me.seen) = "Conflict" /\ manifest.shards = me.shards
             /\ handle' = [handle EXCEPT ![h] = losing]
    <2>1. me.seen \in Manifest \cup {None} /\ manifest \in Manifest \cup {None}
      BY <1>1 DEF OpenHandle, IndInv, TypeOK
    <2>2. manifest \in Manifest /\ (me.seen # None => me.seen.counter < manifest.counter)
      BY <1>3, <1>5, <2>1, ConflictIsNewer DEF HandleOK, SeenIsPast
    <2>3. losing \in OpenHandle /\ losing.pc = "reload" /\ losing.winner = manifest
          /\ losing.mem = me.mem /\ losing.seen = me.seen /\ losing.shards = me.shards
          /\ losing.loose = me.loose
      BY <1>1, <2>2 DEF OpenHandle
    <2>. HIDE DEF losing
    <2>4. SeenIsPast(losing, manifest) /\ LooseIsStale(losing, manifest, skipped)
      BY <1>3, <2>3 DEF HandleOK, SeenIsPast, LooseIsStale
    <2>5. WinnerIsNewer(losing, manifest)
      BY <1>5, <2>2, <2>3, ManifestFields DEF WinnerIsNewer, Past
    <2>6. MemoryIsSeen(losing)
      BY <1>1, <1>3, <2>3 DEF HandleOK, MemoryIsSeen
    <2>7. HandleOK(losing, manifest, skipped)
      BY <2>3, <2>4, <2>5, <2>6 DEF HandleOK, HydratesSeen, StagedIsFaithful
    <2>. QED
      BY <1>1, <1>2, <1>5, <2>3, <2>7, HandleMoves DEF IndInv, TypeOK
  <1>. QED
    BY <1>4, <1>5 DEF Refused

\* A shard named alike in two manifests of one shard count is served alike.
LEMMA SameEntryServedAlike ==
    ASSUME NEW a \in Manifest \cup {None}, NEW b \in Manifest, NEW i \in Items,
           a # None => a.shards = b.shards,
           EntryOf(a, ShardOf(i, b.shards)) = EntryOf(b, ShardOf(i, b.shards))
    PROVE  Served(a, i) = Served(b, i)
  <1> DEFINE id == ShardOf(i, b.shards)
  <1>1. b # None /\ b.entries \in [DOMAIN b.entries -> Blob]
    BY ManifestFields
  <1>2. id \in DOMAIN b.entries => EntryOf(b, id) # None
    BY <1>1, VectorAssumption DEF EntryOf
  <1>3. CASE a = None
    <2>1. id \notin DOMAIN b.entries
      BY <1>1, <1>2, <1>3 DEF EntryOf
    <2>2. Served(b, i) = Decoded({}, i)
      BY <1>1, <2>1 DEF Served, NamedBy
    <2>3. Decoded({}, i) = None
      BY DEF Decoded
    <2>. QED
      BY <1>3, <2>2, <2>3 DEF Served
  <1>4. CASE a # None
    <2>1. a \in Manifest /\ a.entries \in [DOMAIN a.entries -> Blob]
      BY <1>4, ManifestFields
    <2>2. id \in DOMAIN a.entries => EntryOf(a, id) # None
      BY <1>4, <2>1, VectorAssumption DEF EntryOf
    <2>3. NamedBy(a, id) = NamedBy(b, id)
      BY <1>1, <1>2, <1>4, <2>2 DEF EntryOf, NamedBy
    <2>. QED
      BY <1>1, <1>4, <2>3 DEF Served
  <1>. QED
    BY <1>3, <1>4

\* Memory with some shards reloaded: there it is what the winner holds.
LEMMA ReloadedAt ==
    ASSUME NEW me \in OpenHandle, NEW ids,
           me.winner # None, me.winner.shards = me.shards
    PROVE  /\ Reloaded(me, ids) \in Memory
           /\ \A i \in Items : Reloaded(me, ids)[i] = IF ShardOf(i, me.shards) \in ids
                                                     THEN Served(me.winner, i) ELSE me.mem[i]
  <1>1. \A i \in Items : Reloaded(me, ids)[i] = IF ShardOf(i, me.shards) \in ids
                                               THEN Served(me.winner, i) ELSE me.mem[i]
    BY DEF Reloaded, Hydrated, Served
  <1>2. me.mem \in Memory
    BY DEF OpenHandle
  <1>3. \A i \in Items : Reloaded(me, ids)[i] \in Value
    BY <1>1, <1>2, ServedValue DEF Memory
  <1>4. Reloaded(me, ids) = [i \in Items |-> Reloaded(me, ids)[i]]
    BY DEF Reloaded
  <1>. QED
    BY <1>1, <1>3, <1>4 DEF Memory

LEMMA ReloadPreserves ==
    ASSUME IndInv, NEW h \in Handles, Reload(h)
    PROVE  IndInv'
  <1> DEFINE me == handle[h]
             caughtUp == [me EXCEPT !.pc = "stage", !.mem = Reloaded(me, ToHydrate(me)),
                                    !.seen = me.winner, !.attempt = me.attempt + 1,
                                    !.winner = None, !.loose = me.loose \ ToHydrate(me)]
             cutShort(ids) == [Failed(me) EXCEPT !.mem = Reloaded(me, ids), !.loose = me.loose \cup ids]
  <1>1. me.pc = "reload" /\ me \in OpenHandle /\ me # Closed
    BY OpenByPc DEF Reload, IndInv
  <1>2. UNCHANGED <<declared, manifest, blobs, content, unverified>>
    BY DEF Reload
  <1>3. HandleOK(me, manifest, skipped)
    BY <1>1 DEF IndInv, HandlesOK
  <1>4. /\ me.winner \in Manifest /\ Past(me.winner, manifest) /\ me.winner.shards = me.shards
        /\ me.seen # None => me.seen.counter < me.winner.counter
        /\ me.seen \in Manifest \cup {None} /\ manifest \in Manifest
        /\ me.winner # None
    BY <1>1, <1>3 DEF HandleOK, WinnerIsNewer, OpenHandle, Past, IndInv, TypeOK
  <1>5. me.seen # None => me.seen.shards = me.shards
    BY <1>3 DEF HandleOK, SeenIsPast
  <1>6. ToHydrate(me) \in SUBSET Ids
    <2>1. ShardIds(me.shards) \subseteq Ids
      BY <1>1 DEF OpenHandle, Counts, Ids
    <2>. QED
      BY <1>1, <2>1, DirtyAreIds DEF ToHydrate
  <1>7. CASE /\ handle' = [handle EXCEPT ![h] = caughtUp]
             /\ skipped' = (skipped \/ ~(me.loose \subseteq ToHydrate(me)))
    <2>1. /\ caughtUp \in OpenHandle /\ caughtUp.pc = "stage" /\ caughtUp.seen = me.winner
          /\ caughtUp.shards = me.shards /\ caughtUp.loose = me.loose \ ToHydrate(me)
          /\ caughtUp.mem = Reloaded(me, ToHydrate(me))
      <3>1. Reloaded(me, ToHydrate(me)) \in Memory
        BY <1>1, <1>4, ReloadedAt
      <3>2. me.loose \ ToHydrate(me) \in SUBSET Ids /\ me.attempt + 1 \in Nat
        BY <1>1 DEF OpenHandle
      <3>3. caughtUp \in OpenHandle
        BY <1>1, <1>4, <3>1, <3>2 DEF OpenHandle
      <3>. QED
        BY <1>1, <3>3 DEF OpenHandle
    <2>. HIDE DEF caughtUp
    <2>2. SeenIsPast(caughtUp, manifest)
      BY <1>4, <2>1 DEF SeenIsPast
    <2>3. MemoryIsSeen(caughtUp)
      <3>1. SUFFICES ASSUME NEW i \in Items, ShardOf(i, me.shards) \notin me.loose \ ToHydrate(me)
                     PROVE  caughtUp.mem[i] = Served(me.winner, i)
        BY <2>1 DEF MemoryIsSeen
      <3>2. CASE ShardOf(i, me.shards) \in ToHydrate(me)
        BY <1>1, <1>4, <2>1, <3>2, ReloadedAt
      <3>3. CASE ShardOf(i, me.shards) \notin ToHydrate(me)
        <4>1. ShardOf(i, me.shards) \in ShardIds(me.shards)
          BY <1>1, ShardIsId DEF OpenHandle
        <4>2. EntryOf(me.seen, ShardOf(i, me.shards)) = EntryOf(me.winner, ShardOf(i, me.shards))
          BY <3>3, <4>1 DEF ToHydrate
        <4>3. Served(me.seen, i) = Served(me.winner, i)
          BY <1>4, <1>5, <4>2, SameEntryServedAlike
        <4>4. me.mem[i] = Served(me.seen, i)
          BY <1>1, <1>3, <3>1, <3>3 DEF HandleOK, MemoryIsSeen
        <4>. QED
          BY <1>1, <1>4, <2>1, <3>3, <4>3, <4>4, ReloadedAt
      <3>. QED
        BY <3>2, <3>3
    <2>4. LooseIsStale(caughtUp, manifest, skipped')
      BY <1>7, <2>1 DEF LooseIsStale
    <2>5. HandleOK(caughtUp, manifest, skipped')
      BY <2>1, <2>2, <2>3, <2>4 DEF HandleOK, WinnerIsNewer, HydratesSeen, StagedIsFaithful
    <2>6. skipped' \in BOOLEAN /\ (skipped => skipped')
      BY <1>7 DEF IndInv, TypeOK
    <2>. QED
      BY <1>1, <1>2, <1>7, <2>1, <2>5, <2>6, HandleMoves DEF IndInv, TypeOK
  <1>8. ASSUME NEW ids \in SUBSET ToHydrate(me), handle' = [handle EXCEPT ![h] = cutShort(ids)],
               skipped' = skipped
        PROVE  IndInv'
    <2>1. /\ cutShort(ids) \in OpenHandle /\ cutShort(ids).pc = "idle" /\ cutShort(ids).seen = me.seen
          /\ cutShort(ids).shards = me.shards /\ cutShort(ids).loose = me.loose \cup ids
          /\ cutShort(ids).mem = Reloaded(me, ids)
      <3>1. /\ Failed(me) \in OpenHandle /\ Failed(me).pc = "idle" /\ Failed(me).shards = me.shards
            /\ Failed(me).seen = me.seen
        BY <1>1, FailedIsOpen
      <3>2. Reloaded(me, ids) \in Memory /\ me.loose \cup ids \in SUBSET Ids
        BY <1>1, <1>4, <1>6, <1>8, ReloadedAt DEF OpenHandle
      <3>. QED
        BY <3>1, <3>2 DEF OpenHandle
    <2>. HIDE DEF cutShort
    <2>2. SeenIsPast(cutShort(ids), manifest)
      BY <1>3, <2>1 DEF HandleOK, SeenIsPast
    <2>3. MemoryIsSeen(cutShort(ids))
      BY <1>1, <1>3, <1>4, <2>1, ReloadedAt DEF HandleOK, MemoryIsSeen
    <2>4. me.seen # manifest
      <3>1. CASE me.seen = None
        BY <1>4, <3>1, ManifestFields
      <3>2. CASE me.seen # None
        <4>1. me.seen.counter \in Nat /\ me.winner.counter \in Nat /\ manifest.counter \in Nat
          BY <1>4, <3>2, ManifestFields
        <4>2. me.seen.counter < manifest.counter
          BY <1>4, <3>2, <4>1 DEF Past
        <4>. QED
          BY <4>1, <4>2
      <3>. QED
        BY <3>1, <3>2
    <2>5. HandleOK(cutShort(ids), manifest, skipped')
      BY <2>1, <2>2, <2>3, <2>4
         DEF HandleOK, WinnerIsNewer, HydratesSeen, StagedIsFaithful, LooseIsStale
    <2>. QED
      BY <1>1, <1>2, <1>8, <2>1, <2>5, HandleMoves DEF IndInv, TypeOK
  <1>. HIDE DEF caughtUp, cutShort
  <1>9. \/ /\ handle' = [handle EXCEPT ![h] = caughtUp]
           /\ skipped' = (skipped \/ ~(me.loose \subseteq ToHydrate(me)))
        \/ \E ids \in SUBSET ToHydrate(me) : handle' = [handle EXCEPT ![h] = cutShort(ids)] /\ skipped' = skipped
    BY DEF Reload, caughtUp, cutShort
  <1>. QED
    BY <1>7, <1>8, <1>9

LEMMA CancelPreserves ==
    ASSUME IndInv, NEW h \in Handles, Cancel(h)
    PROVE  IndInv'
  <1> DEFINE me == handle[h]
  <1>1. me.pc \in {"stage", "put", "verify"} /\ me \in OpenHandle /\ me # Closed
    BY OpenByPc DEF Cancel, IndInv
  <1>2. /\ UNCHANGED <<declared, manifest, blobs, content, skipped>>
        /\ handle' = [handle EXCEPT ![h] = Failed(me)]
    BY DEF Cancel
  <1>3. HandleOK(me, manifest, skipped)
    BY <1>1 DEF IndInv, HandlesOK
  <1>4. Failed(me) \in OpenHandle /\ HandleOK(Failed(me), manifest, skipped)
    BY <1>1, <1>3, FailedIsOpen, FailedIsOK
  <1>5. CASE me.pc # "verify"
    <2>1. unverified' = unverified
      BY <1>5 DEF Cancel
    <2>. QED
      BY <1>1, <1>2, <1>4, <1>5, <2>1, HandleMoves DEF IndInv, TypeOK
  <1>6. CASE me.pc = "verify"
    <2>1. unverified' = unverified \cup {me.staged[id] : id \in DOMAIN me.staged}
      BY <1>6 DEF Cancel
    <2>2. me.staged \in [DOMAIN me.staged -> Blob]
      BY <1>1, PartialElim DEF OpenHandle
    <2>3. TypeOK'
      BY <1>2, <1>4, <2>1, <2>2 DEF IndInv, TypeOK
    <2>4. HandlesOK'
      BY <1>2, <1>4 DEF IndInv, TypeOK, HandlesOK
    <2>5. NamedAreStored'
      <3>1. SUFFICES ASSUME manifest # None, NEW id \in DOMAIN manifest.entries
                     PROVE  \/ manifest.entries[id] \in blobs' \cup unverified'
                            \/ \E g \in Handles : /\ handle'[g].pc = "verify" /\ id \in DOMAIN handle'[g].staged
                                                  /\ handle'[g].staged[id] = manifest.entries[id]
        BY <1>2 DEF NamedAreStored
      <3>2. CASE manifest.entries[id] \in blobs \cup unverified
        BY <3>2, <1>2, <2>1
      <3>3. CASE \E g \in Handles : /\ handle[g].pc = "verify" /\ id \in DOMAIN handle[g].staged
                                    /\ handle[g].staged[id] = manifest.entries[id]
        <4>1. PICK g \in Handles : /\ handle[g].pc = "verify" /\ id \in DOMAIN handle[g].staged
                                   /\ handle[g].staged[id] = manifest.entries[id]
          BY <3>3
        <4>2. CASE g = h
          BY <4>1, <4>2, <2>1
        <4>3. CASE g # h
          <5>1. handle'[g] = handle[g]
            BY <1>2, <4>3 DEF IndInv, TypeOK
          <5>. QED
            BY <4>1, <5>1
        <4>. QED
          BY <4>2, <4>3
      <3>. QED
        BY <3>1, <3>2, <3>3 DEF IndInv, NamedAreStored
    <2>6. HoldsCommitted'
      BY <1>2 DEF IndInv, HoldsCommitted
    <2>. QED
      BY <2>3, <2>4, <2>5, <2>6 DEF IndInv
  <1>. QED
    BY <1>5, <1>6

LEMMA VerifyPreserves ==
    ASSUME IndInv, NEW h \in Handles, Verify(h)
    PROVE  IndInv'
  <1> DEFINE me == handle[h]
             sent == {StageShard(me.mem, Empty, id, me.shards) : id \in DOMAIN me.staged}
  <1>1. me.pc = "verify" /\ me \in OpenHandle /\ me # Closed
    BY OpenByPc DEF Verify, IndInv
  <1>2. /\ UNCHANGED <<declared, manifest, content, unverified, skipped>>
        /\ handle' = [handle EXCEPT ![h] = Failed(me)] /\ blobs' = blobs \cup sent
    BY DEF Verify
  <1>3. HandleOK(me, manifest, skipped)
    BY <1>1 DEF IndInv, HandlesOK
  <1>4. Failed(me) \in OpenHandle /\ HandleOK(Failed(me), manifest, skipped)
    BY <1>1, <1>3, FailedIsOpen, FailedIsOK
  <1>5. \A id \in DOMAIN me.staged : me.staged[id] \in sent
    BY <1>1, <1>3 DEF HandleOK, StagedIsFaithful
  <1>6. sent \in SUBSET Blob
    <2>1. me.mem \in Memory
      BY <1>1 DEF OpenHandle
    <2>2. Empty \in Partial(Items, Value)
      BY EmptyIsPartial
    <2>3. \A id : StageShard(me.mem, Empty, id, me.shards) \in Blob
      BY <2>1, <2>2, StageIsBlob
    <2>. QED
      BY <2>3
  <1>. HIDE DEF sent
  <1>7. TypeOK'
    BY <1>2, <1>4, <1>6 DEF IndInv, TypeOK
  <1>8. HandlesOK'
    BY <1>2, <1>4 DEF IndInv, TypeOK, HandlesOK
  <1>9. NamedAreStored'
    <2>1. SUFFICES ASSUME manifest # None, NEW id \in DOMAIN manifest.entries
                   PROVE  \/ manifest.entries[id] \in blobs' \cup unverified'
                          \/ \E g \in Handles : /\ handle'[g].pc = "verify" /\ id \in DOMAIN handle'[g].staged
                                                /\ handle'[g].staged[id] = manifest.entries[id]
      BY <1>2 DEF NamedAreStored
    <2>2. CASE manifest.entries[id] \in blobs \cup unverified
      BY <2>2, <1>2
    <2>3. CASE \E g \in Handles : /\ handle[g].pc = "verify" /\ id \in DOMAIN handle[g].staged
                                  /\ handle[g].staged[id] = manifest.entries[id]
      <3>1. PICK g \in Handles : /\ handle[g].pc = "verify" /\ id \in DOMAIN handle[g].staged
                                 /\ handle[g].staged[id] = manifest.entries[id]
        BY <2>3
      <3>2. CASE g = h
        BY <3>1, <3>2, <1>2, <1>5
      <3>3. CASE g # h
        <4>1. handle'[g] = handle[g]
          BY <1>2, <3>3 DEF IndInv, TypeOK
        <4>. QED
          BY <3>1, <4>1
      <3>. QED
        BY <3>2, <3>3
    <2>. QED
      BY <2>1, <2>2, <2>3 DEF IndInv, NamedAreStored
  <1>10. HoldsCommitted'
    BY <1>2 DEF IndInv, HoldsCommitted
  <1>. QED
    BY <1>7, <1>8, <1>9, <1>10 DEF IndInv

(***************************************************************************)
(* A manifest that lands                                                   *)
(***************************************************************************)

\* The manifest a handle proposes is one that follows what it has seen.
LEMMA ProposedIsManifest ==
    ASSUME TypeOK, NEW h \in Handles, handle[h] \in OpenHandle
    PROVE  /\ Proposed(h) \in Manifest
           /\ Proposed(h).counter = IF handle[h].seen = None THEN 0 ELSE handle[h].seen.counter + 1
           /\ handle[h].seen # None => Proposed(h).shards = handle[h].seen.shards
           /\ handle[h].seen = None => Proposed(h).shards = handle[h].shards
           /\ \A id : id \in DOMAIN Proposed(h).entries <=>
                        (id \in DOMAIN handle[h].staged
                         \/ (handle[h].seen # None /\ id \in DOMAIN handle[h].seen.entries))
           /\ \A id \in DOMAIN handle[h].staged : Proposed(h).entries[id] = handle[h].staged[id]
           /\ handle[h].seen # None =>
                 \A id \in (DOMAIN handle[h].seen.entries) \ (DOMAIN handle[h].staged) :
                     Proposed(h).entries[id] = handle[h].seen.entries[id]
  <1> DEFINE me == handle[h]
             base == IF me.seen = None THEN Empty ELSE me.seen.entries
             ids == (DOMAIN base) \cup (DOMAIN me.staged)
             entries == [id \in ids |-> IF id \in DOMAIN me.staged THEN me.staged[id] ELSE base[id]]
  <1>1. me.seen \in Manifest \cup {None} /\ me.shards \in Counts /\ me.staged \in Partial(Ids, Blob)
    BY DEF OpenHandle
  <1>2. DOMAIN me.staged \in SUBSET Ids /\ me.staged \in [DOMAIN me.staged -> Blob]
    BY <1>1, PartialElim
  <1>3. base \in Partial(Ids, Blob)
    BY <1>1, ManifestFields, EmptyIsPartial
  <1>4. DOMAIN base \in SUBSET Ids /\ base \in [DOMAIN base -> Blob]
    BY <1>3, PartialElim
  <1>5. entries \in [ids -> Blob] /\ ids \in SUBSET Ids
    <2>. HIDE DEF base
    <2>. QED
      BY <1>2, <1>4
  <1>6. entries \in UNION {[D -> Blob] : D \in SUBSET Ids}
    BY <1>5
  <1>7. Proposed(h) = [live |-> TRUE, counter |-> IF me.seen = None THEN 0 ELSE me.seen.counter + 1,
                       space |-> IF me.seen = None THEN declared[h].space ELSE me.seen.space,
                       shards |-> IF me.seen = None THEN me.shards ELSE me.seen.shards,
                       entries |-> entries]
    BY DEF Proposed
  <1>8. me.seen # None => me.seen.counter \in Nat /\ me.seen.space \in Spaces /\ me.seen.shards \in Counts
    BY <1>1, ManifestFields
  <1>9. declared[h].space \in Spaces
    BY DEF TypeOK, Spaces
  <1>10. \A id : id \in ids <=> (id \in DOMAIN me.staged \/ (me.seen # None /\ id \in DOMAIN me.seen.entries))
    BY EmptyIsPartial
  <1>11. me.seen # None => base = me.seen.entries
    OBVIOUS
  <1>12. DOMAIN entries = ids
    OBVIOUS
  <1>13. /\ \A id \in DOMAIN me.staged : entries[id] = me.staged[id]
         /\ \A id \in (DOMAIN base) \ (DOMAIN me.staged) : entries[id] = base[id]
    <2>. HIDE DEF base
    <2>. QED
      OBVIOUS
  <1>. HIDE DEF base, ids, entries
  <1>14. Proposed(h) \in Manifest
    BY <1>1, <1>6, <1>7, <1>8, <1>9 DEF Manifest, Counts, Spaces
  <1>. QED
    BY <1>7, <1>10, <1>11, <1>12, <1>13, <1>14

\* Only a handle that has seen the current manifest gets its own in.
LEMMA CommittedIsCurrent ==
    ASSUME IndInv, NEW h \in Handles, handle[h] \in OpenHandle,
           PutOutcome(handle[h].seen) = "Committed"
    PROVE  handle[h].seen = manifest
  <1>1. HandleOK(handle[h], manifest, skipped)
    BY OpenIsNotClosed DEF IndInv, HandlesOK
  <1>2. CASE handle[h].seen = None
    BY <1>2 DEF PutOutcome
  <1>3. CASE handle[h].seen # None
    <2>1. Past(handle[h].seen, manifest)
      BY <1>1, <1>3 DEF HandleOK, SeenIsPast
    <2>2. Revision(manifest) = Revision(handle[h].seen)
      BY <1>3 DEF PutOutcome
    <2>. QED
      BY <2>1, <2>2 DEF Past, Revision
  <1>. QED
    BY <1>2, <1>3

\* What a manifest serves once a batch is in it: memory with the deltas.
LEMMA ProposedServes ==
    ASSUME TypeOK, NEW h \in Handles, handle[h] \in OpenHandle, handle[h].pc = "put",
           StagedIsFaithful(handle[h]), MemoryIsSeen(handle[h]),
           handle[h].seen # None => handle[h].seen.shards = handle[h].shards,
           NEW i \in Items, ShardOf(i, handle[h].shards) \notin handle[h].loose
    PROVE  Served(Proposed(h), i) = Applied(handle[h].mem, handle[h].deltas)[i]
  <1> DEFINE me == handle[h]
             new == Proposed(h)
             id == ShardOf(i, me.shards)
  <1>1. /\ new \in Manifest /\ new.shards = me.shards
        /\ \A k : k \in DOMAIN new.entries <=>
                    (k \in DOMAIN me.staged \/ (me.seen # None /\ k \in DOMAIN me.seen.entries))
        /\ \A k \in DOMAIN me.staged : new.entries[k] = me.staged[k]
        /\ me.seen # None => \A k \in (DOMAIN me.seen.entries) \ (DOMAIN me.staged) :
                                new.entries[k] = me.seen.entries[k]
    BY ProposedIsManifest
  <1>2. new # None
    BY <1>1, ManifestFields
  <1>3. /\ DOMAIN me.staged = Dirty(me)
        /\ \A k \in Dirty(me) : me.staged[k] = StageShard(me.mem, me.deltas, k, me.shards)
    BY DEF StagedIsFaithful
  <1>4. me.mem \in Memory /\ me.deltas \in Partial(Items, Value)
    BY DEF OpenHandle
  <1>. HIDE DEF new
  <1>5. Served(new, i) = Decoded(NamedBy(new, id), i)
    BY <1>1, <1>2 DEF Served
  <1>6. CASE id \in Dirty(me)
    <2>1. NamedBy(new, id) = StageShard(me.mem, me.deltas, id, me.shards)
      BY <1>1, <1>3, <1>6 DEF NamedBy
    <2>. QED
      BY <1>4, <1>5, <2>1, DecodeOfStage DEF new
  <1>7. CASE id \notin Dirty(me)
    <2>1. i \notin DOMAIN me.deltas
      BY <1>7 DEF Dirty
    <2>2. Applied(me.mem, me.deltas)[i] = me.mem[i]
      BY <2>1 DEF Applied
    <2>3. me.mem[i] = Served(me.seen, i)
      BY DEF MemoryIsSeen
    <2>4. CASE me.seen = None
      <3>1. NamedBy(new, id) = {}
        BY <1>1, <1>3, <1>7, <2>4 DEF NamedBy
      <3>2. Decoded({}, i) = None
        BY DEF Decoded
      <3>. QED
        BY <1>5, <2>2, <2>3, <2>4, <3>1, <3>2 DEF new, Served
    <2>5. CASE me.seen # None
      <3>1. NamedBy(new, id) = NamedBy(me.seen, id)
        BY <1>1, <1>3, <1>7, <2>5 DEF NamedBy
      <3>2. Served(me.seen, i) = Decoded(NamedBy(me.seen, id), i)
        BY <2>5 DEF Served
      <3>. QED
        BY <1>5, <2>2, <2>3, <3>1, <3>2 DEF new
    <2>. QED
      BY <2>4, <2>5
  <1>. QED
    BY <1>6, <1>7

\* A manifest that lands holds the commits up to it, and the handle that sent it has
\* seen the one it replaces.
LEMMA LandHolds ==
    ASSUME IndInv, NEW h \in Handles, handle[h] \in OpenHandle, handle[h].pc = "put", Land(h)
    PROVE  /\ manifest' \in Manifest /\ manifest' = Proposed(h) /\ content' \in Memory
           /\ manifest # None => manifest'.counter > manifest.counter
           /\ handle[h].seen = manifest
           /\ ~skipped => \A i \in Items : Served(manifest', i) = content'[i]
  <1> DEFINE me == handle[h]
             was == IF manifest = None THEN Nothing ELSE content
  <1>1. me.seen = manifest
    BY CommittedIsCurrent DEF Land
  <1>2. /\ manifest' = Proposed(h) /\ Proposed(h) \in Manifest
        /\ content' = Applied(was, me.deltas)
        /\ Proposed(h).counter = IF me.seen = None THEN 0 ELSE me.seen.counter + 1
    BY ProposedIsManifest DEF Land, IndInv
  <1>3. manifest # None => manifest.counter \in Nat
    BY ManifestFields DEF IndInv, TypeOK
  <1>4. manifest # None => manifest'.counter > manifest.counter
    BY <1>1, <1>2, <1>3
  <1>5. me.deltas \in Partial(Items, Value) /\ me.mem \in Memory
    BY DEF OpenHandle
  <1>6. was \in Memory
    BY DEF IndInv, TypeOK, Nothing, Memory, Value
  <1>7. content' \in Memory
    BY <1>2, <1>5, <1>6, AppliedIsMemory
  <1>8. ASSUME ~skipped, NEW i \in Items
        PROVE  Served(manifest', i) = content'[i]
    <2>1. HandleOK(me, manifest, skipped)
      BY OpenIsNotClosed DEF IndInv, HandlesOK
    <2>2. me.loose = {} /\ MemoryIsSeen(me) /\ StagedIsFaithful(me)
          /\ (me.seen # None => me.seen.shards = me.shards)
      BY <1>1, <1>8, <2>1 DEF HandleOK, LooseIsStale, SeenIsPast
    <2>3. Served(Proposed(h), i) = Applied(me.mem, me.deltas)[i]
      BY <2>2, ProposedServes DEF IndInv
    <2>4. me.mem[i] = Served(manifest, i)
      BY <1>1, <2>2 DEF MemoryIsSeen
    <2>5. Served(manifest, i) = was[i]
      BY <1>8 DEF IndInv, HoldsCommitted, Served, Nothing
    <2>. HIDE DEF was
    <2>6. Applied(me.mem, me.deltas)[i] = Applied(was, me.deltas)[i]
      BY <2>4, <2>5 DEF Applied
    <2>. QED
      BY <1>2, <2>3, <2>6
  <1>. QED
    BY <1>1, <1>2, <1>4, <1>7, <1>8

\* A shard of the manifest that landed is one of the handle's, or was named before.
LEMMA LandedEntries ==
    ASSUME IndInv, NEW h \in Handles, handle[h] \in OpenHandle, handle[h].seen = manifest,
           manifest' = Proposed(h), NEW id \in DOMAIN manifest'.entries
    PROVE  \/ id \in DOMAIN handle[h].staged /\ manifest'.entries[id] = handle[h].staged[id]
           \/ /\ manifest # None /\ id \in DOMAIN manifest.entries
              /\ manifest'.entries[id] = manifest.entries[id]
  BY ProposedIsManifest DEF IndInv

LEMMA CommitPreserves ==
    ASSUME IndInv, NEW h \in Handles, Commit(h)
    PROVE  IndInv'
  <1> DEFINE me == handle[h]
             done == [me EXCEPT !.pc = "verify", !.seen = Proposed(h), !.mem = Applied(me.mem, me.deltas)]
  <1>1. me.pc = "put" /\ me \in OpenHandle /\ me # Closed
    BY OpenByPc DEF Commit, IndInv
  <1>2. /\ UNCHANGED <<declared, blobs, unverified, skipped>> /\ Land(h)
        /\ handle' = [handle EXCEPT ![h] = done]
    BY <1>1 DEF Commit, IndInv, TypeOK
  <1>3. /\ manifest' \in Manifest /\ manifest' = Proposed(h) /\ content' \in Memory
        /\ manifest # None => manifest'.counter > manifest.counter
        /\ me.seen = manifest
        /\ ~skipped => \A i \in Items : Served(manifest', i) = content'[i]
    BY <1>1, <1>2, LandHolds
  <1>4. HandleOK(me, manifest, skipped)
    BY <1>1 DEF IndInv, HandlesOK
  <1>5. me.mem \in Memory /\ me.deltas \in Partial(Items, Value)
    BY <1>1 DEF OpenHandle
  <1>6. Applied(me.mem, me.deltas) \in Memory
    BY <1>5, AppliedIsMemory
  <1>7. done \in OpenHandle
    BY <1>1, <1>3, <1>6 DEF OpenHandle
  <1>8. done.pc = "verify" /\ done.seen = manifest' /\ done.mem = Applied(me.mem, me.deltas)
        /\ done.shards = me.shards /\ done.loose = me.loose /\ done.staged = me.staged
    BY <1>1, <1>3 DEF OpenHandle
  <1>. HIDE DEF done
  <1>9. HandleOK(done, manifest', skipped')
    <2>1. manifest'.shards = me.shards
      BY <1>1, <1>3, <1>4, ProposedIsManifest DEF HandleOK, SeenIsPast, IndInv
    <2>2. SeenIsPast(done, manifest')
      BY <1>3, <1>8, <2>1, ManifestFields DEF SeenIsPast, Past
    <2>3. LooseIsStale(done, manifest', skipped')
      BY <1>2, <1>3, <1>4, <1>8 DEF HandleOK, LooseIsStale
    <2>4. StagedIsFaithful(done)
      BY <1>1, <1>4, <1>8, StageAfterApply DEF HandleOK, StagedIsFaithful
    <2>5. MemoryIsSeen(done)
      <3>1. SUFFICES ASSUME NEW i \in Items, ShardOf(i, me.shards) \notin me.loose
                     PROVE  done.mem[i] = Served(manifest', i)
        BY <1>8 DEF MemoryIsSeen
      <3>. QED
        BY <1>1, <1>3, <1>4, <1>8, <3>1, ProposedServes DEF HandleOK, SeenIsPast, IndInv
    <2>. QED
      BY <1>8, <2>2, <2>3, <2>4, <2>5 DEF HandleOK, WinnerIsNewer, HydratesSeen
  <1>10. TypeOK'
    BY <1>2, <1>3, <1>7 DEF IndInv, TypeOK
  <1>11. HandlesOK'
    <2>1. SUFFICES ASSUME NEW g \in Handles, handle'[g] # Closed
                   PROVE  HandleOK(handle'[g], manifest', skipped')
      BY DEF HandlesOK
    <2>2. CASE g = h
      BY <1>2, <1>9, <2>2 DEF IndInv, TypeOK
    <2>3. CASE g # h
      <3>1. handle'[g] = handle[g] /\ handle[g] \in OpenHandle
        BY <1>2, <2>1, <2>3 DEF IndInv, TypeOK
      <3>2. HandleOK(handle[g], manifest, skipped) /\ manifest \in Manifest \cup {None}
        BY <2>1, <3>1 DEF IndInv, TypeOK, HandlesOK
      <3>3. HandleOK(handle[g], manifest', skipped)
        BY <1>3, <3>1, <3>2, ManifestMoves
      <3>. QED
        BY <1>2, <3>1, <3>3
    <2>. QED
      BY <2>2, <2>3
  <1>12. NamedAreStored'
    <2>1. SUFFICES ASSUME NEW id \in DOMAIN manifest'.entries
                   PROVE  \/ manifest'.entries[id] \in blobs' \cup unverified'
                          \/ \E g \in Handles : /\ handle'[g].pc = "verify" /\ id \in DOMAIN handle'[g].staged
                                                /\ handle'[g].staged[id] = manifest'.entries[id]
      BY DEF NamedAreStored
    <2>2. handle'[h] = done
      BY <1>2 DEF IndInv, TypeOK
    <2>3. CASE id \in DOMAIN me.staged /\ manifest'.entries[id] = me.staged[id]
      BY <1>8, <2>2, <2>3
    <2>4. CASE /\ manifest # None /\ id \in DOMAIN manifest.entries
               /\ manifest'.entries[id] = manifest.entries[id]
      <3>1. CASE manifest.entries[id] \in blobs \cup unverified
        BY <1>2, <2>4, <3>1
      <3>2. CASE \E g \in Handles : /\ handle[g].pc = "verify" /\ id \in DOMAIN handle[g].staged
                                    /\ handle[g].staged[id] = manifest.entries[id]
        <4>1. PICK g \in Handles : /\ handle[g].pc = "verify" /\ id \in DOMAIN handle[g].staged
                                   /\ handle[g].staged[id] = manifest.entries[id]
          BY <3>2
        <4>2. handle'[g] = handle[g]
          BY <1>1, <1>2, <4>1 DEF IndInv, TypeOK
        <4>. QED
          BY <2>4, <4>1, <4>2
      <3>. QED
        BY <2>4, <3>1, <3>2 DEF IndInv, NamedAreStored
    <2>. QED
      BY <1>1, <1>3, <2>1, <2>3, <2>4, LandedEntries
  <1>13. HoldsCommitted'
    BY <1>2, <1>3 DEF HoldsCommitted
  <1>. QED
    BY <1>10, <1>11, <1>12, <1>13 DEF IndInv

LEMMA CommitUnheardPreserves ==
    ASSUME IndInv, NEW h \in Handles, CommitUnheard(h)
    PROVE  IndInv'
  <1> DEFINE me == handle[h]
  <1>1. me.pc = "put" /\ me \in OpenHandle /\ me # Closed
    BY OpenByPc DEF CommitUnheard, IndInv
  <1>2. /\ UNCHANGED <<declared, blobs, skipped>> /\ Land(h)
        /\ handle' = [handle EXCEPT ![h] = Failed(me)]
        /\ unverified' = unverified \cup {me.staged[id] : id \in DOMAIN me.staged}
    BY DEF CommitUnheard
  <1>3. /\ manifest' \in Manifest /\ manifest' = Proposed(h) /\ content' \in Memory
        /\ manifest # None => manifest'.counter > manifest.counter
        /\ me.seen = manifest
        /\ ~skipped => \A i \in Items : Served(manifest', i) = content'[i]
    BY <1>1, <1>2, LandHolds
  <1>4. manifest \in Manifest \cup {None}
    BY DEF IndInv, TypeOK
  <1>5. Failed(me) \in OpenHandle /\ HandleOK(Failed(me), manifest, skipped)
    BY <1>1, FailedIsOpen, FailedIsOK DEF IndInv, HandlesOK
  <1>6. me.staged \in [DOMAIN me.staged -> Blob]
    BY <1>1, PartialElim DEF OpenHandle
  <1>7. TypeOK'
    BY <1>2, <1>3, <1>5, <1>6 DEF IndInv, TypeOK
  <1>8. HandlesOK'
    <2>1. SUFFICES ASSUME NEW g \in Handles, handle'[g] # Closed
                   PROVE  HandleOK(handle'[g], manifest', skipped')
      BY DEF HandlesOK
    <2>2. handle'[g] \in OpenHandle /\ HandleOK(handle'[g], manifest, skipped)
      BY <1>2, <1>5, <2>1 DEF IndInv, TypeOK, HandlesOK
    <2>3. HandleOK(handle'[g], manifest', skipped)
      BY <1>3, <1>4, <2>2, ManifestMoves
    <2>. QED
      BY <1>2, <2>3
  <1>9. NamedAreStored'
    <2>1. SUFFICES ASSUME NEW id \in DOMAIN manifest'.entries
                   PROVE  \/ manifest'.entries[id] \in blobs' \cup unverified'
                          \/ \E g \in Handles : /\ handle'[g].pc = "verify" /\ id \in DOMAIN handle'[g].staged
                                                /\ handle'[g].staged[id] = manifest'.entries[id]
      BY DEF NamedAreStored
    <2>2. CASE id \in DOMAIN me.staged /\ manifest'.entries[id] = me.staged[id]
      BY <1>2, <2>2
    <2>3. CASE /\ manifest # None /\ id \in DOMAIN manifest.entries
               /\ manifest'.entries[id] = manifest.entries[id]
      <3>1. CASE manifest.entries[id] \in blobs \cup unverified
        BY <1>2, <2>3, <3>1
      <3>2. CASE \E g \in Handles : /\ handle[g].pc = "verify" /\ id \in DOMAIN handle[g].staged
                                    /\ handle[g].staged[id] = manifest.entries[id]
        <4>1. PICK g \in Handles : /\ handle[g].pc = "verify" /\ id \in DOMAIN handle[g].staged
                                   /\ handle[g].staged[id] = manifest.entries[id]
          BY <3>2
        <4>2. handle'[g] = handle[g]
          BY <1>1, <1>2, <4>1 DEF IndInv, TypeOK
        <4>. QED
          BY <2>3, <4>1, <4>2
      <3>. QED
        BY <2>3, <3>1, <3>2 DEF IndInv, NamedAreStored
    <2>. QED
      BY <1>1, <1>3, <2>1, <2>2, <2>3, LandedEntries
  <1>10. HoldsCommitted'
    BY <1>2, <1>3 DEF HoldsCommitted
  <1>. QED
    BY <1>7, <1>8, <1>9, <1>10 DEF IndInv

(***************************************************************************)
(* Deletion, restoration and garbage collection                            *)
(***************************************************************************)

\* A record of the same manifest with the next counter: a tombstone, or its restoration.
LEMMA MarkPreserves ==
    ASSUME IndInv, manifest # None, NEW on \in BOOLEAN,
           manifest' = [manifest EXCEPT !.live = on, !.counter = manifest.counter + 1],
           UNCHANGED <<declared, blobs, handle, content, unverified, skipped>>
    PROVE  IndInv'
  <1>1. manifest \in Manifest /\ manifest.counter \in Nat
    BY ManifestFields DEF IndInv, TypeOK
  <1>2. manifest' \in Manifest
    <2>1. Manifest = [live : BOOLEAN, counter : Nat, space : Spaces, shards : Counts,
                      entries : Partial(Ids, Blob)]
      BY DEF Manifest, Spaces, Counts, Partial
    <2>2. manifest.counter + 1 \in Nat
      BY <1>1
    <2>3. CASE on = TRUE
      BY <1>1, <2>1, <2>2, <2>3
    <2>4. CASE on = FALSE
      BY <1>1, <2>1, <2>2, <2>4
    <2>. QED
      BY <2>3, <2>4
  <1>3. /\ manifest'.counter = manifest.counter + 1 /\ manifest'.entries = manifest.entries
        /\ manifest'.shards = manifest.shards
    BY <1>1 DEF Manifest
  <1>4. manifest' # None
    BY <1>2, ManifestFields
  <1>5. TypeOK'
    BY <1>2 DEF IndInv, TypeOK
  <1>6. HandlesOK'
    <2>1. SUFFICES ASSUME NEW g \in Handles, handle[g] # Closed
                   PROVE  HandleOK(handle[g], manifest', skipped')
      BY DEF HandlesOK
    <2>2. handle[g] \in OpenHandle /\ HandleOK(handle[g], manifest, skipped)
      BY <2>1 DEF IndInv, TypeOK, HandlesOK
    <2>3. manifest'.counter > manifest.counter
      BY <1>1, <1>3
    <2>4. HandleOK(handle[g], manifest', skipped)
      BY <1>1, <1>2, <2>2, <2>3, ManifestMoves
    <2>. QED
      BY <2>4
  <1>7. NamedAreStored'
    BY <1>3 DEF IndInv, NamedAreStored
  <1>8. \A i \in Items : Served(manifest', i) = Served(manifest, i)
    BY <1>3, <1>4 DEF Served, NamedBy
  <1>9. HoldsCommitted'
    BY <1>8 DEF IndInv, HoldsCommitted
  <1>. QED
    BY <1>5, <1>6, <1>7, <1>9 DEF IndInv

\* With every handle closed, the index starts over.
LEMMA PurgePreserves ==
    ASSUME IndInv, ~PurgeWhileOpen, Purge
    PROVE  IndInv'
  <1>1. /\ \A h \in Handles : handle[h] = Closed
        /\ manifest' = None /\ skipped' = FALSE
        /\ UNCHANGED <<declared, blobs, handle, content, unverified>>
    BY DEF Purge
  <1>2. TypeOK'
    BY <1>1 DEF IndInv, TypeOK
  <1>. QED
    BY <1>1, <1>2 DEF IndInv, HandlesOK, NamedAreStored, HoldsCommitted

\* The sweep takes no blob the manifest names.
LEMMA SweepPreserves ==
    ASSUME IndInv, Sweep
    PROVE  IndInv'
  <1> DEFINE named == IF manifest = None THEN {}
                      ELSE {manifest.entries[id] : id \in DOMAIN manifest.entries}
  <1>1. /\ blobs' = blobs \ (old \ named)
        /\ UNCHANGED <<declared, manifest, handle, content, unverified, skipped>>
    BY DEF Sweep
  <1>2. manifest # None => \A id \in DOMAIN manifest.entries :
                              manifest.entries[id] \in blobs => manifest.entries[id] \in blobs'
    BY <1>1
  <1>3. blobs' \subseteq blobs
    BY <1>1
  <1>. HIDE DEF named
  <1>4. TypeOK'
    BY <1>1, <1>3 DEF IndInv, TypeOK
  <1>5. HandlesOK' /\ HoldsCommitted'
    BY <1>1 DEF IndInv, HandlesOK, HoldsCommitted
  <1>6. NamedAreStored'
    BY <1>1, <1>2 DEF IndInv, NamedAreStored
  <1>. QED
    BY <1>4, <1>5, <1>6 DEF IndInv

LEMMA Unmoved ==
    ASSUME IndInv, UNCHANGED <<declared, manifest, blobs, handle, content, unverified, skipped>>
    PROVE  IndInv'
  BY DEF IndInv, TypeOK, HandlesOK, NamedAreStored, HoldsCommitted

LEMMA InitHolds == Init => IndInv
  <1>. SUFFICES ASSUME Init PROVE IndInv
    OBVIOUS
  <1>1. TypeOK
    BY DEF Init, TypeOK, Nothing, Memory, Value
  <1>. QED
    BY <1>1 DEF Init, IndInv, HandlesOK, NamedAreStored, HoldsCommitted

LEMMA NextPreserves ==
    ASSUME IndInv, ~PurgeWhileOpen, [Next]_vars
    PROVE  IndInv'
  <1>1. ASSUME NEW h \in Handles, Open(h) PROVE IndInv'
    BY <1>1, OpenPreserves
  <1>2. ASSUME NEW h \in Handles, Hydrate(h) PROVE IndInv'
    BY <1>2, HydratePreserves
  <1>3. ASSUME NEW h \in Handles, Close(h) PROVE IndInv'
    BY <1>3, ClosePreserves
  <1>4. ASSUME NEW h \in Handles, NEW deltas \in Batches, Begin(h, deltas) PROVE IndInv'
    BY <1>4, BeginPreserves
  <1>5. ASSUME NEW h \in Handles, Stage(h) PROVE IndInv'
    BY <1>5, StagePreserves
  <1>6. ASSUME NEW h \in Handles, Commit(h) PROVE IndInv'
    BY <1>6, CommitPreserves
  <1>7. ASSUME NEW h \in Handles, CommitUnheard(h) PROVE IndInv'
    BY <1>7, CommitUnheardPreserves
  <1>8. ASSUME NEW h \in Handles, Refused(h) PROVE IndInv'
    BY <1>8, RefusedPreserves
  <1>9. ASSUME NEW h \in Handles, Reload(h) PROVE IndInv'
    BY <1>9, ReloadPreserves
  <1>10. ASSUME NEW h \in Handles, Verify(h) PROVE IndInv'
    BY <1>10, VerifyPreserves
  <1>11. ASSUME NEW h \in Handles, Cancel(h) PROVE IndInv'
    BY <1>11, CancelPreserves
  <1>12. CASE DeleteIndex
    BY <1>12, MarkPreserves DEF DeleteIndex, Live
  <1>13. CASE Undelete
    BY <1>13, MarkPreserves DEF Undelete
  <1>14. CASE Purge
    BY <1>14, PurgePreserves
  <1>15. CASE Age
    BY <1>15, Unmoved DEF Age
  <1>16. CASE Sweep
    BY <1>16, SweepPreserves
  <1>17. CASE UNCHANGED vars
    BY <1>17, Unmoved DEF vars
  <1>. QED
    BY <1>1, <1>2, <1>3, <1>4, <1>5, <1>6, <1>7, <1>8, <1>9, <1>10, <1>11, <1>12, <1>13,
       <1>14, <1>15, <1>16, <1>17 DEF Next

(***************************************************************************)
(* Theorems                                                                *)
(***************************************************************************)

\* The inductive invariant of the vector index: every manifest a handle holds is the
\* current one or an earlier one, its memory is that manifest off the shards that
\* failed reloads moved, a handle that is up to date has no such shard, and what is
\* staged is what memory and the batch make of a shard (open_with_shards, commit).
THEOREM VectorInvariant ==
    ASSUME ~PurgeWhileOpen
    PROVE  Spec => []IndInv
  <1>1. Init => IndInv
    BY InitHolds
  <1>2. IndInv /\ [Next]_vars => IndInv'
    BY NextPreserves
  <1>. QED
    BY <1>1, <1>2, PTL DEF Spec

\* No committed vector is lost and the index can be opened: for every number of handles
\* and of shards, and every order of races, cut-off calls, lost answers, deletions and
\* sweeps, the manifest names stored shards that hold exactly what the commits made of
\* the index, unless a reload left out a shard an earlier one had moved (commit).
THEOREM VectorIndexIsWhole ==
    ASSUME ~PurgeWhileOpen
    PROVE  Spec => []IndexIsWhole
  <1>1. ASSUME IndInv PROVE IndexIsWhole
    <2>1. ShardsStored
      BY <1>1 DEF IndInv, NamedAreStored, ShardsStored
    <2>2. ASSUME ~skipped, manifest # None PROVE Contents(manifest) = content
      <3>1. content \in Memory /\ \A i \in Items : Served(manifest, i) = content[i]
        BY <1>1, <2>2 DEF IndInv, TypeOK, HoldsCommitted
      <3>2. content = [i \in Items |-> content[i]]
        BY <3>1 DEF Memory
      <3>3. Contents(manifest) = [i \in Items |-> Served(manifest, i)]
        BY <2>2, ContentsAt
      <3>. QED
        BY <3>1, <3>2, <3>3
    <2>. QED
      BY <2>1, <2>2 DEF IndexIsWhole, StoredIsCommitted
  <1>. QED
    BY <1>1, VectorInvariant, PTL

\* "Memory only ever reflects a committed manifest": a handle at rest that has seen the
\* current manifest serves exactly what it holds, with the same exception (commit's
\* conflict arm, hydrate_shard).
THEOREM VectorMemoryIsCurrent ==
    ASSUME ~PurgeWhileOpen
    PROVE  Spec => []MemoryIsCurrent
  <1>1. ASSUME IndInv PROVE MemoryIsCurrent
    <2>1. SUFFICES ASSUME ~skipped, NEW h \in Handles, handle[h].pc = "idle", Live(manifest),
                          handle[h].seen # None, Revision(handle[h].seen) = Revision(manifest)
                   PROVE  handle[h].mem = Contents(manifest)
      BY DEF MemoryIsCurrent, MemoryIsManifest
    <2>2. handle[h] \in OpenHandle /\ handle[h] # Closed
      BY <1>1, <2>1, OpenByPc DEF IndInv
    <2>3. HandleOK(handle[h], manifest, skipped)
      BY <1>1, <2>2 DEF IndInv, HandlesOK
    <2>4. handle[h].seen = manifest
      BY <2>1, <2>3 DEF HandleOK, SeenIsPast, Past, Revision
    <2>5. \A i \in Items : handle[h].mem[i] = Served(manifest, i)
      BY <2>1, <2>3, <2>4 DEF HandleOK, LooseIsStale, MemoryIsSeen
    <2>6. handle[h].mem = [i \in Items |-> handle[h].mem[i]]
      BY <2>2 DEF OpenHandle, Memory
    <2>7. Contents(manifest) = [i \in Items |-> Served(manifest, i)]
      BY <2>1, ContentsAt DEF Live
    <2>. QED
      BY <2>5, <2>6, <2>7
  <1>. QED
    BY <1>1, VectorInvariant, PTL

(***************************************************************************)
(* The knowledge store                                                     *)
(***************************************************************************)

\* Some ordinal is the highest: the least of the distances to a bound.
LEMMA GreatestOrdinal ==
    ASSUME NEW n \in Nat, NEW S \in SUBSET (0 .. n), S # {}
    PROVE  \E m \in S : \A i \in S : i <= m
<1> DEFINE R == OpToRel(<, Nat)
           T == {n - i : i \in S}
<1>1. \A t \in T : t \in Nat OBVIOUS
<1>2. \E m \in T : \A t \in T : ~(<<t, m>> \in R)
  <2>1. IsWellFoundedOn(R, Nat) BY NatLessThanWellFounded
  <2>2. PICK i \in S : TRUE OBVIOUS
  <2>3. n - i \in T BY <2>2
  <2>4. T \subseteq Nat /\ T # {} BY <1>1, <2>3
  <2> HIDE DEF R, T
  <2> QED BY <2>1, <2>4, WFMin
<1>3. PICK m \in T : \A t \in T : ~(<<t, m>> \in R) BY <1>2
<1>4. \A t \in T : m <= t
  <2>1. ASSUME NEW t \in T, t < m PROVE <<t, m>> \in R
    <3>1. t \in Nat /\ m \in Nat BY <1>1
    <3> QED BY <2>1, <3>1 DEF OpToRel
  <2> SUFFICES ASSUME NEW t \in T, ~(m <= t) PROVE FALSE OBVIOUS
  <2>2. t \in Nat /\ m \in Nat BY <1>1
  <2>3. t < m BY <2>2
  <2> QED BY <1>3, <2>1, <2>3
<1>5. PICK j \in S : m = n - j BY <1>3
<1>6. \A i \in S : n - i \in T OBVIOUS
<1>7. \A i \in S : n - j <= n - i BY <1>4, <1>5, <1>6
<1>8. \A i \in S : i <= j BY <1>7
<1> QED BY <1>5, <1>8

\* A chunk key is a record's key and an ordinal (chunk_key).
LEMMA ChunkKeysAre ==
    ASSUME NEW k \in Keys
    PROVE  /\ \A i \in 0 .. N!MaxChunks - 1 : N!chunk_key(k, i) \in N!ChunkKeys
           /\ \A c \in N!ChunkKeys : /\ c = <<c[1], c[2]>> /\ c[1] \in Keys
                                     /\ c[2] \in 0 .. N!MaxChunks - 1
BY DEF N!ChunkKeys, N!chunk_key

\* The chunks of a record, by their ordinals.
LEMMA ChunksByOrdinal ==
    ASSUME N!TypeOK, NEW k \in Keys
    PROVE  \A c : c \in N!ChunksOf(k) <=>
               \E i \in 0 .. N!MaxChunks - 1 : c = N!chunk_key(k, i) /\ index[c] # None
<1>0. DOMAIN index = N!ChunkKeys BY DEF N!TypeOK
<1>1. ASSUME NEW c \in N!ChunksOf(k)
      PROVE  \E i \in 0 .. N!MaxChunks - 1 : c = N!chunk_key(k, i) /\ index[c] # None
  <2>1. c \in N!ChunkKeys /\ index[c] # None /\ c[1] = k
    BY <1>0, <1>1 DEF N!ChunksOf, N!Chunks, N!Indexed, N!parent_key
  <2> QED BY <2>1, ChunkKeysAre DEF N!chunk_key
<1>2. ASSUME NEW c, NEW i \in 0 .. N!MaxChunks - 1, c = N!chunk_key(k, i), index[c] # None
      PROVE  c \in N!ChunksOf(k)
  BY <1>0, <1>2, ChunkKeysAre DEF N!ChunksOf, N!Chunks, N!Indexed, N!parent_key, N!chunk_key
<1> QED BY <1>1, <1>2

\* An empty index is accounted for.
LEMMA AccountsInit == ASSUME N!KnowledgeAssumption, N!Init PROVE N!ChunkInv
<1>1. N!TypeOK
  <2>1. <<>> \in N!Chunking BY DEF N!KnowledgeAssumption, N!Chunking
  <2> QED BY <2>1 DEF N!KnowledgeAssumption, N!Init, N!TypeOK
<1>2. \A k \in Keys : \A i \in 0 .. N!MaxChunks - 1 : index[N!chunk_key(k, i)] = None
  BY ChunkKeysAre DEF N!Init
<1>3. N!SettledHolds BY <1>2 DEF N!Init, N!SettledHolds, N!Holds, N!KnowledgeAssumption
<1>4. \A w \in Workers : task[w] = N!Idle BY DEF N!Init
<1> QED BY <1>1, <1>2, <1>3, <1>4
     DEF N!ChunkInv, N!OneCallAtATime, N!CallsAreAccounted, N!RestIsAccounted

\* The invariant gives what the run checks.
LEMMA AccountsHold == ASSUME N!KnowledgeAssumption, N!ChunkInv PROVE N!ChunksAreAccounted
<1>0. /\ N!TypeOK /\ N!RestIsAccounted /\ N!SettledHolds /\ N!MaxChunks \in Nat /\ None \notin Int
  BY DEF N!ChunkInv, N!KnowledgeAssumption
<1>1. N!CountsReachEveryChunk
  <2> SUFFICES ASSUME NEW k \in Keys, ~N!InFlight(k), NEW c \in N!ChunksOf(k) PROVE c[2] < counts[k]
    BY DEF N!CountsReachEveryChunk
  <2>1. PICK i \in 0 .. N!MaxChunks - 1 : c = N!chunk_key(k, i) /\ index[c] # None
    BY <1>0, ChunksByOrdinal
  <2> QED BY <1>0, <2>1 DEF N!RestIsAccounted, N!chunk_key
<1>2. N!SettledIsExact
  <2> SUFFICES ASSUME NEW k \in Keys, settled[k] # None
               PROVE  /\ N!ChunksOf(k) = {N!chunk_key(k, i - 1) : i \in 1 .. Len(settled[k])}
                      /\ \A i \in 1 .. Len(settled[k]) : index[N!chunk_key(k, i - 1)] = settled[k][i]
    BY DEF N!SettledIsExact
  <2> DEFINE s == settled[k]  n == Len(s)
  <2>1. s \in Seq(Int) /\ n \in Nat /\ n <= N!MaxChunks BY <1>0 DEF N!TypeOK, N!Chunking
  <2>2. N!Holds(k, s) BY <1>0 DEF N!SettledHolds
  <2>s. \A i \in 1 .. n : s[i] # None BY <1>0, <2>1
  <2> HIDE DEF s, n
  <2>3. \A i \in 1 .. n : /\ i - 1 \in 0 .. N!MaxChunks - 1 /\ index[N!chunk_key(k, i - 1)] = s[i]
                          /\ s[i] # None
    BY <1>0, <2>1, <2>2, <2>s DEF N!Holds, n
  <2>4. \A i \in 0 .. N!MaxChunks - 1 : index[N!chunk_key(k, i)] # None => i + 1 \in 1 .. n
    BY <1>0, <2>1, <2>2 DEF N!Holds, n
  <2>5. \A c : c \in N!ChunksOf(k) <=> \E i \in 1 .. n : c = N!chunk_key(k, i - 1)
    <3>1. ASSUME NEW c \in N!ChunksOf(k) PROVE \E i \in 1 .. n : c = N!chunk_key(k, i - 1)
      <4>1. PICK i \in 0 .. N!MaxChunks - 1 : c = N!chunk_key(k, i) /\ index[c] # None
        BY <1>0, <3>1, ChunksByOrdinal
      <4>2. i + 1 \in 1 .. n /\ (i + 1) - 1 = i BY <2>4, <4>1
      <4> QED BY <4>1, <4>2
    <3>2. ASSUME NEW i \in 1 .. n PROVE N!chunk_key(k, i - 1) \in N!ChunksOf(k)
      BY <1>0, <2>3, ChunksByOrdinal
    <3> QED BY <3>1, <3>2
  <2> QED BY <2>3, <2>5 DEF s, n
<1> QED BY <1>1, <1>2 DEF N!ChunksAreAccounted

\* A task is idle or in a call.
LEMMA CallIsNotIdle ==
    ASSUME N!TypeOK, NEW w \in Workers
    PROVE  /\ task[w] # N!Idle => task[w] \in N!Call
           /\ task[w].pc \in {"trim", "count"} => task[w] # N!Idle
BY DEF N!TypeOK, N!Call, N!Idle

\* A call keeps its account while others work on other records.
LEMMA AccountsStay ==
    ASSUME NEW v, task'[v] = task[v], N!Accounted(task[v]),
           \A i \in 0 .. N!MaxChunks - 1 :
               index'[N!chunk_key(task[v].key, i)] = index[N!chunk_key(task[v].key, i)],
           counts'[task[v].key] = counts[task[v].key], settled'[task[v].key] = settled[task[v].key]
    PROVE  N!Accounted(task[v])'
<1>1. N!Holds(task[v].key, task[v].chunks) => N!Holds(task[v].key, task[v].chunks)' BY DEF N!Holds
<1> QED BY <1>1 DEF N!Accounted

\* ingest and remove begin on a record nobody else is working on: the count reaches all
\* its chunks, so what is beyond the new ones is left to trim.
LEMMA CallBegins ==
    ASSUME N!KnowledgeAssumption, N!CallersTakeTurns, N!ChunkInv, NEW w \in Workers, NEW k \in Keys, NEW chunks \in N!Chunking,
           N!Free(w, k),
           task' = [task EXCEPT ![w] = [pc |-> "trim", key |-> k, chunks |-> chunks,
                                        left |-> Len(chunks) .. counts[k] - 1]],
           settled' = [settled EXCEPT ![k] = None],
           UNCHANGED <<records, index, counts>>
    PROVE  N!ChunkInv'
<1> DEFINE call == [pc |-> "trim", key |-> k, chunks |-> chunks, left |-> Len(chunks) .. counts[k] - 1]
<1>0. N!TypeOK BY DEF N!ChunkInv
<1>1. call \in N!Call /\ call # N!Idle
  <2>1. counts[k] \in Int /\ Len(chunks) \in Int BY <1>0 DEF N!TypeOK, N!Chunking
  <2>2. Len(chunks) .. counts[k] - 1 \in SUBSET Int BY <2>1
  <2> QED BY <2>2 DEF N!Call, N!Idle
<1>2. /\ task'[w] = call /\ \A v \in Workers \ {w} : task'[v] = task[v]
      /\ settled'[k] = None /\ \A j \in Keys \ {k} : settled'[j] = settled[j]
  BY <1>0 DEF N!TypeOK
<1>3. \A v \in Workers : task[v] # N!Idle => task[v].key # k /\ v # w
  BY DEF N!Free, N!CallersTakeTurns
<1>4. N!TypeOK' BY <1>0, <1>1 DEF N!TypeOK
<1>5. ~N!InFlight(k) BY <1>3 DEF N!InFlight
<1>6. \A i \in 0 .. N!MaxChunks - 1 : index[N!chunk_key(k, i)] # None =>
          i < counts[k] /\ (i < Len(chunks) \/ i \in call.left)
  <2>1. counts[k] \in Int /\ Len(chunks) \in Int BY <1>0 DEF N!TypeOK, N!Chunking
  <2>2. call.left = Len(chunks) .. counts[k] - 1 OBVIOUS
  <2>3. N!MaxChunks \in Nat BY DEF N!KnowledgeAssumption
  <2> HIDE DEF call
  <2> QED BY <1>5, <2>1, <2>2, <2>3 DEF N!ChunkInv, N!RestIsAccounted
<1>7. call.key = k /\ call.pc = "trim" /\ call.chunks = chunks OBVIOUS
<1> HIDE DEF call
<1>8. N!OneCallAtATime' BY <1>2, <1>3, <1>7 DEF N!ChunkInv, N!OneCallAtATime
<1>9. N!CallsAreAccounted'
  <2> SUFFICES ASSUME NEW v \in Workers, task'[v] # N!Idle PROVE N!Accounted(task[v])'
    BY DEF N!CallsAreAccounted
  <2>1. CASE v = w BY <1>2, <1>6, <1>7, <2>1 DEF N!Accounted
  <2>2. CASE v # w
    <3>1. task'[v] = task[v] /\ task[v].key # k /\ task[v].key \in Keys
      BY <1>0, <1>2, <1>3, <2>2, CallIsNotIdle DEF N!Call
    <3>2. settled'[task[v].key] = settled[task[v].key] BY <1>2, <3>1
    <3> QED BY <3>1, <3>2, AccountsStay DEF N!ChunkInv, N!CallsAreAccounted
  <2> QED BY <2>1, <2>2
<1>10. N!RestIsAccounted'
  <2>1. \A j \in Keys : N!InFlight(j) => N!InFlight(j)' BY <1>2, <1>3 DEF N!InFlight
  <2> QED BY <2>1 DEF N!ChunkInv, N!RestIsAccounted
<1>11. N!SettledHolds' BY <1>2 DEF N!ChunkInv, N!SettledHolds, N!Holds
<1> QED BY <1>4, <1>8, <1>9, <1>10, <1>11 DEF N!ChunkInv

\* A call ends, well or not, if the count then reaches every chunk and what is promised
\* of the record is there.
LEMMA CallEnds ==
    ASSUME N!KnowledgeAssumption, N!ChunkInv, NEW w \in Workers, task[w] # N!Idle,
           task' = [task EXCEPT ![w] = N!Idle],
           UNCHANGED <<records, index>>,
           counts' \in [Keys -> Int], settled' \in [Keys -> N!Chunking \cup {None}],
           \A j \in Keys : j # task[w].key => counts'[j] = counts[j] /\ settled'[j] = settled[j],
           \A i \in 0 .. N!MaxChunks - 1 :
               index[N!chunk_key(task[w].key, i)] # None => i < counts'[task[w].key],
           settled'[task[w].key] # None => N!Holds(task[w].key, settled'[task[w].key])
    PROVE  N!ChunkInv'
<1>0. N!TypeOK BY DEF N!ChunkInv
<1>1. task'[w] = N!Idle /\ \A v \in Workers \ {w} : task'[v] = task[v] BY <1>0 DEF N!TypeOK
<1>2. N!TypeOK' BY <1>0 DEF N!TypeOK
<1>3. \A v \in Workers \ {w} : task[v] # N!Idle => task[v].key # task[w].key /\ task[v].key \in Keys
  BY <1>0, CallIsNotIdle DEF N!ChunkInv, N!OneCallAtATime, N!Call
<1>4. N!OneCallAtATime' BY <1>1 DEF N!ChunkInv, N!OneCallAtATime
<1>5. N!CallsAreAccounted'
  <2> SUFFICES ASSUME NEW v \in Workers, task'[v] # N!Idle PROVE N!Accounted(task[v])'
    BY DEF N!CallsAreAccounted
  <2>1. v # w /\ task'[v] = task[v] BY <1>1
  <2>2. task[v].key # task[w].key /\ task[v].key \in Keys BY <1>3, <2>1
  <2>3. counts'[task[v].key] = counts[task[v].key] /\ settled'[task[v].key] = settled[task[v].key]
    BY <2>2
  <2> QED BY <2>1, <2>3, AccountsStay DEF N!ChunkInv, N!CallsAreAccounted
<1>6. N!RestIsAccounted'
  <2> SUFFICES ASSUME NEW j \in Keys, ~N!InFlight(j)', NEW i \in 0 .. N!MaxChunks - 1,
                      index[N!chunk_key(j, i)] # None
               PROVE  i < counts'[j]
    BY DEF N!RestIsAccounted
  <2>1. CASE j = task[w].key BY <2>1
  <2>2. CASE j # task[w].key
    <3>1. ~N!InFlight(j) BY <1>1, <2>2 DEF N!InFlight
    <3> QED BY <2>2, <3>1 DEF N!ChunkInv, N!RestIsAccounted
  <2> QED BY <2>1, <2>2
<1>7. N!SettledHolds'
  <2> SUFFICES ASSUME NEW j \in Keys, settled'[j] # None PROVE N!Holds(j, settled'[j])
    BY DEF N!SettledHolds, N!Holds
  <2>1. CASE j = task[w].key BY <2>1
  <2>2. CASE j # task[w].key BY <2>2 DEF N!ChunkInv, N!SettledHolds
  <2> QED BY <2>1, <2>2
<1> QED BY <1>2, <1>4, <1>5, <1>6, <1>7 DEF N!ChunkInv

\* A call's next step touches chunks of its own record only.
LEMMA CallGoesOn ==
    ASSUME N!KnowledgeAssumption, N!ChunkInv, NEW w \in Workers, task[w] # N!Idle,
           task'[w] \in N!Call, task'[w].key = task[w].key,
           task' = [task EXCEPT ![w] = task'[w]],
           index' \in [N!ChunkKeys -> Int \cup {None}],
           \A j \in Keys : j # task[w].key => \A i \in 0 .. N!MaxChunks - 1 :
               index'[N!chunk_key(j, i)] = index[N!chunk_key(j, i)],
           UNCHANGED <<records, counts, settled>>,
           N!Accounted(task[w])'
    PROVE  N!ChunkInv'
<1> DEFINE me == task'[w]
<1>0. N!TypeOK /\ me.key \in Keys /\ me # N!Idle BY DEF N!ChunkInv, N!Call, N!Idle
<1>1. task'[w] = me /\ \A v \in Workers \ {w} : task'[v] = task[v] BY <1>0 DEF N!TypeOK
<1>2. N!TypeOK' BY <1>0 DEF N!TypeOK
<1>3. \A v \in Workers \ {w} : task[v] # N!Idle => task[v].key # me.key /\ task[v].key \in Keys
  BY <1>0, CallIsNotIdle DEF N!ChunkInv, N!OneCallAtATime, N!Call
<1>4. N!OneCallAtATime' BY <1>1, <1>3 DEF N!ChunkInv, N!OneCallAtATime
<1>5. N!CallsAreAccounted'
  <2> SUFFICES ASSUME NEW v \in Workers, task'[v] # N!Idle PROVE N!Accounted(task[v])'
    BY DEF N!CallsAreAccounted
  <2>1. CASE v = w BY <2>1
  <2>2. CASE v # w
    <3>1. task'[v] = task[v] /\ task[v].key # me.key /\ task[v].key \in Keys BY <1>1, <1>3, <2>2
    <3> QED BY <3>1, AccountsStay DEF N!ChunkInv, N!CallsAreAccounted
  <2> QED BY <2>1, <2>2
<1>6. N!RestIsAccounted'
  <2> SUFFICES ASSUME NEW j \in Keys, ~N!InFlight(j)', NEW i \in 0 .. N!MaxChunks - 1,
                      index'[N!chunk_key(j, i)] # None
               PROVE  i < counts[j]
    BY DEF N!RestIsAccounted
  <2>1. ~N!InFlight(j) /\ j # me.key BY <1>0, <1>1 DEF N!InFlight
  <2> QED BY <2>1 DEF N!ChunkInv, N!RestIsAccounted
<1>7. N!SettledHolds'
  <2>1. settled[me.key] = None BY DEF N!ChunkInv, N!CallsAreAccounted, N!Accounted
  <2> QED BY <2>1 DEF N!ChunkInv, N!SettledHolds, N!Holds
<1> QED BY <1>2, <1>4, <1>5, <1>6, <1>7 DEF N!ChunkInv

\* A call that ends well remembers exactly the chunks the index holds.
LEMMA CallFinishes ==
    ASSUME N!KnowledgeAssumption, N!ChunkInv, NEW w \in Workers, task[w] # N!Idle,
           N!Holds(task[w].key, task[w].chunks),
           task' = [task EXCEPT ![w] = N!Idle],
           counts' = [counts EXCEPT ![task[w].key] = Len(task[w].chunks)],
           settled' = [settled EXCEPT ![task[w].key] = task[w].chunks],
           UNCHANGED <<records, index>>
    PROVE  N!ChunkInv'
<1> DEFINE k == task[w].key  chunks == task[w].chunks
<1>1. N!TypeOK BY DEF N!ChunkInv
<1>2. k \in Keys /\ chunks \in N!Chunking BY <1>1, CallIsNotIdle DEF N!Call
<1>3. Len(chunks) \in Int BY <1>2 DEF N!Chunking
<1>4. /\ counts' \in [Keys -> Int] /\ counts'[k] = Len(chunks)
      /\ settled' \in [Keys -> N!Chunking \cup {None}] /\ settled'[k] = chunks
      /\ \A j \in Keys : j # k => counts'[j] = counts[j] /\ settled'[j] = settled[j]
  BY <1>1, <1>2, <1>3 DEF N!TypeOK
<1>5. \A i \in 0 .. N!MaxChunks - 1 : index[N!chunk_key(k, i)] # None => i < counts'[k]
  BY <1>4 DEF N!Holds
<1> QED BY <1>4, <1>5, CallEnds

\* Opening the index counts past the highest ordinal it holds.
LEMMA RebuiltReaches ==
    ASSUME N!KnowledgeAssumption, N!TypeOK, NEW k \in Keys
    PROVE  /\ N!Rebuilt[k] \in Int
           /\ \A i \in 0 .. N!MaxChunks - 1 : index[N!chunk_key(k, i)] # None => i < N!Rebuilt[k]
<1> DEFINE S == {c[2] : c \in N!ChunksOf(k)}
           top == CHOOSE o \in S : \A c \in N!ChunksOf(k) : c[2] <= o
<1>1. N!Rebuilt[k] = IF N!ChunksOf(k) = {} THEN 0 ELSE 1 + top BY DEF N!Rebuilt
<1>2. \A i \in 0 .. N!MaxChunks - 1 : index[N!chunk_key(k, i)] # None =>
          N!chunk_key(k, i) \in N!ChunksOf(k) /\ N!chunk_key(k, i)[2] = i
  BY ChunksByOrdinal DEF N!chunk_key
<1>3. CASE N!ChunksOf(k) = {} BY <1>1, <1>2, <1>3
<1>4. CASE N!ChunksOf(k) # {}
  <2>1. \A o \in S : o \in 0 .. N!MaxChunks BY ChunksByOrdinal DEF N!chunk_key, N!KnowledgeAssumption
  <2>2. S \in SUBSET (0 .. N!MaxChunks) /\ S # {} BY <1>4, <2>1
  <2>3. \E o \in S : \A j \in S : j <= o
    BY <2>2, GreatestOrdinal DEF N!KnowledgeAssumption
  <2>4. \E o \in S : \A c \in N!ChunksOf(k) : c[2] <= o BY <2>3
  <2>5. top \in S /\ \A c \in N!ChunksOf(k) : c[2] <= top BY <2>4
  <2>6. top \in Int BY <2>1, <2>5
  <2> HIDE DEF top, S
  <2>7. N!Rebuilt[k] = 1 + top BY <1>1, <1>4
  <2>8. ASSUME NEW i \in 0 .. N!MaxChunks - 1, index[N!chunk_key(k, i)] # None PROVE i < N!Rebuilt[k]
    <3>1. i <= top BY <1>2, <2>5, <2>8
    <3>2. i \in Int BY DEF N!KnowledgeAssumption
    <3> QED BY <2>6, <2>7, <3>1, <3>2
  <2> QED BY <2>6, <2>7, <2>8
<1> QED BY <1>3, <1>4

\* Every step keeps the invariant.
LEMMA AccountsStep ==
    ASSUME N!KnowledgeAssumption, N!CallersTakeTurns, N!ChunkInv, [N!Next]_N!vars
    PROVE  N!ChunkInv'
<1>0. N!TypeOK /\ N!MaxChunks \in Nat BY DEF N!ChunkInv, N!KnowledgeAssumption
<1>1. ASSUME NEW k \in Keys, NEW d \in Docs \cup {None}, N!Edit(k, d) PROVE N!ChunkInv'
  <2>1. UNCHANGED <<index, counts, task, settled>> BY <1>1 DEF N!Edit
  <2>2. N!TypeOK' BY <1>0, <1>1, <2>1 DEF N!Edit, N!TypeOK
  <2> QED BY <2>1, <2>2 DEF N!ChunkInv, N!OneCallAtATime, N!CallsAreAccounted, N!Accounted, N!Holds,
                            N!RestIsAccounted, N!InFlight, N!SettledHolds
<1>2. ASSUME NEW w \in Workers, NEW k \in Keys, N!IngestRead(w, k) PROVE N!ChunkInv'
  <2>1. N!chunk(records[k]) \in N!Chunking
    BY <1>0, <1>2 DEF N!IngestRead, N!TypeOK, N!KnowledgeAssumption
  <2> QED BY <1>2, <2>1, CallBegins DEF N!IngestRead
<1>3. ASSUME NEW w \in Workers, NEW k \in Keys, N!RemoveRead(w, k) PROVE N!ChunkInv'
  <2>1. <<>> \in N!Chunking /\ Len(<<>>) = 0 BY <1>0 DEF N!Chunking
  <2> QED BY <1>3, <2>1, CallBegins DEF N!RemoveRead
<1>4. ASSUME NEW w \in Workers, task[w].pc = "trim", N!Fails(w), UNCHANGED <<records, index, counts, settled>>
      PROVE  N!ChunkInv'
  <2>1. task[w] # N!Idle /\ task[w] \in N!Call BY <1>0, <1>4, CallIsNotIdle
  <2>2. N!Accounted(task[w]) BY <2>1 DEF N!ChunkInv, N!CallsAreAccounted
  <2>3. task' = [task EXCEPT ![w] = N!Idle] BY <1>4 DEF N!Fails
  <2>4. counts \in [Keys -> Int] /\ settled \in [Keys -> N!Chunking \cup {None}] BY <1>0 DEF N!TypeOK
  <2>5. settled[task[w].key] = None BY <2>2 DEF N!Accounted
  <2>6. \A i \in 0 .. N!MaxChunks - 1 : index[N!chunk_key(task[w].key, i)] # None => i < counts[task[w].key]
    BY <1>4, <2>2 DEF N!Accounted
  <2> QED BY <1>4, <2>1, <2>3, <2>4, <2>5, <2>6, CallEnds
<1>5. ASSUME NEW w \in Workers, N!Trim(w) PROVE N!ChunkInv'
  <2> DEFINE k == task[w].key
             o == CHOOSE n \in task[w].left : \A m \in task[w].left : n <= m
             me == [task[w] EXCEPT !.left = @ \ {o}]
  <2>1. task[w].pc = "trim" BY <1>5 DEF N!Trim
  <2>2. task[w] # N!Idle /\ task[w] \in N!Call BY <1>0, <2>1, CallIsNotIdle
  <2>3. N!Accounted(task[w]) BY <2>2 DEF N!ChunkInv, N!CallsAreAccounted
  <2>4. CASE /\ index' = [index EXCEPT ![N!chunk_key(k, o)] = None]
             /\ task' = [task EXCEPT ![w].left = @ \ {o}]
             /\ UNCHANGED <<records, counts, settled>>
    <3> HIDE DEF o
    <3>1. task' = [task EXCEPT ![w] = me] BY <1>0, <2>4 DEF N!TypeOK
    <3>2. /\ me \in N!Call /\ me.key = k /\ me.pc = "trim" /\ me.chunks = task[w].chunks
          /\ me.left = task[w].left \ {o}
      BY <2>1, <2>2 DEF N!Call
    <3> HIDE DEF me
    <3>3. index' \in [N!ChunkKeys -> Int \cup {None}] BY <1>0, <2>4 DEF N!TypeOK
    <3>4. \A j \in Keys : \A i \in 0 .. N!MaxChunks - 1 : j # k \/ i # o =>
              index'[N!chunk_key(j, i)] = index[N!chunk_key(j, i)]
      BY <1>0, <2>4, ChunkKeysAre DEF N!TypeOK, N!chunk_key
    <3>5. k \in Keys BY <2>2 DEF N!Call
    <3>6. ASSUME NEW i \in 0 .. N!MaxChunks - 1, index'[N!chunk_key(k, i)] # None
          PROVE  i # o /\ index[N!chunk_key(k, i)] # None
      BY <1>0, <2>4, <3>4, <3>5, <3>6, ChunkKeysAre DEF N!TypeOK
    <3>7. task'[w] = me BY <1>0, <3>1 DEF N!TypeOK
    <3>8. N!Accounted(task[w])' BY <2>1, <2>3, <2>4, <3>2, <3>6, <3>7 DEF N!Accounted
    <3>9. task'[w] \in N!Call /\ task'[w].key = task[w].key /\ task' = [task EXCEPT ![w] = task'[w]]
      BY <3>1, <3>2, <3>7
    <3>10. \A j \in Keys : j # task[w].key => \A i \in 0 .. N!MaxChunks - 1 :
               index'[N!chunk_key(j, i)] = index[N!chunk_key(j, i)]
      BY <3>4
    <3>11. task[w] # N!Idle /\ UNCHANGED <<records, counts, settled>> BY <2>2, <2>4
    <3> HIDE DEF k
    <3> QED BY <3>3, <3>8, <3>9, <3>10, <3>11, CallGoesOn
  <2>5. CASE N!Fails(w) /\ UNCHANGED <<records, index, counts, settled>> BY <1>4, <2>1, <2>5
  <2> QED BY <1>5, <2>4, <2>5 DEF N!Trim
<1>6. ASSUME NEW w \in Workers, N!Upsert(w) PROVE N!ChunkInv'
  <2> DEFINE k == task[w].key
             chunks == task[w].chunks
             written == [c \in N!ChunkKeys |-> IF c[1] = k /\ c[2] < Len(chunks)
                                               THEN chunks[c[2] + 1] ELSE index[c]]
             me == [task[w] EXCEPT !.pc = "count"]
  <2>1. task[w].pc = "trim" /\ task[w].left = {} BY <1>6 DEF N!Upsert
  <2>2. task[w] # N!Idle /\ task[w] \in N!Call BY <1>0, <2>1, CallIsNotIdle
  <2>3. N!Accounted(task[w]) BY <2>2 DEF N!ChunkInv, N!CallsAreAccounted
  <2>4. k \in Keys /\ chunks \in Seq(Int) BY <2>2 DEF N!Call, N!Chunking
  <2>5. CASE /\ index' = written /\ task' = [task EXCEPT ![w].pc = "count"]
             /\ UNCHANGED <<records, counts, settled>>
    <3>1. task' = [task EXCEPT ![w] = me] BY <1>0, <2>5 DEF N!TypeOK
    <3>2. me \in N!Call /\ me.key = k /\ me.pc = "count" /\ me.chunks = chunks
      BY <2>2 DEF N!Call
    <3> HIDE DEF me
    <3>3. index' \in [N!ChunkKeys -> Int \cup {None}]
      <4>1. \A c \in N!ChunkKeys : c[2] \in Nat BY <2>4, ChunkKeysAre, <1>0
      <4>2. \A c \in N!ChunkKeys : c[2] < Len(chunks) => chunks[c[2] + 1] \in Int BY <2>4, <4>1
      <4> QED BY <1>0, <2>5, <4>2 DEF N!TypeOK
    <3>4. \A j \in Keys : \A i \in 0 .. N!MaxChunks - 1 :
              index'[N!chunk_key(j, i)] = IF j = k /\ i < Len(chunks) THEN chunks[i + 1]
                                          ELSE index[N!chunk_key(j, i)]
      BY <2>5, ChunkKeysAre DEF N!chunk_key
    <3>5. \A i \in 0 .. N!MaxChunks - 1 : ~(i < Len(chunks)) => index[N!chunk_key(k, i)] = None
      BY <2>1, <2>3 DEF N!Accounted
    <3>6. task'[w] = me BY <1>0, <3>1 DEF N!TypeOK
    <3> HIDE DEF written
    <3>7. N!Accounted(task[w])' BY <2>3, <2>4, <2>5, <3>2, <3>4, <3>5, <3>6 DEF N!Accounted, N!Holds
    <3>8. task'[w] \in N!Call /\ task'[w].key = task[w].key /\ task' = [task EXCEPT ![w] = task'[w]]
      BY <3>1, <3>2, <3>6
    <3>9. \A j \in Keys : j # task[w].key => \A i \in 0 .. N!MaxChunks - 1 :
              index'[N!chunk_key(j, i)] = index[N!chunk_key(j, i)]
      BY <3>4
    <3> QED BY <2>2, <2>5, <3>3, <3>7, <3>8, <3>9, CallGoesOn
  <2>6. CASE N!Fails(w) /\ UNCHANGED <<records, index, counts, settled>> BY <1>4, <2>1, <2>6
  <2> QED BY <1>6, <2>5, <2>6 DEF N!Upsert, N!CallersTakeTurns
<1>7. ASSUME NEW w \in Workers, N!Count(w) PROVE N!ChunkInv'
  <2>1. task[w] # N!Idle /\ task[w] \in N!Call BY <1>0, <1>7, CallIsNotIdle DEF N!Count
  <2>2. N!Accounted(task[w]) BY <2>1 DEF N!ChunkInv, N!CallsAreAccounted
  <2>3. N!Holds(task[w].key, task[w].chunks) BY <1>7, <2>2 DEF N!Count, N!Accounted
  <2> QED BY <1>0, <1>7, <2>1, <2>3, CallFinishes DEF N!Count
<1>8. ASSUME NEW w \in Workers, N!Forget(w) PROVE N!ChunkInv'
  <2>1. task[w] # N!Idle /\ task[w] \in N!Call BY <1>0, <1>8, CallIsNotIdle DEF N!Forget
  <2>2. N!Accounted(task[w]) BY <2>1 DEF N!ChunkInv, N!CallsAreAccounted
  <2>3. task[w].chunks = <<>> /\ task[w].left = {} /\ task[w].pc = "trim" /\ Len(<<>>) = 0
    BY <1>8 DEF N!Forget
  <2>4. N!Holds(task[w].key, task[w].chunks) BY <1>0, <2>2, <2>3 DEF N!Accounted, N!Holds
  <2> QED BY <1>0, <1>8, <2>1, <2>3, <2>4, CallFinishes DEF N!Forget
<1>9. CASE N!Restart
  <2>1. task' = [w \in Workers |-> N!Idle] /\ counts' = N!Rebuilt /\ UNCHANGED <<records, index>>
    BY <1>9 DEF N!Restart
  <2>2. settled' \in [Keys -> N!Chunking \cup {None}] /\ \A k \in Keys : settled'[k] \in {None, settled[k]}
    BY <1>0, <1>9 DEF N!Restart, N!TypeOK
  <2>3. N!Rebuilt \in [Keys -> Int]
    <3>1. N!Rebuilt = [k \in Keys |-> N!Rebuilt[k]] BY DEF N!Rebuilt
    <3> QED BY <1>0, <3>1, RebuiltReaches
  <2>4. N!TypeOK' BY <1>0, <2>1, <2>2, <2>3 DEF N!TypeOK
  <2>5. N!RestIsAccounted' BY <1>0, <2>1, RebuiltReaches DEF N!RestIsAccounted
  <2>6. N!SettledHolds' BY <2>1, <2>2 DEF N!ChunkInv, N!SettledHolds, N!Holds
  <2>7. \A w \in Workers : task'[w] = N!Idle BY <2>1
  <2> QED BY <2>4, <2>5, <2>6, <2>7 DEF N!ChunkInv, N!OneCallAtATime, N!CallsAreAccounted
<1>10. CASE UNCHANGED N!vars
  BY <1>10 DEF N!vars, N!ChunkInv, N!TypeOK, N!OneCallAtATime, N!CallsAreAccounted, N!Accounted, N!Holds,
                N!RestIsAccounted, N!InFlight, N!SettledHolds
<1> QED BY <1>1, <1>2, <1>3, <1>5, <1>6, <1>7, <1>8, <1>9, <1>10 DEF N!Next

\* Every behaviour of the knowledge store keeps the inductive invariant.
THEOREM ChunksInvariant ==
    ASSUME N!KnowledgeAssumption, N!CallersTakeTurns
    PROVE  N!Spec => []N!ChunkInv
<1>1. N!Init => N!ChunkInv BY AccountsInit
<1>2. N!ChunkInv /\ [N!Next]_N!vars => N!ChunkInv' BY AccountsStep
<1> QED BY <1>1, <1>2, PTL DEF N!Spec

\* For any records, tasks, failures and restarts, the remembered count reaches every chunk
\* of a record at rest, and a call that succeeded left exactly the chunks of the record it
\* read: no orphan is ever out of the reach of the next call (#150).
THEOREM ChunksStayAccounted ==
    ASSUME N!KnowledgeAssumption, N!CallersTakeTurns
    PROVE  N!Spec => []ChunksAreAccounted
<1>1. N!ChunkInv => ChunksAreAccounted BY AccountsHold DEF ChunksAreAccounted
<1> QED BY <1>1, ChunksInvariant, PTL
=============================================================================
