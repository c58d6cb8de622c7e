------------------------------ MODULE Knowledge ------------------------------
(***************************************************************************)
(* The knowledge store (gonzalo-knowledge: lib.rs): records split into      *)
(* chunks, the chunks embedded and kept in a vector index under keys made    *)
(* of the record's key and the chunk's ordinal, and queries that fold       *)
(* chunk matches back into records.                                         *)
(*                                                                         *)
(* A text is the score it has against the one query asked, so the index     *)
(* maps a chunk key to a number.  How many chunks a record left in the       *)
(* index is remembered in memory only; calls read that count, let go of its  *)
(* lock and act on it over several awaits.                                  *)
(***************************************************************************)
EXTENDS Integers, Sequences, FiniteSets, SequencesExt

CONSTANTS None,
          Keys,          \* record keys; numbers, so that they have an order
          Docs,          \* the records users may store: [kind, header, pieces]
          Workers,       \* tasks that call ingest and remove
          Overfetch,     \* OVERFETCH
          MaxHits,       \* the largest k a query asks for
          Habits,        \* "overlap": two calls on one key at once;
                         \* "ambiguous": a failed index write may have been carried out
          MaxEdits, MaxFaults

VARIABLES records,       \* the record store: key -> None or a record
          index,         \* the vector index: chunk key -> score
          counts,        \* chunk_counts
          task,          \* worker -> the call it is making
          settled,       \* history: key -> the chunks its last call left, None if it failed
          edits, faults

vars == <<records, index, counts, task, settled, edits, faults>>

(***************************************************************************)
(* Chunking                                                                *)
(***************************************************************************)

Best(a, b) == IF a > b THEN a ELSE b

\* The header is folded into the first piece, or stands alone.
prepend_header(header, pieces) ==
    IF pieces = <<>> THEN <<header>> ELSE <<Best(header, pieces[1])>> \o Tail(pieces)

KnowledgeKinds == {"MemoryTier", "Topic", "Session", "Ticket", "TicketEvent"}

\* None: the kind bears no knowledge.
chunk(record) ==
    CASE record.kind \in {"MemoryTier", "Topic", "Session"} ->
            prepend_header(record.header, record.pieces)
      [] record.kind = "Ticket"      -> <<record.header>> \o record.pieces
      [] record.kind = "TicketEvent" -> <<record.header>>
      [] OTHER -> None

chunk_key(key, ordinal) == <<key, ordinal>>
parent_key(chunkKey) == chunkKey[1]

MaxChunks == CHOOSE n \in 0 .. 9 :
    /\ \A d \in Docs : d.kind \in KnowledgeKinds => Len(chunk(d)) <= n
    /\ \E d \in Docs : d.kind \in KnowledgeKinds /\ Len(chunk(d)) = n
ChunkKeys == Keys \X (0 .. MaxChunks - 1)

Indexed(c) == index[c] # None
Chunks == {c \in DOMAIN index : Indexed(c)}
ChunksOf(key) == {c \in Chunks : parent_key(c) = key}

(***************************************************************************)
(* The store's life: open, and the records under it                        *)
(***************************************************************************)

Idle == [pc |-> "idle"]

Init == /\ records = [k \in Keys |-> None]
        /\ index = [c \in ChunkKeys |-> None]
        /\ counts = [k \in Keys |-> 0]
        /\ task = [w \in Workers |-> Idle]
        /\ settled = [k \in Keys |-> <<>>]
        /\ edits = 0 /\ faults = 0

\* Users put and delete records as they like.
Edit(k, d) ==
    /\ edits < MaxEdits /\ d # records[k]
    /\ records' = [records EXCEPT ![k] = d] /\ edits' = edits + 1
    /\ UNCHANGED <<index, counts, task, settled, faults>>

\* One past the highest ordinal the index holds.
Rebuilt == [k \in Keys |->
    IF ChunksOf(k) = {} THEN 0
    ELSE 1 + CHOOSE o \in {c[2] : c \in ChunksOf(k)} : \A c \in ChunksOf(k) : c[2] <= o]

\* The process dies and opens the durable index again; what was under way is lost.
Restart ==
    /\ faults < MaxFaults /\ faults' = faults + 1
    /\ counts' = Rebuilt
    /\ task' = [w \in Workers |-> Idle]
    /\ settled' = [k \in Keys |-> IF \E w \in Workers : task[w] # Idle /\ task[w].key = k
                                  THEN None ELSE settled[k]]
    /\ UNCHANGED <<records, index, edits>>

(***************************************************************************)
(* ingest and remove                                                       *)
(***************************************************************************)

Free(w, k) == /\ task[w] = Idle
              /\ \/ "overlap" \in Habits
                 \/ \A v \in Workers : task[v] # Idle => task[v].key # k

\* Mutant: the first orphan is taken for a chunk of the record.
IngestReadShort(w, k) ==
    /\ Free(w, k) /\ records[k] # None /\ chunk(records[k]) # None
    /\ LET chunks == chunk(records[k]) IN
       task' = [task EXCEPT ![w] = [pc |-> "trim", key |-> k, chunks |-> chunks,
                                    left |-> Len(chunks) + 1 .. counts[k] - 1]]
    /\ settled' = [settled EXCEPT ![k] = None]
    /\ UNCHANGED <<records, index, counts, edits, faults>>

\* The record is read and chunked and the old count looked up.  An absent record and one
\* that bears no knowledge end the call; nothing is removed then.
IngestRead(w, k) ==
    /\ Free(w, k) /\ records[k] # None /\ chunk(records[k]) # None
    /\ LET chunks == chunk(records[k]) IN
       task' = [task EXCEPT ![w] = [pc |-> "trim", key |-> k, chunks |-> chunks,
                                    left |-> Len(chunks) .. counts[k] - 1]]
    /\ settled' = [settled EXCEPT ![k] = None]
    /\ UNCHANGED <<records, index, counts, edits, faults>>

\* remove looks the count up; every ordinal below it is to go.
RemoveRead(w, k) ==
    /\ Free(w, k)
    /\ task' = [task EXCEPT ![w] = [pc |-> "trim", key |-> k, chunks |-> <<>>,
                                    left |-> 0 .. counts[k] - 1]]
    /\ settled' = [settled EXCEPT ![k] = None]
    /\ UNCHANGED <<records, index, counts, edits, faults>>

\* An index write or an embedding fails: the call returns its error.
Fails(w) == /\ faults < MaxFaults /\ faults' = faults + 1
            /\ task' = [task EXCEPT ![w] = Idle]

\* One orphan at a time, lowest first, each an index write of its own.
Trim(w) ==
    LET me == task[w]
        o  == CHOOSE n \in me.left : \A m \in me.left : n <= m
    IN  /\ me.pc = "trim" /\ me.left # {}
        /\ \/ /\ index' = [index EXCEPT ![chunk_key(me.key, o)] = None]
              /\ task' = [task EXCEPT ![w].left = @ \ {o}]
              /\ UNCHANGED faults
           \/ Fails(w) /\ UNCHANGED index
        /\ UNCHANGED <<records, counts, settled, edits>>

\* Every chunk is embedded, then all are written in one batch.
Upsert(w) ==
    LET me == task[w]
        written == [c \in ChunkKeys |-> IF c[1] = me.key /\ c[2] < Len(me.chunks)
                                        THEN me.chunks[c[2] + 1] ELSE index[c]]
    IN  /\ me.pc = "trim" /\ me.left = {} /\ me.chunks # <<>>
        /\ \/ index' = written /\ task' = [task EXCEPT ![w].pc = "count"] /\ UNCHANGED faults
           \/ /\ Fails(w)
              /\ index' \in {index} \cup (IF "ambiguous" \in Habits THEN {written} ELSE {})
        /\ UNCHANGED <<records, counts, settled, edits>>

\* ingest remembers how many chunks it wrote.
Count(w) ==
    LET me == task[w] IN
    /\ me.pc = "count"
    /\ counts' = [counts EXCEPT ![me.key] = Len(me.chunks)]
    /\ task' = [task EXCEPT ![w] = Idle]
    /\ settled' = [settled EXCEPT ![me.key] = me.chunks]
    /\ UNCHANGED <<records, index, edits, faults>>

\* remove forgets the count.
Forget(w) ==
    LET me == task[w] IN
    /\ me.pc = "trim" /\ me.left = {} /\ me.chunks = <<>>
    /\ counts' = [counts EXCEPT ![me.key] = 0]
    /\ task' = [task EXCEPT ![w] = Idle]
    /\ settled' = [settled EXCEPT ![me.key] = <<>>]
    /\ UNCHANGED <<records, index, edits, faults>>

Next == \/ \E k \in Keys, d \in Docs \cup {None} : Edit(k, d)
        \/ \E w \in Workers, k \in Keys : IngestRead(w, k) \/ RemoveRead(w, k)
        \/ \E w \in Workers : Trim(w) \/ Upsert(w) \/ Count(w) \/ Forget(w)
        \/ Restart

Spec == Init /\ [][Next]_vars

(***************************************************************************)
(* query                                                                   *)
(***************************************************************************)

\* MemoryVectorIndex::query: descending by score, ties by key.
Ahead(c, d) == \/ index[c] > index[d]
               \/ index[c] = index[d] /\ (c[1] < d[1] \/ (c[1] = d[1] /\ c[2] < d[2]))
Matches(n) == {c \in Chunks : Cardinality({d \in Chunks : Ahead(d, c)}) < n}

\* Mutant: as many chunks as records are asked for.
FetchExactly(k) == Matches(k)

Fetched(k) == Matches(k * Overfetch)

BestScore(matched, key) ==
    index[CHOOSE c \in matched : c[1] = key /\ \A d \in matched : d[1] = key => ~Ahead(d, c)]

\* The matches folded into their records, ranked and cut off.  Each is then looked up in
\* the record store, and left out of the hits when it is gone.
Ranked(k) ==
    LET matched == Fetched(k)
        parents == {parent_key(c) : c \in matched}
        above(a, b) == \/ BestScore(matched, a) > BestScore(matched, b)
                       \/ BestScore(matched, a) = BestScore(matched, b) /\ a < b
        sorted == SetToSortSeq(parents, above)
    IN  SubSeq(sorted, 1, IF Len(sorted) < k THEN Len(sorted) ELSE k)

(***************************************************************************)
(* Properties                                                              *)
(***************************************************************************)

InFlight(k) == \E w \in Workers : task[w] # Idle /\ task[w].key = k

\* Whenever no call is under way on a record, the remembered count reaches past every chunk
\* the index holds of it: else no later ingest or remove would ever take those away (#150).
CountsReachEveryChunk ==
    \A k \in Keys : ~InFlight(k) => \A c \in ChunksOf(k) : c[2] < counts[k]

\* A call that succeeded leaves exactly the chunks it meant to: those of the record it read,
\* or none, whatever failed, shrank, grew or restarted before it.
SettledIsExact ==
    \A k \in Keys : settled[k] # None =>
        /\ ChunksOf(k) = {chunk_key(k, i - 1) : i \in 1 .. Len(settled[k])}
        /\ \A i \in 1 .. Len(settled[k]) : index[chunk_key(k, i - 1)] = settled[k][i]

TrueScore(key) == BestScore(Chunks, key)
Parents == {parent_key(c) : c \in Chunks}

\* The records a query ranks are the best ones: none it left out has a better chunk, and
\* they come in the order of their best chunks, though only the top chunks were looked at.
QueryRanksTheBest ==
    \A k \in 1 .. MaxHits : LET r == Ranked(k) IN
        /\ \A i \in 1 .. Len(r), p \in Parents \ ToSet(r) : TrueScore(r[i]) >= TrueScore(p)
        /\ \A i \in 1 .. Len(r) - 1 : TrueScore(r[i]) >= TrueScore(r[i + 1])

\* Fetching Overfetch chunks for every record asked for is enough: while no record has
\* more chunks than that, a query ranks k records or all there are.
QueryIsFull ==
    (\A p \in Parents : Cardinality(ChunksOf(p)) <= Overfetch) =>
        \A k \in 1 .. MaxHits : \/ Len(Ranked(k)) = k
                                \/ ToSet(Ranked(k)) = Parents

\* Every chunk in the index is accounted for, and those of a finished call are exact.
ChunksAreAccounted == CountsReachEveryChunk /\ SettledIsExact

\* A query gives as many records as asked for, and the best ones.
QueryFindsTheBest == QueryRanksTheBest /\ QueryIsFull

(***************************************************************************)
(* The inductive invariant.  A call under way knows every chunk the index    *)
(* holds of its record: it is about to be overwritten or left to be trimmed.  *)
(***************************************************************************)

Chunking == {s \in Seq(Int) : Len(s) <= MaxChunks}
Call == [pc : {"trim", "count"}, key : Keys, chunks : Chunking, left : SUBSET Int]

\* What the constants are; the modules that instantiate this one assume it.
KnowledgeAssumption ==
    /\ MaxChunks \in Nat /\ None \notin Int
    /\ \A d \in Docs : chunk(d) # None => chunk(d) \in Chunking

\* Callers ingest and remove one record one after the other, and a failed index write was
\* not carried out.
CallersTakeTurns == Habits \cap {"overlap", "ambiguous"} = {}

TypeOK == /\ records \in [Keys -> Docs \cup {None}]
          /\ index \in [ChunkKeys -> Int \cup {None}]
          /\ counts \in [Keys -> Int]
          /\ task \in [Workers -> {Idle} \cup Call]
          /\ settled \in [Keys -> Chunking \cup {None}]

\* No two calls are on one record.
OneCallAtATime ==
    \A v, w \in Workers : task[v] # Idle /\ task[w] # Idle /\ task[v].key = task[w].key => v = w

\* The index holds these chunks of a record, and no others.
Holds(k, chunks) ==
    \A i \in 0 .. MaxChunks - 1 :
        index[chunk_key(k, i)] = IF i < Len(chunks) THEN chunks[i + 1] ELSE None

\* What a call may rely on: until its batch is written, that the old count still reaches
\* every chunk and that those past its own are left to trim; after it, that only its own
\* are there.
Accounted(me) ==
    /\ settled[me.key] = None
    /\ me.pc = "count" => Holds(me.key, me.chunks)
    /\ me.pc = "trim" =>
          \A i \in 0 .. MaxChunks - 1 : index[chunk_key(me.key, i)] # None =>
              i < counts[me.key] /\ (i < Len(me.chunks) \/ i \in me.left)

CallsAreAccounted == \A w \in Workers : task[w] # Idle => Accounted(task[w])

RestIsAccounted ==
    \A k \in Keys : ~InFlight(k) =>
        \A i \in 0 .. MaxChunks - 1 : index[chunk_key(k, i)] # None => i < counts[k]

SettledHolds == \A k \in Keys : settled[k] # None => Holds(k, settled[k])

ChunkInv == TypeOK /\ OneCallAtATime /\ CallsAreAccounted /\ RestIsAccounted /\ SettledHolds
=============================================================================
