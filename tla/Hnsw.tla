-------------------------------- MODULE Hnsw --------------------------------
(***************************************************************************)
(* The approximate index (gonzalo-vector: hnsw.rs).  The graph underneath    *)
(* (the hnsw_rs crate) takes points and never gives one up, so a replaced or *)
(* removed entry stays in it as a tombstone until the graph is rebuilt, and  *)
(* a query asks for enough neighbours to see past the tombstones.            *)
(*                                                                         *)
(* A vector is its score against the query asked.  The graph's own search is  *)
(* taken to be exact: what is checked is the bookkeeping around it.           *)
(***************************************************************************)
EXTENDS Integers, Sequences, FiniteSets, FiniteSetsExt, SequencesExt

CONSTANTS None,
          Keys,                  \* record keys, as numbers: they have an order
          Scores,
          InitialCapacity,       \* INITIAL_CAPACITY
          MinRebuildTombstones,  \* MIN_REBUILD_TOMBSTONES
          Overfetch,             \* OVERFETCH
          MaxHits,               \* the largest k asked for
          MaxOps                 \* bound: upserts and removals

VARIABLES inner,                 \* the index under its lock
          wanted,                \* history: key -> the score last upserted, None if removed
          ops

vars == <<inner, wanted, ops>>

\* graph: id -> score of every point, dead ones included; entries: id_to_entry, id ->
\* [key, score]; ids: key_to_id.
Fresh(cap) == [graph |-> <<>>, entries |-> <<>>, ids |-> <<>>, next_id |-> 0,
               tombstones |-> 0, capacity |-> cap]

Drop(f, x) == [y \in DOMAIN f \ {x} |-> f[y]]
With(f, x, v) == [y \in DOMAIN f \cup {x} |-> IF y = x THEN v ELSE f[y]]
Greater(a, b) == IF a > b THEN a ELSE b
Lesser(a, b) == IF a < b THEN a ELSE b

InsertLive(i, key, score) ==
    [i EXCEPT !.graph   = With(@, i.next_id, score),
              !.entries = With(@, i.next_id, [key |-> key, score |-> score]),
              !.ids     = With(@, key, i.next_id),
              !.next_id = @ + 1]

RebuildNeeded(i) ==
    \/ /\ i.tombstones > Cardinality(DOMAIN i.entries)
       /\ i.tombstones > MinRebuildTombstones
    \/ i.next_id >= i.capacity

\* The live entries, in the arbitrary order the map drains in, under fresh ids.
Rebuilt(i, order) ==
    LET cap == Greater(2 * Len(order), InitialCapacity)
        from[n \in 0 .. Len(order)] ==
            IF n = 0 THEN Fresh(cap)
            ELSE InsertLive(from[n - 1], order[n].key, order[n].score)
    IN  from[Len(order)]

MaybeRebuild(i) ==
    IF RebuildNeeded(i)
    THEN {Rebuilt(i, order) : order \in SetToSeqs({i.entries[x] : x \in DOMAIN i.entries})}
    ELSE {i}

\* Mutant: the replaced point is not counted.
BuryUncounted(i, key) ==
    IF key \in DOMAIN i.ids
    THEN [i EXCEPT !.entries = Drop(@, i.ids[key]), !.ids = Drop(@, key)]
    ELSE i

\* The old id of a replaced or removed key becomes a tombstone.
Bury(i, key) ==
    IF key \in DOMAIN i.ids
    THEN [i EXCEPT !.entries = Drop(@, i.ids[key]), !.ids = Drop(@, key), !.tombstones = @ + 1]
    ELSE i

Init == /\ inner = Fresh(InitialCapacity)
        /\ wanted = [k \in Keys |-> None] /\ ops = 0

Upsert(key, score) ==
    /\ ops < MaxOps
    /\ inner' \in MaybeRebuild(InsertLive(Bury(inner, key), key, score))
    /\ wanted' = [wanted EXCEPT ![key] = score] /\ ops' = ops + 1

\* An absent key changes nothing and rebuilds nothing.
RemoveKey(key) ==
    /\ ops < MaxOps /\ key \in DOMAIN inner.ids
    /\ inner' \in MaybeRebuild(Bury(inner, key))
    /\ wanted' = [wanted EXCEPT ![key] = None] /\ ops' = ops + 1

Next == \E key \in Keys : RemoveKey(key) \/ \E score \in Scores : Upsert(key, score)

Spec == Init /\ [][Next]_vars

(***************************************************************************)
(* query                                                                   *)
(***************************************************************************)

Neighbours(k) ==
    LET live == Cardinality(DOMAIN inner.entries)
    IN  Greater(Lesser(k * Overfetch + inner.tombstones, live + inner.tombstones), k)

\* What the graph may return for n neighbours: n of the best points, ties broken any way.
Search(n) ==
    {found \in kSubset(Lesser(n, Cardinality(DOMAIN inner.graph)), DOMAIN inner.graph) :
        \A x \in found, y \in DOMAIN inner.graph \ found : inner.graph[x] >= inner.graph[y]}

\* Dead points are skipped; the rest is ordered by score, then by key, and cut at k.
Query(found, k) ==
    LET live == {inner.entries[x] : x \in found \cap DOMAIN inner.entries}
        ranked == SetToSortSeq(live, LAMBDA a, b : a.score > b.score \/ (a.score = b.score /\ a.key < b.key))
    IN  SubSeq(ranked, 1, Lesser(k, Len(ranked)))

(***************************************************************************)
(* Properties                                                              *)
(***************************************************************************)

\* However many points were replaced or removed, a query without a filter returns the
\* best k live scores, whichever of its equal points the graph prefers.
TopKIsExact ==
    \A k \in 1 .. MaxHits :
        LET live == {[key |-> key, score |-> wanted[key]] : key \in {x \in Keys : wanted[x] # None}}
            best == SetToSortSeq(live, LAMBDA a, b : a.score > b.score \/ (a.score = b.score /\ a.key < b.key))
        IN  \A found \in Search(Neighbours(k)) :
                LET hits == Query(found, k)
                IN  /\ Len(hits) = Lesser(k, Len(best))
                    /\ \A i \in 1 .. Len(hits) : hits[i] \in live /\ hits[i].score = best[i].score

\* Between two calls the graph has room for one more point, and every point in it is
\* a live entry or a counted tombstone.
PointsFitAndCount ==
    /\ inner.next_id < inner.capacity
    /\ DOMAIN inner.graph = 0 .. inner.next_id - 1
    /\ inner.next_id = Cardinality(DOMAIN inner.entries) + inner.tombstones

\* Replaced and removed points never show: the best are found and the graph has room.
SearchIsExact == TopKIsExact /\ PointsFitAndCount
=============================================================================
