--------------------------- MODULE RecordsProofs ---------------------------
(***************************************************************************)
(* What the planners and the calls that consult them preserve, for every    *)
(* body set, hash function and cap.                                         *)
(***************************************************************************)
EXTENDS StoreCalls, TLAPS, FiniteSetTheorems, WellFoundedInduction

\* fold_ancestors returns only revisions it was given, and never the stored one.
LEMMA FoldIsBounded ==
    ASSUME NEW stored, NEW incoming, NEW slot, NEW cap
    PROVE  FoldAncestors(stored, incoming, slot, cap)
              \subseteq (incoming \cup Lineage(slot)) \ {stored}
BY DEF FoldAncestors, Newest

\* Everything a slot's lineage holds is a revision, at most as new as the slot.
LEMMA LineageFacts ==
    ASSUME NEW slot \in Slot
    PROVE  /\ Lineage(slot) \subseteq Revision
           /\ slot # None /\ BehindItself(slot) =>
                 \A r \in Lineage(slot) : r.counter <= slot.revision.counter
BY NoneIsNotRecord DEF Lineage, Slot, Record, Revision, BehindItself

(***************************************************************************)
(* Truncation.  Newest keeps the entries with fewer than cap newer ones; the *)
(* lemmas say when it keeps everything and that what it dropped stays out.   *)
(***************************************************************************)

\* Every set of counters has a least one; this takes the place of induction on the
\* length of a list.
LEMMA LeastNat ==
    ASSUME NEW S, S \subseteq Nat, S # {}
    PROVE  \E m \in S : \A n \in S : m <= n
<1> DEFINE R == OpToRel(<, Nat)
<1>1. \E m \in S : \A n \in S : ~(<<n, m>> \in R)
  <2> HIDE DEF R
  <2>1. IsWellFoundedOn(R, Nat) BY NatLessThanWellFounded DEF R
  <2> QED BY <2>1, WFMin
<1>2. ASSUME NEW m \in S, NEW n \in S, ~(<<n, m>> \in R) PROVE m <= n
  BY <1>2 DEF OpToRel
<1> QED BY <1>1, <1>2


\* The entries of a list of revisions that come before r.
Above(revs, r) == {s \in revs : Newer(s, r)}

\* Truncating again changes nothing, even after some of the dropped entries have come
\* back: the newest of anything between a list and its truncation is the truncation.
LEMMA NewestOfBetween ==
    ASSUME NEW S, S \subseteq Revision, IsFiniteSet(S), NEW cap \in Nat,
           NEW T, Newest(S, cap) \subseteq T, T \subseteq S
    PROVE  Newest(T, cap) = Newest(S, cap)
<1> DEFINE N == Newest(S, cap)
           rank(r) == Cardinality(Above(S, r))
<1>0. /\ IsFiniteSet(T)
      /\ \A r : IsFiniteSet(Above(S, r)) /\ rank(r) \in Nat
      /\ \A r : IsFiniteSet(Above(T, r)) /\ Cardinality(Above(T, r)) <= rank(r)
      /\ \A r : Cardinality(Above(T, r)) \in Nat
  <2>1. IsFiniteSet(T) BY FS_Subset
  <2>2. ASSUME NEW r PROVE Above(S, r) \in SUBSET S /\ Above(T, r) \in SUBSET T /\ Above(T, r) \in SUBSET Above(S, r)
     BY DEF Above
  <2>3. ASSUME NEW r PROVE /\ IsFiniteSet(Above(S, r)) /\ IsFiniteSet(Above(T, r))
                           /\ rank(r) \in Nat /\ Cardinality(Above(T, r)) \in Nat
     BY <2>1, <2>2, FS_Subset, FS_CardinalityType
  <2>4. ASSUME NEW r PROVE Cardinality(Above(T, r)) <= rank(r)
     BY <2>2, <2>3, FS_Subset
  <2> QED BY <2>1, <2>3, <2>4
<1>1. N = {r \in S : rank(r) < cap} /\ Newest(T, cap) = {r \in T : Cardinality(Above(T, r)) < cap}
  BY DEF Newest, Above
<1>2. ASSUME NEW r \in N PROVE r \in Newest(T, cap)
  BY <1>0, <1>1
<1>3. ASSUME NEW r \in T, r \notin N PROVE r \notin Newest(T, cap)
  <2>1. r \in S /\ rank(r) >= cap BY <1>0, <1>1, <1>3
  <2> DEFINE X == {x \in S : x \notin N /\ (x = r \/ Newer(x, r))}
             ranks == {rank(x) : x \in X}
  <2>2. PICK x \in X : \A y \in X : rank(x) <= rank(y)
    <3>1. ranks \subseteq Nat /\ ranks # {} BY <1>0, <1>3
    <3>2. \E m \in ranks : \A n \in ranks : m <= n
      <4> HIDE DEF ranks
      <4> QED BY <3>1, LeastNat
    <3> QED BY <3>2
  <2>3. ASSUME NEW s \in Above(S, x) PROVE s \in N /\ s \in Above(T, r)
    <3>1. s \in S /\ s \in Revision /\ x \in Revision /\ r \in Revision /\ Newer(s, x) BY DEF Above
    <3>2. Newer(s, r) BY <3>1 DEF Newer, Revision
    <3>3. Above(S, s) \in SUBSET Above(S, x) BY <3>1 DEF Above, Newer, Revision
    <3>4. s \notin Above(S, s) BY <3>1 DEF Above, Newer, Revision
    <3>5. rank(s) < rank(x)
      <4>1. rank(s) <= rank(x) /\ (rank(x) = rank(s) => Above(S, s) = Above(S, x))
        BY <1>0, <3>3, FS_Subset
      <4> QED BY <1>0, <3>4, <4>1
    <3>6. s \in N BY <1>0, <2>2, <3>1, <3>2, <3>5
    <3> QED BY <3>2, <3>6 DEF Above
  <2>4. rank(x) <= Cardinality(Above(T, r))
    <3>1. Above(S, x) \in SUBSET Above(T, r) BY <2>3
    <3> QED BY <1>0, <3>1, FS_Subset
  <2>5. rank(x) >= cap BY <1>0, <1>1, <2>2
  <2> QED BY <1>0, <1>1, <2>4, <2>5
<1> QED BY <1>1, <1>2, <1>3

\* A list that is no longer than the cap is kept whole.
LEMMA NewestKeepsAll ==
    ASSUME NEW S, S \subseteq Revision, IsFiniteSet(S), NEW cap \in Nat, Cardinality(S) <= cap
    PROVE  Newest(S, cap) = S
<1> SUFFICES ASSUME NEW r \in S PROVE Cardinality(Above(S, r)) < cap
  BY DEF Newest, Above
<1>1. Above(S, r) \in SUBSET S /\ r \notin Above(S, r)
  BY DEF Above, Newer, Revision
<1>2. /\ IsFiniteSet(Above(S, r)) /\ Cardinality(Above(S, r)) <= Cardinality(S)
      /\ Cardinality(S) # Cardinality(Above(S, r))
  BY <1>1, FS_Subset
<1>3. Cardinality(S) \in Nat /\ Cardinality(Above(S, r)) \in Nat
  BY <1>2, FS_CardinalityType
<1> QED BY <1>2, <1>3

\* The chain of a record is a list: it is finite.
FiniteChain(slot) == slot # None => IsFiniteSet(slot.ancestors)

\* What a slot's lineage and a fold over it hold is finite too.
LEMMA FoldIsFinite ==
    ASSUME NEW stored, NEW incoming, IsFiniteSet(incoming), NEW slot, FiniteChain(slot), NEW cap
    PROVE  /\ IsFiniteSet(Lineage(slot))
           /\ IsFiniteSet((incoming \cup Lineage(slot)) \ {stored})
           /\ IsFiniteSet(FoldAncestors(stored, incoming, slot, cap))
<1>1. IsFiniteSet(Lineage(slot))
  <2>1. CASE slot = None BY <2>1, FS_EmptySet DEF Lineage
  <2>2. CASE slot # None
    <3>1. Lineage(slot) = slot.ancestors \cup {slot.revision} BY <2>2 DEF Lineage
    <3> QED BY <2>2, <3>1, FS_AddElement DEF FiniteChain
  <2> QED BY <2>1, <2>2
<1>2. IsFiniteSet((incoming \cup Lineage(slot)) \ {stored})
  BY <1>1, FS_Union, FS_RemoveElement
<1> QED BY <1>1, <1>2, FoldIsBounded, FS_Subset

\* fold_ancestors settles: folding a slot into a chain it was already folded into
\* gives the same chain, though both folds truncate.
LEMMA FoldSettles ==
    ASSUME NEW stored \in Revision, NEW incoming \in SUBSET Revision, IsFiniteSet(incoming),
           NEW slot \in Slot, FiniteChain(slot), NEW cap \in Nat
    PROVE  FoldAncestors(stored, FoldAncestors(stored, incoming, slot, cap), slot, cap)
              = FoldAncestors(stored, incoming, slot, cap)
<1> DEFINE S == (incoming \cup Lineage(slot)) \ {stored}
           T == (FoldAncestors(stored, incoming, slot, cap) \cup Lineage(slot)) \ {stored}
<1>1. S \subseteq Revision /\ IsFiniteSet(S) BY LineageFacts, FoldIsFinite
<1>2. FoldAncestors(stored, incoming, slot, cap) = Newest(S, cap) BY DEF FoldAncestors
<1>3. Newest(S, cap) \subseteq S BY DEF Newest
<1>4. Newest(S, cap) \subseteq T /\ T \subseteq S BY <1>2, <1>3
<1>5. FoldAncestors(stored, FoldAncestors(stored, incoming, slot, cap), slot, cap) = Newest(T, cap)
  BY DEF FoldAncestors
<1> HIDE DEF S, T
<1> QED BY <1>1, <1>2, <1>4, <1>5, NewestOfBetween

\* A record that moves beyond its slot, or names the slot's own revision, is well
\* formed once persisted: the fold puts nothing at or beyond the new counter.
LEMMA PersistedWellFormed ==
    ASSUME NEW slot \in Slot, WellFormed(slot),
           NEW rec \in Record, WellFormed(rec), NEW cap,
           slot # None => \/ rec.revision.counter > slot.revision.counter
                          \/ rec.revision = slot.revision
    PROVE  /\ Persisted(slot, rec, cap) \in Record
           /\ WellFormed(Persisted(slot, rec, cap))
           /\ Persisted(slot, rec, cap).revision = rec.revision
           /\ Persisted(slot, rec, cap).kind = rec.kind
           /\ Persisted(slot, rec, cap).body = rec.body
<1> DEFINE new == FoldAncestors(rec.revision, rec.ancestors, slot, cap)
           p == Persisted(slot, rec, cap)
<1>1. new \subseteq (rec.ancestors \cup Lineage(slot)) \ {rec.revision}
  BY FoldIsBounded
<1>2. Lineage(slot) \subseteq Revision BY LineageFacts
<1>3. new \subseteq Revision BY <1>1, <1>2 DEF Record
<1>4. p = [rec EXCEPT !.ancestors = new] BY DEF Persisted
<1>5. p \in Record BY <1>3, <1>4 DEF Record
<1>6. p.revision = rec.revision /\ p.kind = rec.kind /\ p.body = rec.body
      /\ p.ancestors = new
  BY <1>4 DEF Record
<1>7. \A r \in new : r.counter < rec.revision.counter
  <2> SUFFICES ASSUME NEW r \in new PROVE r.counter < rec.revision.counter
    OBVIOUS
  <2>1. CASE r \in rec.ancestors
    BY <2>1, NoneIsNotRecord DEF WellFormed, BehindItself
  <2>2. CASE r \in Lineage(slot)
    <3>1. slot # None BY <2>2 DEF Lineage
    <3>2. r.counter <= slot.revision.counter
      BY <2>2, <3>1, LineageFacts DEF WellFormed
    <3>3. r \in Revision /\ slot.revision \in Revision /\ rec.revision \in Revision
      BY <3>1, <1>3 DEF Slot, Record
    <3>4. CASE rec.revision.counter > slot.revision.counter
      BY <3>2, <3>3, <3>4 DEF Revision
    <3>5. CASE rec.revision = slot.revision
      <4>1. r \in slot.ancestors BY <1>1, <2>2, <3>1, <3>5 DEF Lineage
      <4> QED BY <3>1, <3>5, <4>1 DEF WellFormed, BehindItself
    <3> QED BY <3>1, <3>4, <3>5
  <2> QED BY <1>1, <2>1, <2>2
<1>8. BehindItself(p) BY <1>6, <1>7 DEF BehindItself
<1>9. NamesItsBody(p)
  BY <1>5, <1>6, NoneIsNotRecord DEF WellFormed, NamesItsBody, IsTombstone
<1> HIDE DEF p
<1> QED BY <1>5, <1>6, <1>8, <1>9 DEF WellFormed, p

\* Record::create builds a well-formed record.
LEMMA CreateWellFormed ==
    ASSUME NEW kind \in LiveKinds, NEW body \in Bodies
    PROVE  /\ CreateRecord(kind, body) \in Record
           /\ WellFormed(CreateRecord(kind, body))
           /\ ~IsTombstone(CreateRecord(kind, body))
<1> DEFINE r == CreateRecord(kind, body)
<1>1. InitialRevision(body) \in Revision /\ InitialRevision(body).hash = ContentHash[body]
  BY ContentHashAssumption DEF InitialRevision, Revision
<1>2. r \in Record BY <1>1 DEF CreateRecord, Record
<1>3. r.ancestors = {} /\ r.kind = kind /\ r.body = body /\ r.revision = InitialRevision(body)
  BY DEF CreateRecord
<1>4. kind # "Tombstone" BY DEF LiveKinds, ManifestKinds
<1> HIDE DEF r
<1>5. ~IsTombstone(r) BY <1>3, <1>4 DEF IsTombstone
<1>6. WellFormed(r) BY <1>1, <1>3, <1>5 DEF WellFormed, BehindItself, NamesItsBody
<1> QED BY <1>2, <1>5, <1>6 DEF r

\* Record::update builds a well-formed record one counter past the one read.
LEMMA UpdateWellFormed ==
    ASSUME NEW rec \in Record, ~IsTombstone(rec), NEW body \in Bodies
    PROVE  /\ UpdateRecord(rec, body) \in Record
           /\ WellFormed(UpdateRecord(rec, body))
           /\ ~IsTombstone(UpdateRecord(rec, body))
           /\ UpdateRecord(rec, body).revision.counter > rec.revision.counter
<1> DEFINE r == UpdateRecord(rec, body)
           v == NextRevision(rec.revision, body)
<1>0. rec.revision \in Revision /\ rec.kind \in LiveKinds
  BY DEF Record, IsTombstone
<1>1. v \in Revision /\ v.hash = ContentHash[body] /\ v.counter > rec.revision.counter
  BY <1>0, ContentHashAssumption DEF NextRevision, Revision
<1>2. r \in Record BY <1>0, <1>1 DEF UpdateRecord, Record
<1>3. r.ancestors = {} /\ r.kind = rec.kind /\ r.body = body /\ r.revision = v
  BY DEF UpdateRecord
<1> HIDE DEF r, v
<1>5. ~IsTombstone(r) BY <1>3 DEF IsTombstone
<1>6. WellFormed(r) BY <1>1, <1>3, <1>5 DEF WellFormed, BehindItself, NamesItsBody
<1> QED BY <1>1, <1>2, <1>3, <1>5, <1>6 DEF r

\* tombstone_of: one counter past the record it deletes, its chain behind it.
LEMMA TombstoneWellFormed ==
    ASSUME NEW rec \in Record, ~IsTombstone(rec), WellFormed(rec),
           NEW now \in Nat, NEW cap
    PROVE  /\ TombstoneOf(rec, now, cap) \in Record
           /\ WellFormed(TombstoneOf(rec, now, cap))
           /\ IsTombstone(TombstoneOf(rec, now, cap))
           /\ TombstoneOf(rec, now, cap).revision.counter = rec.revision.counter + 1
<1> DEFINE t == TombstoneOf(rec, now, cap)
           v == [counter |-> rec.revision.counter + 1, hash |-> TombstoneHash]
           anc == FoldAncestors(v, {}, rec, cap)
           blob == IF rec.body \in BlobBodies THEN rec.body ELSE None
           kept == IF rec.kind \in ManifestKinds THEN rec.kind ELSE None
           body == IF rec.kind \in ManifestKinds THEN rec.body ELSE EmptyBody
<1>0. rec.revision \in Revision /\ rec.kind \in LiveKinds /\ rec.body \in Bodies /\ rec # None
  BY NoneIsNotRecord DEF Record, IsTombstone
<1>1. v \in Revision /\ v.counter = rec.revision.counter + 1 /\ v.hash = TombstoneHash
  BY <1>0 DEF Revision, TombstoneHash
<1>2. anc \subseteq Lineage(rec) BY FoldIsBounded
<1>3. anc \subseteq Revision /\ \A r \in anc : r.counter <= rec.revision.counter
  BY <1>0, <1>2, LineageFacts DEF Slot, WellFormed
<1>4. /\ body \in Bodies
      /\ blob \in BlobBodies \cup {None}
      /\ kept \in ManifestKinds \cup {None}
  BY <1>0, BodiesAssumption
<1>5. t = [kind |-> "Tombstone", revision |-> v, parent |-> rec.revision, body |-> body,
           ancestors |-> anc, deleted_at |-> now, deleted_blob |-> blob,
           deleted_kind |-> kept]
  BY DEF TombstoneOf
<1>6. t.kind = "Tombstone" /\ t.revision = v /\ t.ancestors = anc
  BY <1>5
<1> HIDE DEF v, anc, blob, kept, body
<1>7. t \in Record BY <1>0, <1>1, <1>3, <1>4, <1>5 DEF Record
<1> HIDE DEF t
<1>8. \A r \in anc : r.counter < v.counter
  BY <1>0, <1>1, <1>3 DEF Revision
<1>9. WellFormed(t) BY <1>1, <1>6, <1>8 DEF WellFormed, BehindItself, NamesItsBody, IsTombstone
<1> QED BY <1>1, <1>6, <1>7, <1>9 DEF t, IsTombstone

\* A recreation continues the chain past the tombstone it replaces.
LEMMA RecreatedWellFormed ==
    ASSUME NEW tomb \in Record, WellFormed(tomb),
           NEW rec \in Record, ~IsTombstone(rec), rec.ancestors = {}, NEW cap
    PROVE  /\ Recreated(tomb, rec, cap) \in Record
           /\ WellFormed(Recreated(tomb, rec, cap))
           /\ ~IsTombstone(Recreated(tomb, rec, cap))
           /\ Recreated(tomb, rec, cap).revision.counter > tomb.revision.counter
<1> DEFINE n == Recreated(tomb, rec, cap)
           v == NextRevision(tomb.revision, rec.body)
           anc == FoldAncestors(v, rec.ancestors, tomb, cap)
<1>0. tomb.revision \in Revision /\ rec.body \in Bodies /\ tomb # None
  BY NoneIsNotRecord DEF Record
<1>1. v \in Revision /\ v.hash = ContentHash[rec.body] /\ v.counter = tomb.revision.counter + 1
  BY <1>0, ContentHashAssumption DEF NextRevision, Revision
<1>2. anc \subseteq Lineage(tomb) BY FoldIsBounded
<1>3. anc \subseteq Revision /\ \A r \in anc : r.counter <= tomb.revision.counter
  BY <1>0, <1>2, LineageFacts DEF Slot, WellFormed
<1>4. n = [rec EXCEPT !.revision = v, !.parent = tomb.revision, !.ancestors = anc,
                      !.deleted_at = None, !.deleted_blob = None, !.deleted_kind = None]
  BY DEF Recreated
<1> HIDE DEF v, anc
<1>5. n \in Record BY <1>0, <1>1, <1>3, <1>4 DEF Record
<1>6. n.revision = v /\ n.kind = rec.kind /\ n.body = rec.body /\ n.ancestors = anc
  BY <1>4 DEF Record
<1> HIDE DEF n
<1>7. \A r \in anc : r.counter < v.counter BY <1>0, <1>1, <1>3 DEF Revision
<1>8. WellFormed(n) BY <1>1, <1>6, <1>7 DEF WellFormed, BehindItself, NamesItsBody, IsTombstone
<1>9. v.counter > tomb.revision.counter BY <1>0, <1>1 DEF Revision
<1> QED BY <1>5, <1>6, <1>8, <1>9 DEF n, IsTombstone

(***************************************************************************)
(* One lemma per planner: what carrying out its plan does to the slot.      *)
(* Advances(old, new) is what a key's history may do in one write.          *)
(***************************************************************************)

Advances(old, new) ==
    old # None /\ new # old =>
       new # None /\ new.revision.counter > old.revision.counter

\* plan_put.
LEMMA PutAdvances ==
    ASSUME NEW slot \in Slot, WellFormed(slot), NEW cap,
           NEW rec \in Record, WellFormed(rec), ~IsTombstone(rec), rec.ancestors = {},
           NEW expected \in Revision \cup {None},
           expected # None => rec.revision.counter > expected.counter
    PROVE  LET new == Apply(slot, PlanPut(slot, rec, expected, cap)) IN
           /\ new \in Slot
           /\ WellFormed(new)
           /\ Advances(slot, new)
           /\ IsLive(slot) /\ new # slot => expected = slot.revision
           /\ slot # None /\ IsManifestTombstone(slot) => new = slot
<1> DEFINE plan == PlanPut(slot, rec, expected, cap)
           new == Apply(slot, plan)
<1>0. /\ WellFormed(None)
      /\ \A q \in {"Rejected", "NotFound", "Conflict"} : Apply(slot, Plan(q)) = slot
      /\ \A q \in Record : Apply(slot, Write(q)) = q
      /\ \A q \in Record : q # None /\ q \in Slot
  BY NoneIsNotRecord DEF WellFormed, BehindItself, NamesItsBody, Apply, Plan, Write, Slot
<1>1. CASE slot = None
  <2>1. CASE expected # None
    BY <1>0, <1>1, <2>1 DEF PlanPut, Advances, IsLive
  <2>2. CASE expected = None
    <3>1. new = Persisted(None, rec, cap)
      BY <1>0, <1>1, <2>2, PersistedWellFormed DEF PlanPut, IsLive
    <3> QED BY <1>0, <1>1, <3>1, PersistedWellFormed DEF Advances, IsLive
  <2> QED BY <2>1, <2>2
<1>2. CASE slot # None /\ ~IsLive(slot)
  <2>1. CASE expected # None \/ IsManifestTombstone(slot)
    BY <1>0, <1>2, <2>1 DEF PlanPut, Advances
  <2>2. CASE expected = None /\ ~IsManifestTombstone(slot)
    <3>0. slot \in Record BY <1>2 DEF Slot
    <3>1. new = Recreated(slot, rec, cap)
      BY <1>0, <1>2, <2>2, <3>0, RecreatedWellFormed DEF PlanPut
    <3> QED BY <1>0, <1>2, <2>2, <3>0, <3>1, RecreatedWellFormed DEF Advances
  <2> QED BY <2>1, <2>2
<1>3. CASE IsLive(slot)
  <2>0. slot \in Record /\ slot # None /\ ~IsManifestTombstone(slot)
    BY <1>3 DEF Slot, IsLive, IsManifestTombstone
  <2>1. CASE expected # slot.revision
    BY <1>0, <1>3, <2>0, <2>1 DEF PlanPut, Advances
  <2>2. CASE expected = slot.revision
    <3>0. expected # None BY <2>0, <2>2, NoneAssumption DEF Record
    <3>1. rec.revision.counter > slot.revision.counter BY <2>2, <3>0
    <3>2. new = Persisted(slot, rec, cap)
      BY <1>0, <1>3, <2>0, <2>2, <3>1, PersistedWellFormed DEF PlanPut
    <3> QED BY <1>0, <2>0, <2>2, <3>1, <3>2, PersistedWellFormed DEF Advances
  <2> QED BY <2>1, <2>2
<1> QED BY <1>1, <1>2, <1>3

\* plan_put_raw: a write lands only on the revision the caller named.
LEMMA PutRawAdvances ==
    ASSUME NEW slot \in Slot, WellFormed(slot), NEW cap,
           NEW rec \in Record, WellFormed(rec),
           NEW expected \in Revision \cup {None},
           expected # None => \/ rec.revision.counter > expected.counter
                              \/ rec.revision = expected
    PROVE  LET new == Apply(slot, PlanPutRaw(slot, rec, expected, cap)) IN
           /\ new \in Slot
           /\ WellFormed(new)
           /\ slot # None /\ new # slot =>
                 /\ new # None
                 /\ expected = slot.revision
                 /\ \/ new.revision.counter > slot.revision.counter
                    \/ new.revision = slot.revision
           /\ new # slot => new # None /\ new.revision = rec.revision
                            /\ new.kind = rec.kind /\ new.body = rec.body
<1> DEFINE new == Apply(slot, PlanPutRaw(slot, rec, expected, cap))
<1>0. /\ WellFormed(None)
      /\ \A q \in {"NotFound", "Conflict"} : Apply(slot, Plan(q)) = slot
      /\ \A q \in Record : Apply(slot, Write(q)) = q
      /\ \A q \in Record : q # None /\ q \in Slot
  BY NoneIsNotRecord DEF WellFormed, BehindItself, NamesItsBody, Apply, Plan, Write, Slot
<1>1. CASE slot = None /\ expected # None
  BY <1>0, <1>1 DEF PlanPutRaw
<1>2. CASE slot = None /\ expected = None
  <2>1. new = Persisted(None, rec, cap)
    BY <1>0, <1>2, PersistedWellFormed DEF PlanPutRaw
  <2> QED BY <1>0, <1>2, <2>1, PersistedWellFormed
<1>3. CASE slot # None /\ expected # slot.revision
  BY <1>0, <1>3 DEF PlanPutRaw
<1>4. CASE slot # None /\ expected = slot.revision
  <2>0. slot \in Record /\ expected # None
    BY <1>4, NoneAssumption DEF Slot, Record
  <2>1. rec.revision.counter > slot.revision.counter \/ rec.revision = slot.revision
    BY <1>4, <2>0
  <2>2. new = Persisted(slot, rec, cap)
    BY <1>0, <1>4, <2>1, PersistedWellFormed DEF PlanPutRaw
  <2> QED BY <1>0, <1>4, <2>0, <2>1, <2>2, PersistedWellFormed
<1> QED BY <1>1, <1>2, <1>3, <1>4

\* plan_delete: a live record gives way to its tombstone, anything else stays.
LEMMA DeleteAdvances ==
    ASSUME NEW slot \in Slot, WellFormed(slot), NEW cap, NEW now \in Nat, NEW expected
    PROVE  LET new == Apply(slot, PlanDelete(slot, expected, now, cap)) IN
           /\ new \in Slot
           /\ WellFormed(new)
           /\ Advances(slot, new)
           /\ new # slot => IsLive(slot) /\ ~IsLive(new)
<1> DEFINE new == Apply(slot, PlanDelete(slot, expected, now, cap))
<1>0. /\ \A q \in {"Noop", "Conflict"} : Apply(slot, Plan(q)) = slot
      /\ \A q \in Record : Apply(slot, Write(q)) = q
      /\ \A q \in Record : q # None /\ q \in Slot
  BY NoneIsNotRecord DEF Apply, Plan, Write, Slot
<1>1. CASE ~IsLive(slot) \/ expected \notin {None, slot.revision}
  BY <1>0, <1>1 DEF PlanDelete, Advances
<1>2. CASE IsLive(slot) /\ expected \in {None, slot.revision}
  <2>0. slot \in Record /\ ~IsTombstone(slot) BY <1>2 DEF Slot, IsLive
  <2>1. new = TombstoneOf(slot, now, cap)
    BY <1>0, <1>2, <2>0, TombstoneWellFormed DEF PlanDelete
  <2>2. slot.revision.counter \in Nat BY <2>0 DEF Record, Revision
  <2>3. new.revision.counter > slot.revision.counter
    BY <2>0, <2>1, <2>2, TombstoneWellFormed
  <2> QED BY <1>0, <1>2, <2>0, <2>1, <2>3, TombstoneWellFormed DEF Advances, IsLive
<1> QED BY <1>1, <1>2

\* plan_purge: the slot is emptied only under the revision named.
LEMMA PurgeRemoves ==
    ASSUME NEW slot \in Slot, WellFormed(slot), NEW expected
    PROVE  LET new == Apply(slot, PlanPurge(slot, expected)) IN
           /\ new \in Slot
           /\ WellFormed(new)
           /\ new # slot => new = None /\ slot.revision = expected
BY NoneIsNotRecord
   DEF Apply, Plan, PlanPurge, Slot, WellFormed, BehindItself, NamesItsBody, IsLive

(***************************************************************************)
(* The calls of the Store trait                                            *)
(***************************************************************************)

\* Records as a substrate keeps them, with a chain that is a list.
FiniteSlot == {slot \in Slot : FiniteChain(slot)}

\* A request as the substrates hold it: an operation, what its caller had read and a body.
IsRequest(call) == /\ call.op \in WriteOps
                   /\ call.seen \in FiniteSlot
                   /\ Sensible(call.op, call.seen)
                   /\ call.body \in Bodies

\* What plan_put, plan_put_raw and plan_delete persist folds in the very slot it was
\* planned against, and goes on from it; only a slot that holds something is removed.
WrittenOver(slot, rec, cap) ==
    /\ rec \in Record
    /\ FiniteChain(rec)
    /\ rec = Persisted(slot, rec, cap)
    /\ slot # None => rec.revision.counter > slot.revision.counter

\* A record persisted over a slot is what persisting it again would give.
LEMMA PersistedIsWritten ==
    ASSUME NEW slot \in FiniteSlot, NEW rec \in Record, FiniteChain(rec), NEW cap \in Nat,
           slot # None => rec.revision.counter > slot.revision.counter
    PROVE  WrittenOver(slot, Persisted(slot, rec, cap), cap)
<1> DEFINE p == Persisted(slot, rec, cap)
           anc == FoldAncestors(rec.revision, rec.ancestors, slot, cap)
<1>0. /\ slot \in Slot /\ FiniteChain(slot) /\ rec # None
      /\ rec.revision \in Revision /\ rec.ancestors \in SUBSET Revision
      /\ IsFiniteSet(rec.ancestors)
  BY NoneIsNotRecord DEF FiniteSlot, Record, FiniteChain
<1>1. IsFiniteSet(anc) /\ FoldAncestors(rec.revision, anc, slot, cap) = anc
  BY <1>0, FoldIsFinite, FoldSettles
<1>2. anc \in SUBSET Revision BY <1>0, FoldIsBounded, LineageFacts
<1>3. p = [rec EXCEPT !.ancestors = anc] BY DEF Persisted
<1> HIDE DEF anc
<1>4. p \in Record /\ p.ancestors = anc /\ p.revision = rec.revision
  BY <1>2, <1>3 DEF Record
<1>5. [p EXCEPT !.ancestors = anc] = p BY <1>3, <1>4 DEF Record
<1> HIDE DEF p
<1>6. Persisted(slot, p, cap) = p BY <1>1, <1>4, <1>5 DEF Persisted
<1> QED BY <1>1, <1>4, <1>6 DEF WrittenOver, FiniteChain, p

\* So is a tombstone of the slot's own record.
LEMMA TombstoneIsWritten ==
    ASSUME NEW rec \in Record, FiniteChain(rec), ~IsTombstone(rec), NEW now \in Nat, NEW cap \in Nat
    PROVE  WrittenOver(rec, TombstoneOf(rec, now, cap), cap)
<1> DEFINE t == TombstoneOf(rec, now, cap)
           v == [counter |-> rec.revision.counter + 1, hash |-> TombstoneHash]
           anc == FoldAncestors(v, {}, rec, cap)
           blob == IF rec.body \in BlobBodies THEN rec.body ELSE None
           kept == IF rec.kind \in ManifestKinds THEN rec.kind ELSE None
           body == IF rec.kind \in ManifestKinds THEN rec.body ELSE EmptyBody
<1>0. /\ rec.revision \in Revision /\ rec.body \in Bodies /\ rec # None /\ rec \in Slot
  BY NoneIsNotRecord DEF Record, Slot
<1>1. v \in Revision /\ v.counter > rec.revision.counter
  BY <1>0 DEF Revision, TombstoneHash
<1>2. IsFiniteSet(anc) /\ FoldAncestors(v, anc, rec, cap) = anc
  <2>1. IsFiniteSet({}) BY FS_EmptySet
  <2>2. IsFiniteSet(anc) BY <1>0, <1>1, <2>1, FoldIsFinite
  <2>3. FoldAncestors(v, anc, rec, cap) = anc BY <1>0, <1>1, <2>1, FoldSettles
  <2> QED BY <2>2, <2>3
<1>3. anc \in SUBSET Revision BY <1>0, FoldIsBounded, LineageFacts
<1>4. /\ body \in Bodies /\ blob \in BlobBodies \cup {None}
      /\ kept \in ManifestKinds \cup {None}
  BY <1>0, BodiesAssumption
<1>5. t = [kind |-> "Tombstone", revision |-> v, parent |-> rec.revision, body |-> body,
           ancestors |-> anc, deleted_at |-> now, deleted_blob |-> blob,
           deleted_kind |-> kept]
  BY DEF TombstoneOf
<1> HIDE DEF v, anc, blob, kept, body
<1>6. t \in Record /\ t.revision = v /\ t.ancestors = anc
  BY <1>0, <1>1, <1>3, <1>4, <1>5 DEF Record
<1>7. [t EXCEPT !.ancestors = anc] = t BY <1>5, <1>6
<1> HIDE DEF t
<1>8. Persisted(rec, t, cap) = t BY <1>2, <1>6, <1>7 DEF Persisted
<1> QED BY <1>0, <1>1, <1>2, <1>6, <1>8 DEF WrittenOver, FiniteChain, t

\* And a recreation over the tombstone it continues.
LEMMA RecreatedIsWritten ==
    ASSUME NEW tomb \in Record, FiniteChain(tomb), NEW rec \in Record, FiniteChain(rec),
           NEW cap \in Nat
    PROVE  WrittenOver(tomb, Recreated(tomb, rec, cap), cap)
<1> DEFINE n == Recreated(tomb, rec, cap)
           v == NextRevision(tomb.revision, rec.body)
           anc == FoldAncestors(v, rec.ancestors, tomb, cap)
<1>0. /\ tomb.revision \in Revision /\ rec.body \in Bodies /\ tomb # None /\ rec # None
      /\ tomb \in Slot /\ rec.ancestors \in SUBSET Revision /\ IsFiniteSet(rec.ancestors)
  BY NoneIsNotRecord DEF Record, Slot, FiniteChain
<1>1. v \in Revision /\ v.counter > tomb.revision.counter
  BY <1>0, ContentHashAssumption DEF NextRevision, Revision
<1>2. IsFiniteSet(anc) /\ FoldAncestors(v, anc, tomb, cap) = anc
  BY <1>0, <1>1, FoldIsFinite, FoldSettles
<1>3. anc \in SUBSET Revision BY <1>0, FoldIsBounded, LineageFacts
<1>4. n = [rec EXCEPT !.revision = v, !.parent = tomb.revision, !.ancestors = anc,
                      !.deleted_at = None, !.deleted_blob = None, !.deleted_kind = None]
  BY DEF Recreated
<1> HIDE DEF v, anc
<1>5. n \in Record /\ n.revision = v /\ n.ancestors = anc
  BY <1>0, <1>1, <1>3, <1>4 DEF Record
<1>6. [n EXCEPT !.ancestors = anc] = n BY <1>4, <1>5 DEF Record
<1> HIDE DEF n
<1>7. Persisted(tomb, n, cap) = n BY <1>2, <1>5, <1>6 DEF Persisted
<1> QED BY <1>0, <1>1, <1>2, <1>5, <1>7 DEF WrittenOver, FiniteChain, n

\* plan_put, plan_put_raw, plan_delete and plan_purge, each for the record and the
\* revision a call gives it.
LEMMA PutIsWritten ==
    ASSUME NEW slot \in FiniteSlot, NEW rec \in Record, FiniteChain(rec), ~IsTombstone(rec),
           NEW expected, NEW cap \in Nat,
           slot # None /\ expected = slot.revision =>
              rec.revision.counter > slot.revision.counter
    PROVE  LET plan == PlanPut(slot, rec, expected, cap) IN
           /\ plan.outcome \in {"Write", "Rejected", "NotFound", "Conflict"}
           /\ plan.outcome = "Write" => WrittenOver(slot, plan.record, cap)
<1> DEFINE plan == PlanPut(slot, rec, expected, cap)
<1>0. slot \in Slot /\ FiniteChain(slot) BY DEF FiniteSlot
<1>1. CASE slot = None /\ expected # None
  BY <1>1 DEF PlanPut, Plan, IsLive
<1>2. CASE slot = None /\ expected = None
  <2>1. plan = Write(Persisted(slot, rec, cap)) BY <1>2 DEF PlanPut, IsLive
  <2> QED BY <1>2, <2>1, PersistedIsWritten DEF Write
<1>3. CASE slot # None /\ ~IsLive(slot) /\ (expected # None \/ IsManifestTombstone(slot))
  BY <1>3 DEF PlanPut, Plan
<1>4. CASE slot # None /\ ~IsLive(slot) /\ expected = None /\ ~IsManifestTombstone(slot)
  <2>1. plan = Write(Recreated(slot, rec, cap)) BY <1>4 DEF PlanPut
  <2>2. slot \in Record BY <1>0, <1>4 DEF Slot
  <2> QED BY <1>0, <2>1, <2>2, RecreatedIsWritten DEF Write
<1>5. CASE IsLive(slot) /\ expected # slot.revision
  BY <1>5 DEF PlanPut, Plan, IsLive
<1>6. CASE IsLive(slot) /\ expected = slot.revision
  <2>1. plan = Write(Persisted(slot, rec, cap)) BY <1>6 DEF PlanPut, IsLive
  <2>2. slot # None BY <1>6 DEF IsLive
  <2> QED BY <1>6, <2>1, <2>2, PersistedIsWritten DEF Write
<1> QED BY <1>1, <1>2, <1>3, <1>4, <1>5, <1>6 DEF IsLive

LEMMA PutRawIsWritten ==
    ASSUME NEW slot \in FiniteSlot, NEW rec \in Record, FiniteChain(rec),
           NEW expected, NEW cap \in Nat,
           slot # None /\ expected = slot.revision =>
              rec.revision.counter > slot.revision.counter
    PROVE  LET plan == PlanPutRaw(slot, rec, expected, cap) IN
           /\ plan.outcome \in {"Write", "NotFound", "Conflict"}
           /\ plan.outcome = "Write" => WrittenOver(slot, plan.record, cap)
<1> DEFINE plan == PlanPutRaw(slot, rec, expected, cap)
<1>1. CASE \/ slot = None /\ expected # None
           \/ slot # None /\ expected # slot.revision
  BY <1>1 DEF PlanPutRaw, Plan
<1>2. CASE \/ slot = None /\ expected = None
           \/ slot # None /\ expected = slot.revision
  <2>1. plan = Write(Persisted(slot, rec, cap)) BY <1>2 DEF PlanPutRaw
  <2> QED BY <1>2, <2>1, PersistedIsWritten DEF Write
<1> QED BY <1>1, <1>2

LEMMA DeleteIsWritten ==
    ASSUME NEW slot \in FiniteSlot, NEW expected, NEW now \in Nat, NEW cap \in Nat
    PROVE  LET plan == PlanDelete(slot, expected, now, cap) IN
           /\ plan.outcome \in {"Write", "Noop", "Conflict"}
           /\ plan.outcome = "Write" => WrittenOver(slot, plan.record, cap)
<1>1. CASE ~IsLive(slot) \/ expected \notin {None, slot.revision}
  BY <1>1 DEF PlanDelete, Plan
<1>2. CASE IsLive(slot) /\ expected \in {None, slot.revision}
  <2>1. slot \in Record /\ FiniteChain(slot) /\ ~IsTombstone(slot)
    BY <1>2 DEF FiniteSlot, Slot, IsLive
  <2>2. PlanDelete(slot, expected, now, cap) = Write(TombstoneOf(slot, now, cap))
    BY <1>2 DEF PlanDelete
  <2> QED BY <2>1, <2>2, TombstoneIsWritten DEF Write
<1> QED BY <1>1, <1>2

\* Whatever a substrate is asked, and whatever record it then finds: what it is told to
\* write folds that record in and goes on from it, and only a record is removed.
LEMMA PlannedIsWritten ==
    ASSUME NEW call, IsRequest(call), NEW slot \in FiniteSlot, NEW cap \in Nat
    PROVE  LET plan == PlanFor(call, slot, cap) IN
           /\ plan.outcome \in {"Write", "Remove", "Noop", "Rejected", "NotFound", "Conflict"}
           /\ plan.outcome = "Write" => WrittenOver(slot, plan.record, cap)
           /\ plan.outcome = "Remove" => call.op = "purge" /\ slot # None
<1> DEFINE created == CreateRecord("Topic", call.body)
           origin == IF call.seen = None THEN created ELSE call.seen
           expected == ExpectedOf(call.seen)
           plan == PlanFor(call, slot, cap)
<1>0. call.op \in WriteOps /\ call.body \in Bodies /\ call.seen \in Slot
      /\ FiniteChain(call.seen) /\ Sensible(call.op, call.seen)
  BY DEF IsRequest, FiniteSlot
<1>1. created \in Record /\ FiniteChain(created) /\ ~IsTombstone(created)
  <2>1. "Topic" \in LiveKinds BY DEF LiveKinds
  <2>2. created.ancestors = {} BY DEF CreateRecord
  <2> QED BY <1>0, <2>1, <2>2, CreateWellFormed, FS_EmptySet DEF FiniteChain
<1>2. call.op \in {"put", "put_raw"} =>
         origin \in Record /\ FiniteChain(origin) /\ ~IsTombstone(origin)
  BY <1>0, <1>1 DEF Sensible, IsLive, Slot
<1>3. slot # None => slot \in Record /\ slot.revision # None /\ slot.revision \in Revision
  BY NoneAssumption DEF FiniteSlot, Slot, Record
<1>4. slot # None /\ expected = slot.revision =>
         call.seen # None /\ call.seen.revision = slot.revision
  BY <1>3 DEF ExpectedOf
<1> HIDE DEF created
<1>5. CASE call.op = "put"
  <2> DEFINE rec == IF call.seen = None THEN created ELSE UpdateRecord(call.seen, call.body)
  <2>1. plan = PlanPut(slot, rec, expected, cap) BY <1>5 DEF PlanFor, created
  <2>2. CASE call.seen = None
    BY <1>1, <1>4, <2>1, <2>2, PutIsWritten, <1>5
  <2>3. CASE call.seen # None
    <3>0. call.seen \in Record /\ ~IsTombstone(call.seen) BY <1>2, <1>5, <2>3
    <3>1. /\ rec \in Record /\ ~IsTombstone(rec)
          /\ rec.revision.counter > call.seen.revision.counter
      BY <1>0, <2>3, <3>0, UpdateWellFormed
    <3>2. FiniteChain(rec)
      <4>1. rec.ancestors = {} BY <2>3 DEF UpdateRecord
      <4> QED BY <4>1, FS_EmptySet DEF FiniteChain
    <3> HIDE DEF rec, expected, plan
    <3>3. slot # None /\ expected = slot.revision =>
             rec.revision.counter > slot.revision.counter
      BY <1>4, <3>1
    <3>4. LET q == PlanPut(slot, rec, expected, cap) IN
          /\ q.outcome \in {"Write", "Rejected", "NotFound", "Conflict"}
          /\ q.outcome = "Write" => WrittenOver(slot, q.record, cap)
      BY <3>1, <3>2, <3>3, PutIsWritten
    <3> QED BY <2>1, <3>4 DEF plan
  <2> QED BY <2>2, <2>3
<1>6. CASE call.op = "put_raw"
  <2> DEFINE tomb == TombstoneOf(origin, 0, cap)
  <2>1. plan = PlanPutRaw(slot, tomb, expected, cap) BY <1>6 DEF PlanFor, created
  <2>2. WrittenOver(origin, tomb, cap) /\ origin # None
    BY <1>2, <1>6, TombstoneIsWritten, NoneIsNotRecord
  <2>3. tomb \in Record /\ FiniteChain(tomb) /\ tomb.revision.counter > origin.revision.counter
    BY <2>2 DEF WrittenOver
  <2>4. slot # None /\ expected = slot.revision =>
           tomb.revision.counter > slot.revision.counter
    BY <1>4, <2>3
  <2> HIDE DEF tomb, expected
  <2>5. LET q == PlanPutRaw(slot, tomb, expected, cap) IN
        /\ q.outcome \in {"Write", "NotFound", "Conflict"}
        /\ q.outcome = "Write" => WrittenOver(slot, q.record, cap)
    BY <2>3, <2>4, PutRawIsWritten
  <2> QED BY <2>1, <2>5
<1>7. CASE call.op = "delete"
  <2>1. plan = PlanDelete(slot, expected, 0, cap) BY <1>7 DEF PlanFor
  <2> HIDE DEF expected
  <2>2. LET q == PlanDelete(slot, expected, 0, cap) IN
        /\ q.outcome \in {"Write", "Noop", "Conflict"}
        /\ q.outcome = "Write" => WrittenOver(slot, q.record, cap)
    BY DeleteIsWritten
  <2> QED BY <2>1, <2>2
<1>8. CASE call.op = "purge"
  <2>1. plan = PlanPurge(slot, call.seen.revision) BY <1>8 DEF PlanFor
  <2> QED BY <1>8, <2>1 DEF PlanPurge, Plan
<1> QED BY <1>0, <1>5, <1>6, <1>7, <1>8 DEF WriteOps

=============================================================================
