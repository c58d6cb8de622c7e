---------------------------- MODULE SyncProofs ----------------------------
(***************************************************************************)
(* Sync keeps every key's history and reports honestly, for any number of   *)
(* stores, keys and concurrent runs, and any caps and merge functions.      *)
(*                                                                         *)
(* Two facts carry the argument.  What a run is about to write knows the     *)
(* record it was read against, because a merge folds both chains without     *)
(* truncating; and on a key nobody else has touched in this pass, what the   *)
(* run read is still there, so that its write lands.                         *)
(*                                                                         *)
(* The last part is about GitStore, the other way stores are brought         *)
(* together: what was pushed stays on the remote branch.                      *)
(***************************************************************************)
EXTENDS Sync, RecordsProofs, Sequences

CONSTANTS Clones, NewBodies, MergeOf(_, _, _, _), Cap, CrashPoints, MaxWrites, MaxCommits,
          MaxCrashes                                                        \* of GitStore

VARIABLES commits, origin, head, index, work, busy, conflicts, published, purged, writes,
          crashes                                                           \* of GitStore

G == INSTANCE GitStore

\* The bodies are closed under what edits and merges them.
BodiesAreClosed ==
    /\ \A x, y \in Bodies : AppendOnlyMerge(x, y) \in Bodies
    /\ \A x, y, z \in Bodies : StructuredMerge(x, y, z) \in Bodies \cup {None}
    /\ \A x \in Bodies : EditsOf(x) \subseteq Bodies

\* A record as stores, reads and plans hold it.
Sound(slot) == slot \in Slot /\ FiniteChain(slot) /\ WellFormed(slot)

\* What is to be put knows what it is to be put over.
SoundPut(put) ==
    put # None => /\ Sound(put.record)
                  /\ put.expected # None => put.expected \in Lineage(put.record)

RunOK(s) ==
    LET r == run[s] IN
    /\ Sound(r.seen_a)
    /\ SoundPut(r.plan.a) /\ SoundPut(r.plan.b)
    /\ r.pc # "write" => r.plan.a = None /\ r.plan.b = None
    /\ r.pc = "write" => /\ r.plan.a # None \/ r.plan.b # None
                         /\ r.plan.outcome \notin {"conflict", "raced"}
    /\ r.pc \in {"read_b", "write"} => r.key \in Keys
    /\ r.pc = "done" => r.keys = {}

\* Two slots that hold one version of a record, with chains of their own.
SameVersion(slot, rec) ==
    /\ slot # None /\ rec # None
    /\ slot.revision = rec.revision /\ slot.body = rec.body /\ slot.kind = rec.kind

SlotA(s, k) == stores[Side[s].a][k]
SlotB(s, k) == stores[Side[s].b][k]

\* The key run s is at.
Current(s, k) == run[s].pc \in {"read_b", "write"} /\ k = run[s].key

\* On a key nobody else touched: nothing raced, what was read is still there, and what
\* is behind the run agrees.
Untouched(s, k) ==
    LET r == run[s]
        A == SlotA(s, k)
        B == SlotB(s, k)
    IN  /\ r.report[k] # "raced"
        /\ r.pc = "list_b" /\ k \notin r.keys => A = None
        /\ r.pc = "read_b" /\ k = r.key => r.seen_a = A
        /\ r.pc = "write" /\ k = r.key =>
              /\ r.landed
              /\ r.plan.a # None => r.plan.a.expected = ExpectedOf(A)
              /\ r.plan.b # None => r.plan.b.expected = ExpectedOf(B)
              /\ r.plan.a # None /\ r.plan.b # None => r.plan.a.record = r.plan.b.record
              /\ r.plan.a = None => SameVersion(A, r.plan.b.record)
              /\ r.plan.b = None => SameVersion(B, r.plan.a.record)
        /\ r.pc \in {"next", "read_b", "write", "done"} /\ k \notin r.keys /\ ~Current(s, k)
           /\ r.report[k] # "conflict" => Agree(A, B)

IndInv ==
    /\ TypeOK
    /\ \A site \in Sites, k \in Keys : Sound(stores[site][k])
    /\ \A s \in Syncs : RunOK(s)
    /\ \A s \in Syncs : \A k \in Keys \ touched[s] : Untouched(s, k)

(***************************************************************************)
(* What a run decides                                                      *)
(***************************************************************************)

\* reconciled_ancestors under lossless_cap keeps both chains and both heads.
LEMMA ReconciledKeepsAll ==
    ASSUME NEW a \in Record, FiniteChain(a), NEW b \in Record, FiniteChain(b), NEW stored \in Revision
    PROVE  LET anc == ReconciledAncestors(stored, a, b, LosslessCap(a, b)) IN
           /\ anc = (Lineage(a) \cup Lineage(b)) \ {stored}
           /\ anc \subseteq Revision /\ IsFiniteSet(anc)
<1> DEFINE LA == Lineage(a)
           LB == Lineage(b)
           S == (LA \cup LB) \ {stored}
           cap == LosslessCap(a, b)
<1>0. a # None /\ b # None /\ a \in Slot /\ b \in Slot BY NoneIsNotRecord DEF Slot
<1>1. LA \subseteq Revision /\ LB \subseteq Revision BY <1>0, LineageFacts
<1>2. /\ LA = a.ancestors \cup {a.revision} /\ LB = b.ancestors \cup {b.revision}
      /\ IsFiniteSet(a.ancestors) /\ IsFiniteSet(b.ancestors)
  BY <1>0 DEF Lineage, FiniteChain
<1>3. /\ Cardinality(a.ancestors) \in Nat /\ Cardinality(b.ancestors) \in Nat /\ cap \in Nat
  BY <1>2, FS_CardinalityType DEF LosslessCap
<1>4. ASSUME NEW X, IsFiniteSet(X), NEW x
      PROVE  /\ IsFiniteSet(X \cup {x}) /\ Cardinality(X \cup {x}) \in Nat
             /\ Cardinality(X \cup {x}) <= Cardinality(X) + 1
  <2>1. IsFiniteSet(X \cup {x})
        /\ Cardinality(X \cup {x}) = IF x \in X THEN Cardinality(X) ELSE Cardinality(X) + 1
    BY <1>4, FS_AddElement
  <2>2. Cardinality(X) \in Nat BY <1>4, FS_CardinalityType
  <2> QED BY <2>1, <2>2
<1>5. /\ IsFiniteSet(LA) /\ Cardinality(LA) <= Cardinality(a.ancestors) + 1 /\ Cardinality(LA) \in Nat
      /\ IsFiniteSet(LB) /\ Cardinality(LB) <= Cardinality(b.ancestors) + 1 /\ Cardinality(LB) \in Nat
  <2> HIDE DEF LA, LB
  <2>1. LET X == a.ancestors \cup {a.revision} IN
        IsFiniteSet(X) /\ Cardinality(X) <= Cardinality(a.ancestors) + 1 /\ Cardinality(X) \in Nat
    BY <1>2, <1>4
  <2>2. LET X == b.ancestors \cup {b.revision} IN
        IsFiniteSet(X) /\ Cardinality(X) <= Cardinality(b.ancestors) + 1 /\ Cardinality(X) \in Nat
    BY <1>2, <1>4
  <2> QED BY <1>2, <2>1, <2>2
<1> HIDE DEF LA, LB
<1>6. /\ IsFiniteSet(LA \cup LB) /\ IsFiniteSet(LA \cap LB)
      /\ Cardinality(LA \cup LB) = Cardinality(LA) + Cardinality(LB) - Cardinality(LA \cap LB)
  BY <1>5, FS_Union, FS_Intersection
<1>7. /\ Cardinality(LA \cup LB) \in Nat /\ Cardinality(LA \cap LB) \in Nat
  BY <1>6, FS_CardinalityType
<1>8. Cardinality(LA \cup LB) <= cap
  BY <1>3, <1>5, <1>6, <1>7 DEF LosslessCap
<1>9. IsFiniteSet(S) /\ Cardinality(S) <= Cardinality(LA \cup LB) /\ Cardinality(S) \in Nat
  <2>1. S \in SUBSET (LA \cup LB) OBVIOUS
  <2> QED BY <1>6, <2>1, FS_Subset, FS_CardinalityType
<1>10. S \subseteq Revision BY <1>1
<1>11. ReconciledAncestors(stored, a, b, cap) = Newest(S, cap)
  <2>1. (LA \cup LB) \cup Lineage(None) = LA \cup LB BY DEF Lineage
  <2> QED BY <2>1 DEF ReconciledAncestors, FoldAncestors, LA, LB
<1> HIDE DEF S, cap
<1>12. Newest(S, cap) = S BY <1>3, <1>7, <1>8, <1>9, <1>10, NewestKeepsAll
<1> QED BY <1>9, <1>10, <1>11, <1>12 DEF S, cap, LA, LB

\* build_merged: the merged record goes on from both sides.
LEMMA MergedIsSound ==
    ASSUME NEW a \in Record, Sound(a), NEW b \in Record, Sound(b), ~IsTombstone(a), NEW body \in Bodies
    PROVE  LET rec == ReconciledRecord(a, b, body, LosslessCap(a, b)) IN
           /\ rec \in Record /\ Sound(rec) /\ a.revision \in Lineage(rec) /\ b.revision \in Lineage(rec)
<1> DEFINE cap == LosslessCap(a, b)
           rec == ReconciledRecord(a, b, body, cap)
           ahead == IF a.revision.counter >= b.revision.counter THEN a ELSE b
           rev == NextRevision(ahead.revision, body)
           anc == ReconciledAncestors(rev, a, b, cap)
<1>0. /\ a # None /\ b # None /\ a \in Slot /\ b \in Slot
      /\ a.revision \in Revision /\ b.revision \in Revision /\ ahead.revision \in Revision
      /\ FiniteChain(a) /\ FiniteChain(b) /\ BehindItself(a) /\ BehindItself(b)
      /\ a.kind \in LiveKinds
  BY NoneIsNotRecord DEF Slot, Record, Sound, WellFormed, IsTombstone
<1>1. /\ rev \in Revision /\ rev.counter > a.revision.counter /\ rev.counter > b.revision.counter
      /\ rev.hash = ContentHash[body]
  BY <1>0, ContentHashAssumption DEF NextRevision, Revision
<1>2. rec = [kind |-> a.kind, revision |-> rev, parent |-> ahead.revision,
             body |-> body, ancestors |-> anc,
             deleted_at |-> None, deleted_blob |-> None, deleted_kind |-> None]
  BY DEF ReconciledRecord
<1> HIDE DEF rev, ahead, rec, cap
<1>3. anc = (Lineage(a) \cup Lineage(b)) \ {rev} /\ anc \subseteq Revision /\ IsFiniteSet(anc)
  BY <1>0, <1>1, ReconciledKeepsAll DEF cap
<1>4. /\ a.revision \in Lineage(a) /\ b.revision \in Lineage(b)
      /\ a.revision # rev /\ b.revision # rev
  BY <1>0, <1>1 DEF Lineage, Revision
<1>5. \A r \in anc : r.counter < rev.counter
  <2>1. \A r \in Lineage(a) : r \in Revision /\ r.counter <= a.revision.counter BY <1>0, LineageFacts
  <2>2. \A r \in Lineage(b) : r \in Revision /\ r.counter <= b.revision.counter BY <1>0, LineageFacts
  <2> QED BY <1>0, <1>1, <1>3, <2>1, <2>2 DEF Revision
<1> HIDE DEF anc
<1>6. rec \in Record BY <1>0, <1>1, <1>2, <1>3 DEF Record
<1>7. rec.kind = a.kind /\ rec.revision = rev /\ rec.body = body /\ rec.ancestors = anc
  BY <1>2
<1>8. Sound(rec)
  <2>1. ~IsTombstone(rec) BY <1>7 DEF IsTombstone
  <2> QED BY <1>1, <1>3, <1>5, <1>6, <1>7, <2>1
       DEF Sound, Slot, FiniteChain, WellFormed, BehindItself, NamesItsBody
<1>9. rec # None BY <1>6, NoneIsNotRecord
<1> QED BY <1>3, <1>4, <1>6, <1>7, <1>8, <1>9 DEF Lineage, rec, cap

\* Two deletions: the newer tombstone stands, and knows the other.
LEMMA TombstonesAreSound ==
    ASSUME NEW a \in Record, Sound(a), NEW b \in Record, Sound(b), IsTombstone(a), IsTombstone(b),
           a.revision # b.revision
    PROVE  LET rec == TombstoneWinner(a, b, LosslessCap(a, b)) IN
           /\ rec \in Record /\ Sound(rec) /\ a.revision \in Lineage(rec) /\ b.revision \in Lineage(rec)
<1> DEFINE cap == LosslessCap(a, b)
           rec == TombstoneWinner(a, b, cap)
           winner == IF Newer(b.revision, a.revision) THEN b ELSE a
           anc == ReconciledAncestors(winner.revision, a, b, cap)
<1>0. /\ a # None /\ b # None /\ a \in Slot /\ b \in Slot
      /\ a.revision \in Revision /\ b.revision \in Revision
      /\ FiniteChain(a) /\ FiniteChain(b) /\ BehindItself(a) /\ BehindItself(b)
      /\ a.revision.hash = TombstoneHash /\ b.revision.hash = TombstoneHash
  BY NoneIsNotRecord DEF Slot, Record, Sound, WellFormed, NamesItsBody
<1>1. /\ winner \in Record /\ winner \in {a, b} /\ winner.revision \in Revision
      /\ a # winner => a.revision.counter < winner.revision.counter
      /\ b # winner => b.revision.counter < winner.revision.counter
      /\ IsTombstone(winner) /\ winner.revision.hash = TombstoneHash
  BY <1>0 DEF Newer, Revision
<1>2. rec = [winner EXCEPT !.ancestors = anc] BY DEF TombstoneWinner
<1> HIDE DEF winner, rec, cap
<1>3. /\ anc = (Lineage(a) \cup Lineage(b)) \ {winner.revision}
      /\ anc \subseteq Revision /\ IsFiniteSet(anc)
  BY <1>0, <1>1, ReconciledKeepsAll DEF cap
<1>4. \A r \in anc : r.counter < winner.revision.counter
  <2>1. \A r \in Lineage(a) : r.counter <= a.revision.counter /\ r \in Revision BY <1>0, LineageFacts
  <2>2. \A r \in Lineage(b) : r.counter <= b.revision.counter /\ r \in Revision BY <1>0, LineageFacts
  <2>3. \A r \in Lineage(winner) : r = winner.revision \/ r.counter < winner.revision.counter
    BY <1>0, <1>1 DEF Lineage, BehindItself
  <2> QED BY <1>0, <1>1, <1>3, <2>1, <2>2, <2>3 DEF Revision
<1>5. a.revision \in Lineage(a) /\ b.revision \in Lineage(b) BY <1>0 DEF Lineage
<1> HIDE DEF anc
<1>6. /\ rec \in Record /\ rec.revision = winner.revision /\ rec.kind = winner.kind
      /\ rec.body = winner.body /\ rec.ancestors = anc
  BY <1>1, <1>2, <1>3 DEF Record
<1>7. Sound(rec)
  <2>1. IsTombstone(rec) BY <1>1, <1>6 DEF IsTombstone
  <2> QED BY <1>1, <1>3, <1>4, <1>6, <2>1
       DEF Sound, Slot, FiniteChain, WellFormed, BehindItself, NamesItsBody
<1>8. rec # None BY <1>6, NoneIsNotRecord
<1> QED BY <1>3, <1>5, <1>6, <1>7, <1>8 DEF Lineage, rec, cap

\* Equal revisions mean equal bodies: a hash names one body, and a tombstone none.
LEMMA SameRevisionAgrees ==
    ASSUME NEW a \in Record, Sound(a), NEW b \in Record, Sound(b), a.revision = b.revision
    PROVE  Agree(a, b)
<1>1. /\ a # None /\ b # None /\ a.body \in Bodies /\ b.body \in Bodies
      /\ NamesItsBody(a) /\ NamesItsBody(b)
  BY NoneIsNotRecord DEF Record, Sound, WellFormed
<1>2. ContentHash[a.body] # 0 /\ ContentHash[b.body] # 0 BY <1>1, ContentHashAssumption
<1>3. IsTombstone(a) <=> IsTombstone(b)
  BY <1>1, <1>2 DEF NamesItsBody, TombstoneHash
<1>4. ~IsTombstone(a) => a.body = b.body
  BY <1>1, <1>3, ContentHashAssumption DEF NamesItsBody
<1> QED BY <1>1, <1>3, <1>4 DEF Agree, IsLive

\* decide: whatever two sound records it is shown, what it plans is sound, is conditioned
\* on what was read, brings both sides to one version, and leaves nothing undone but
\* a conflict.
DecisionOK(a, b, d) ==
    /\ d \in [a : Plans, b : Plans, outcome : Outcomes]
    /\ SoundPut(d.a) /\ SoundPut(d.b)
    /\ d.outcome # "raced"
    /\ d.a # None \/ d.b # None => d.outcome # "conflict"
    /\ d.a # None => d.a.expected = ExpectedOf(a)
    /\ d.b # None => d.b.expected = ExpectedOf(b)
    /\ d.a # None /\ d.b # None => d.a.record = d.b.record
    /\ d.a = None /\ d.b # None => SameVersion(a, d.b.record)
    /\ d.b = None /\ d.a # None => SameVersion(b, d.a.record)
    /\ d.a = None /\ d.b = None /\ d.outcome # "conflict" => Agree(a, b)

\* A put of a sound record over a slot whose revision it knows.
LEMMA PutIsSound ==
    ASSUME NEW rec \in Record, Sound(rec), NEW over \in Slot,
           over # None => over.revision \in Lineage(rec)
    PROVE  LET put == Put(rec, over) IN
           /\ put \in Plans /\ put # None /\ SoundPut(put)
           /\ put.record = rec /\ put.expected = ExpectedOf(over)
<1> DEFINE put == Put(rec, over)
<1>1. put.record = rec /\ put.expected = ExpectedOf(over) BY DEF Put, ExpectedOf
<1>2. put \in [record : Record, expected : Revision \cup {None}] BY DEF Put, Slot, Record
<1>3. put # None /\ put \in Plans BY <1>2, SyncAssumption DEF Plans
<1>4. SoundPut(put) BY <1>1 DEF SoundPut, ExpectedOf
<1> QED BY <1>1, <1>3, <1>4

LEMMA ReconcileIsOK ==
    ASSUME BodiesAreClosed, NEW a \in Record, Sound(a), NEW b \in Record, Sound(b),
           a.revision # b.revision, NEW base \in Bodies
    PROVE  DecisionOK(a, b, Reconcile(a, b, base))
<1> DEFINE cap == LosslessCap(a, b)
           body == MergeBodies(MergeClass(a.kind), base, a.body, b.body)
           d == Reconcile(a, b, base)
<1>0. a # None /\ b # None /\ a \in Slot /\ b \in Slot /\ a.body \in Bodies /\ b.body \in Bodies
  BY NoneIsNotRecord DEF Slot, Record
<1>1. ASSUME NEW rec \in Record, Sound(rec), a.revision \in Lineage(rec), b.revision \in Lineage(rec)
      PROVE  DecisionOK(a, b, ToBoth(rec, a, b))
  <2> DEFINE e == ToBoth(rec, a, b)
             pa == Put(rec, a)
             pb == Put(rec, b)
  <2>1. /\ pa \in Plans /\ pa # None /\ SoundPut(pa) /\ pa.record = rec /\ pa.expected = ExpectedOf(a)
    BY <1>0, <1>1, PutIsSound
  <2>2. /\ pb \in Plans /\ pb # None /\ SoundPut(pb) /\ pb.record = rec /\ pb.expected = ExpectedOf(b)
    BY <1>0, <1>1, PutIsSound
  <2> HIDE DEF pa, pb
  <2>3. e = [a |-> pa, b |-> pb, outcome |-> "merged"] BY DEF ToBoth, Decision, pa, pb
  <2> HIDE DEF e
  <2>4. e.a = pa /\ e.b = pb /\ e.outcome = "merged" /\ e \in [a : Plans, b : Plans, outcome : Outcomes]
    BY <2>1, <2>2, <2>3 DEF Outcomes
  <2> QED BY <2>1, <2>2, <2>4 DEF DecisionOK, e
<1>2. CASE IsTombstone(a) /\ IsTombstone(b)
  <2>1. d = ToBoth(TombstoneWinner(a, b, cap), a, b) BY <1>2 DEF Reconcile
  <2> QED BY <1>1, <1>2, <2>1, TombstonesAreSound
<1>3. CASE ~(IsTombstone(a) /\ IsTombstone(b)) /\ (IsTombstone(a) \/ IsTombstone(b) \/ body = None)
  <2>1. d = Decision(None, None, "conflict") BY <1>3 DEF Reconcile
  <2> QED BY <2>1 DEF DecisionOK, Decision, Plans, Outcomes, SoundPut
<1>4. CASE ~IsTombstone(a) /\ ~IsTombstone(b) /\ body # None
  <2>1. d = ToBoth(ReconciledRecord(a, b, body, cap), a, b) BY <1>4 DEF Reconcile
  <2>2. body \in Bodies
    <3>1. MergeClass(a.kind) \in {"AppendOnly", "Structured", "Derived", "Opaque"} BY DEF MergeClass
    <3>2. CASE MergeClass(a.kind) = "AppendOnly" BY <1>0, <3>2 DEF MergeBodies, BodiesAreClosed
    <3>3. CASE MergeClass(a.kind) = "Structured" BY <1>0, <1>4, <3>3 DEF MergeBodies, BodiesAreClosed
    <3>4. CASE MergeClass(a.kind) = "Opaque" BY <1>4, <3>4 DEF MergeBodies
    <3>5. CASE MergeClass(a.kind) = "Derived" BY <1>0, <3>5 DEF MergeBodies
    <3> QED BY <3>1, <3>2, <3>3, <3>4, <3>5
  <2> HIDE DEF body, d
  <2>3. DecisionOK(a, b, ToBoth(ReconciledRecord(a, b, body, cap), a, b))
    BY <1>1, <1>4, <2>2, MergedIsSound
  <2> QED BY <2>1, <2>3 DEF d
<1> QED BY <1>2, <1>3, <1>4

LEMMA DecideIsOK ==
    ASSUME BodiesAreClosed, NEW a \in Slot, Sound(a), NEW b \in Slot, Sound(b), NEW base \in Bodies
    PROVE  DecisionOK(a, b, Decide(a, b, base))
<1> DEFINE d == Decide(a, b, base)
<1>1. CASE a = None /\ b = None
  <2>1. d = Decision(None, None, "none") BY <1>1 DEF Decide
  <2> QED BY <1>1, <2>1 DEF DecisionOK, Decision, Plans, Outcomes, SoundPut, Agree, IsLive
\* One record goes to one side only.
<1>2. ASSUME NEW rec \in Record, Sound(rec), NEW over \in Slot,
             over # None => over.revision \in Lineage(rec)
      PROVE  /\ \A o \in {"copied_to_b", "fast_forwarded_to_b"} :
                   DecisionOK(rec, over, Decision(None, Put(rec, over), o))
             /\ \A o \in {"copied_to_a", "fast_forwarded_to_a"} :
                   DecisionOK(over, rec, Decision(Put(rec, over), None, o))
  <2> DEFINE p == Put(rec, over)
  <2>1. p \in Plans /\ p # None /\ SoundPut(p) /\ p.record = rec /\ p.expected = ExpectedOf(over)
    BY <1>2, PutIsSound
  <2>2. SameVersion(rec, rec) /\ None \in Plans /\ SoundPut(None)
    BY <1>2, NoneIsNotRecord DEF SameVersion, Plans, SoundPut
  <2> HIDE DEF p
  <2>3. ASSUME NEW o \in {"copied_to_b", "fast_forwarded_to_b"}
        PROVE  DecisionOK(rec, over, Decision(None, p, o))
    BY <2>1, <2>2, <2>3 DEF DecisionOK, Decision, Outcomes
  <2>4. ASSUME NEW o \in {"copied_to_a", "fast_forwarded_to_a"}
        PROVE  DecisionOK(over, rec, Decision(p, None, o))
    BY <2>1, <2>2, <2>4 DEF DecisionOK, Decision, Outcomes
  <2> QED BY <2>3, <2>4 DEF p
<1>3. CASE a # None /\ b = None
  <2>1. d = Decision(None, Put(a, None), "copied_to_b") BY <1>3 DEF Decide
  <2>2. a \in Record /\ None \in Slot BY <1>3 DEF Slot
  <2> QED BY <1>2, <1>3, <2>1, <2>2
<1>4. CASE a = None /\ b # None
  <2>1. d = Decision(Put(b, None), None, "copied_to_a") BY <1>4 DEF Decide
  <2>2. b \in Record /\ None \in Slot BY <1>4 DEF Slot
  <2> QED BY <1>2, <1>4, <2>1, <2>2
<1>5. CASE a # None /\ b # None
  <2>0. a \in Record /\ b \in Record BY <1>5 DEF Slot
  <2>1. CASE a.revision = b.revision
    <3>1. d = Decision(None, None, "none") BY <1>5, <2>1 DEF Decide, Relate
    <3>2. Agree(a, b) BY <2>0, <2>1, SameRevisionAgrees
    <3> QED BY <3>1, <3>2 DEF DecisionOK, Decision, Plans, Outcomes, SoundPut
  <2>2. CASE a.revision # b.revision /\ b.revision \in a.ancestors
    <3>1. d = Decision(None, Put(a, b), "fast_forwarded_to_b") BY <1>5, <2>2 DEF Decide, Relate
    <3>2. b.revision \in Lineage(a) BY <1>5, <2>2 DEF Lineage
    <3> QED BY <1>2, <2>0, <3>1, <3>2
  <2>3. CASE /\ a.revision # b.revision /\ b.revision \notin a.ancestors
             /\ a.revision \in b.ancestors
    <3>1. d = Decision(Put(b, a), None, "fast_forwarded_to_a") BY <1>5, <2>3 DEF Decide, Relate
    <3>2. a.revision \in Lineage(b) BY <1>5, <2>3 DEF Lineage
    <3> QED BY <1>2, <2>0, <3>1, <3>2
  <2>4. CASE /\ a.revision # b.revision /\ b.revision \notin a.ancestors
             /\ a.revision \notin b.ancestors
    <3>1. Relate(a, b) = "Diverged" BY <2>4 DEF Relate
    <3>2. d = Reconcile(a, b, base) BY <1>5, <3>1 DEF Decide
    <3> QED BY <2>0, <2>4, <3>2, ReconcileIsOK
  <2> QED BY <2>1, <2>2, <2>3, <2>4
<1> QED BY <1>1, <1>3, <1>4, <1>5

(***************************************************************************)
(* Steps                                                                   *)
(***************************************************************************)

Runs == [pc : {"list_a", "list_b", "next", "read_b", "write", "done"},
         pass : 1..MaxPasses, keys : SUBSET Keys,
         key : Keys \cup {None}, seen_a : Slot,
         plan : [a : Plans, b : Plans, outcome : Outcomes],
         landed : BOOLEAN, report : [Keys -> Outcomes]]

\* The next version of a record, or the same one with a fuller chain.
Forward(old, new) ==
    old # None /\ new # None /\ new # old =>
       \/ new.revision.counter > old.revision.counter
       \/ new.revision = old.revision

LEMMA SyncTypes ==
    TypeOK <=> /\ stores \in [Sites -> [Keys -> Slot]]
               /\ run \in [Syncs -> Runs]
               /\ touched \in [Syncs -> SUBSET Keys]
               /\ disturbances \in 0..MaxDisturbances
BY DEF TypeOK, Runs

LEMMA SidesAreSites ==
    ASSUME NEW s \in Syncs
    PROVE  Side[s].a \in Sites /\ Side[s].b \in Sites /\ Side[s].a # Side[s].b
BY SyncAssumption

LEMMA NothingIsSound == Sound(None) /\ SoundPut(None) /\ None \in Slot /\ None \in Plans
BY DEF Sound, SoundPut, Slot, FiniteChain, WellFormed, BehindItself, NamesItsBody, Plans

LEMMA StartIsRun ==
    /\ Start \in Runs
    /\ Start.pc = "list_a" /\ Start.seen_a = None /\ Start.plan.a = None /\ Start.plan.b = None
    /\ \A k \in Keys : Start.report[k] = "none"
<1>1. NoReport \in [Keys -> Outcomes] /\ \A k \in Keys : NoReport[k] = "none" BY DEF NoReport, Outcomes
<1>2. /\ NoPlan \in [a : Plans, b : Plans, outcome : Outcomes]
      /\ NoPlan.a = None /\ NoPlan.b = None
  BY DEF NoPlan, Decision, Plans, Outcomes
<1>3. 1 \in 1..MaxPasses BY SyncAssumption
<1> QED BY <1>1, <1>2, <1>3 DEF Start, Runs, Slot

LEMMA SyncInit == Init => IndInv
<1> SUFFICES ASSUME Init PROVE IndInv OBVIOUS
<1>1. TypeOK
  <2>1. 0 \in 0..MaxDisturbances BY SyncAssumption
  <2> QED BY <2>1, StartIsRun, SyncTypes, NothingIsSound DEF Init
<1>2. \A site \in Sites, k \in Keys : Sound(stores[site][k]) BY NothingIsSound DEF Init
<1>3. ASSUME NEW s \in Syncs PROVE RunOK(s)
  <2>1. run[s] = Start BY DEF Init
  <2> QED BY <2>1, StartIsRun, NothingIsSound DEF RunOK
<1>4. ASSUME NEW s \in Syncs, NEW k \in Keys PROVE Untouched(s, k)
  <2>1. run[s] = Start BY DEF Init
  <2> QED BY <2>1, StartIsRun DEF Untouched
<1> QED BY <1>1, <1>2, <1>3, <1>4 DEF IndInv

\* A write by w: one slot changes, and the keys that other runs must mistrust.
Wrote(w, site, k, new) ==
    /\ stores' \in [Sites -> [Keys -> Slot]]
    /\ stores'[site][k] = new
    /\ \A site2 \in Sites, k2 \in Keys :
          site2 # site \/ k2 # k => stores'[site2][k2] = stores[site2][k2]
    /\ touched' \in [Syncs -> SUBSET Keys]
    /\ \A s \in Syncs : touched[s] \subseteq touched'[s]
    /\ \A s \in Syncs \ {w} : \A k2 \in Keys \ touched'[s] :
          SlotA(s, k2)' = SlotA(s, k2) /\ SlotB(s, k2)' = SlotB(s, k2)
    /\ \A s \in Syncs : s = w => touched'[s] = touched[s]

\* What carrying out a plan does.
LEMMA ExecuteFacts ==
    ASSUME TypeOK, NEW w, NEW site \in Sites, NEW k \in Keys, NEW plan, Execute(w, site, k, plan),
           Apply(stores[site][k], plan) \in Slot
    PROVE  Wrote(w, site, k, Apply(stores[site][k], plan))
<1> DEFINE new == Apply(stores[site][k], plan)
<1>0. stores \in [Sites -> [Keys -> Slot]] /\ touched \in [Syncs -> SUBSET Keys] BY DEF TypeOK
<1>1. stores' = [stores EXCEPT ![site][k] = new] BY DEF Execute
<1> HIDE DEF new
<1>2. /\ stores' \in [Sites -> [Keys -> Slot]]
      /\ stores'[site][k] = new
      /\ \A site2 \in Sites, k2 \in Keys :
            site2 # site \/ k2 # k => stores'[site2][k2] = stores[site2][k2]
  BY <1>0, <1>1 DEF new
<1>3. touched' = [s \in Syncs |->
                     IF s # w /\ site \in {Side[s].a, Side[s].b} /\ stores' # stores
                     THEN touched[s] \cup {k} ELSE touched[s]]
  BY DEF Execute
<1>4. touched' \in [Syncs -> SUBSET Keys] BY <1>0, <1>3
<1>5. /\ \A s \in Syncs : touched[s] \subseteq touched'[s]
      /\ \A s \in Syncs : s = w => touched'[s] = touched[s]
  BY <1>3
<1>6. ASSUME NEW s \in Syncs \ {w}, NEW k2 \in Keys \ touched'[s]
      PROVE  SlotA(s, k2)' = SlotA(s, k2) /\ SlotB(s, k2)' = SlotB(s, k2)
  <2>1. Side[s].a \in Sites /\ Side[s].b \in Sites BY SidesAreSites
  <2>2. CASE stores' = stores BY <2>2 DEF SlotA, SlotB
  <2>3. CASE site \notin {Side[s].a, Side[s].b} BY <1>2, <2>1, <2>3 DEF SlotA, SlotB
  <2>4. CASE site \in {Side[s].a, Side[s].b} /\ stores' # stores
    <3>1. k2 # k BY <1>3, <1>6, <2>4
    <3> QED BY <1>2, <2>1, <3>1 DEF SlotA, SlotB
  <2> QED BY <2>2, <2>3, <2>4
<1> QED BY <1>2, <1>4, <1>5, <1>6 DEF new, Wrote

\* A run that is not at work is not disturbed on the keys it still trusts.
LEMMA OthersKeep ==
    ASSUME IndInv, NEW s \in Syncs, run'[s] = run[s], touched[s] \subseteq touched'[s],
           \A k \in Keys \ touched'[s] : SlotA(s, k)' = SlotA(s, k) /\ SlotB(s, k)' = SlotB(s, k)
    PROVE  RunOK(s)' /\ \A k \in Keys \ touched'[s] : Untouched(s, k)'
<1>1. RunOK(s)' BY DEF IndInv, RunOK
<1>2. ASSUME NEW k \in Keys \ touched'[s] PROVE Untouched(s, k)'
  <2>1. Untouched(s, k) BY <1>2 DEF IndInv
  <2> QED BY <1>2, <2>1 DEF Untouched, Current
<1> QED BY <1>1, <1>2

\* A local writer's plan and what it leaves.
LEMMA LocalPlans ==
    ASSUME BodiesAreClosed, IndInv, LocalNext
    PROVE  \E site \in Sites, k \in Keys : \E plan :
              /\ LocalStep(site, k, plan)
              /\ Sound(Apply(stores[site][k], plan))
              /\ Forward(stores[site][k], Apply(stores[site][k], plan))
<1> DEFINE Good(site, k, plan) == /\ LocalStep(site, k, plan)
                                  /\ Sound(Apply(stores[site][k], plan))
                                  /\ Forward(stores[site][k], Apply(stores[site][k], plan))
<1> SUFFICES \E site \in Sites, k \in Keys : \E plan : Good(site, k, plan) OBVIOUS
<1>1. PICK site \in WriterSites, k \in Keys :
        \/ \E kind \in Kinds, body \in FreshBodies : LocalCreate(site, k, kind, body)
        \/ /\ IsLive(stores[site][k])
           /\ \E body \in EditsOf(stores[site][k].body) : LocalEdit(site, k, body)
        \/ LocalDelete(site, k)
        \/ site \in PurgeSites /\ LocalPurge(site, k)
  BY DEF LocalNext
<1>2. site \in Sites /\ Caps[site] \in Nat BY SyncAssumption
<1> DEFINE old == stores[site][k]
           cap == Caps[site]
<1>3. Sound(old) /\ old \in Slot /\ FiniteChain(old) /\ WellFormed(old) /\ old \in FiniteSlot
  BY <1>2 DEF IndInv, Sound, FiniteSlot
<1> HIDE DEF old, cap
<1>4. ASSUME NEW plan, LocalStep(site, k, plan), WellFormed(Apply(old, plan)),
             Forward(old, Apply(old, plan)),
             plan.outcome = "Write" => plan.record \in Record /\ FiniteChain(plan.record)
      PROVE  Good(site, k, plan)
  <2>1. plan.outcome \in {"Write", "Remove"} BY <1>4 DEF LocalStep
  <2>2. Apply(old, plan) \in Slot /\ FiniteChain(Apply(old, plan))
    BY <1>4, <2>1 DEF Apply, Slot, FiniteChain
  <2> QED BY <1>4, <2>2 DEF Sound, old
<1> HIDE DEF Good
<1>5. ASSUME NEW kind \in Kinds, NEW body \in FreshBodies, LocalCreate(site, k, kind, body)
      PROVE  \E plan : Good(site, k, plan)
  <2> DEFINE rec == CreateRecord(kind, body)
             plan == PlanPut(old, rec, None, cap)
  <2>1. kind \in LiveKinds /\ body \in Bodies BY SyncAssumption
  <2>2. rec \in Record /\ WellFormed(rec) /\ ~IsTombstone(rec) /\ rec.ancestors = {}
    <3>1. rec.ancestors = {} BY DEF CreateRecord
    <3> QED BY <2>1, <3>1, CreateWellFormed
  <2>3. FiniteChain(rec) BY <2>2, FS_EmptySet DEF FiniteChain
  <2> HIDE DEF rec
  <2>4. WellFormed(Apply(old, plan)) /\ Advances(old, Apply(old, plan))
    BY <1>3, <2>2, PutAdvances
  <2>5. plan.outcome = "Write" => WrittenOver(old, plan.record, cap)
    <3>1. old # None => None # old.revision BY <1>3, NoneAssumption DEF Slot, Record
    <3> QED BY <1>2, <1>3, <2>2, <2>3, <3>1, PutIsWritten DEF cap
  <2>6. LocalStep(site, k, plan) BY <1>5 DEF LocalCreate, old, cap, rec
  <2> HIDE DEF plan
  <2>7. Good(site, k, plan)
    BY <1>4, <2>4, <2>5, <2>6 DEF WrittenOver, Advances, Forward
  <2> QED BY <2>7
<1>6. ASSUME IsLive(old), NEW body \in EditsOf(old.body), LocalEdit(site, k, body)
      PROVE  \E plan : Good(site, k, plan)
  <2> DEFINE rec == UpdateRecord(old, body)
             expected == old.revision
             plan == PlanPut(old, rec, expected, cap)
  <2>0. old \in Record /\ ~IsTombstone(old) /\ old # None /\ expected \in Revision /\ expected # None
    BY <1>3, <1>6, NoneAssumption DEF IsLive, Slot, Record
  <2>1. body \in Bodies BY <2>0 DEF BodiesAreClosed, Record
  <2>2. /\ rec \in Record /\ WellFormed(rec) /\ ~IsTombstone(rec) /\ rec.ancestors = {}
        /\ rec.revision.counter > old.revision.counter
    <3>1. rec.ancestors = {} BY DEF UpdateRecord
    <3> QED BY <1>3, <2>0, <2>1, <3>1, UpdateWellFormed
  <2>3. FiniteChain(rec) BY <2>2, FS_EmptySet DEF FiniteChain
  <2> HIDE DEF rec
  <2>4. WellFormed(Apply(old, plan)) /\ Advances(old, Apply(old, plan))
    BY <1>3, <2>0, <2>2, PutAdvances
  <2>5. plan.outcome = "Write" => WrittenOver(old, plan.record, cap)
    BY <1>2, <1>3, <2>2, <2>3, PutIsWritten DEF cap
  <2>6. LocalStep(site, k, plan) BY <1>6 DEF LocalEdit, old, cap, rec
  <2> HIDE DEF plan
  <2>7. Good(site, k, plan)
    BY <1>4, <2>4, <2>5, <2>6 DEF WrittenOver, Advances, Forward
  <2> QED BY <2>7
<1>7. ASSUME LocalDelete(site, k) PROVE \E plan : Good(site, k, plan)
  <2> DEFINE plan == PlanDelete(old, None, 0, cap)
  <2>1. WellFormed(Apply(old, plan)) /\ Advances(old, Apply(old, plan))
    BY <1>3, DeleteAdvances
  <2>2. plan.outcome = "Write" => WrittenOver(old, plan.record, cap)
    BY <1>2, <1>3, DeleteIsWritten DEF cap
  <2>3. LocalStep(site, k, plan) BY <1>7 DEF LocalDelete, old, cap
  <2> HIDE DEF plan
  <2>4. Good(site, k, plan)
    BY <1>4, <2>1, <2>2, <2>3 DEF WrittenOver, Advances, Forward
  <2> QED BY <2>4
<1>8. ASSUME LocalPurge(site, k) PROVE \E plan : Good(site, k, plan)
  <2> DEFINE plan == PlanPurge(old, old.revision)
  <2>1. /\ WellFormed(Apply(old, plan))
        /\ Apply(old, plan) # old => Apply(old, plan) = None
    BY <1>3, PurgeRemoves
  <2>2. plan.outcome # "Write" BY DEF PlanPurge, Plan
  <2>3. LocalStep(site, k, plan) BY <1>8 DEF LocalPurge, old
  <2> HIDE DEF plan
  <2>4. Good(site, k, plan) BY <1>4, <2>1, <2>2, <2>3 DEF Forward
  <2> QED BY <2>4
<1> QED BY <1>1, <1>2, <1>5, <1>6, <1>7, <1>8 DEF old

LEMMA LocalKeeps ==
    ASSUME BodiesAreClosed, IndInv, LocalNext
    PROVE  IndInv'
<1>1. PICK site \in Sites, k \in Keys : \E plan :
              /\ LocalStep(site, k, plan)
              /\ Sound(Apply(stores[site][k], plan))
  BY LocalPlans
<1>2. PICK plan : LocalStep(site, k, plan) /\ Sound(Apply(stores[site][k], plan)) BY <1>1
<1>3. /\ Execute(None, site, k, plan) /\ run' = run /\ Disturb /\ TypeOK
      /\ Apply(stores[site][k], plan) \in Slot
  BY <1>2 DEF LocalStep, Sound, IndInv
<1>4. Wrote(None, site, k, Apply(stores[site][k], plan)) BY <1>3, ExecuteFacts
<1>5. TypeOK'
  <2>1. disturbances' \in 0..MaxDisturbances BY <1>3, SyncAssumption DEF Disturb, TypeOK
  <2> QED BY <1>3, <1>4, <2>1 DEF TypeOK, Wrote
<1>6. \A site2 \in Sites, k2 \in Keys : Sound(stores'[site2][k2])
  BY <1>2, <1>4 DEF IndInv, Wrote
<1>7. ASSUME NEW s \in Syncs PROVE RunOK(s)' /\ \A k2 \in Keys \ touched'[s] : Untouched(s, k2)'
  BY <1>3, <1>4, SyncAssumption, OthersKeep DEF Wrote
<1> QED BY <1>5, <1>6, <1>7 DEF IndInv, Sound, FiniteChain, WellFormed, BehindItself, NamesItsBody

\* A step of run s that writes to no store.
LEMMA RunStep ==
    ASSUME IndInv, NEW s \in Syncs, NEW r1 \in Runs, run' = [run EXCEPT ![s] = r1],
           stores' = stores, touched' \in [Syncs -> SUBSET Keys],
           \A q \in Syncs \ {s} : touched'[q] = touched[q],
           disturbances' \in 0..MaxDisturbances,
           RunOK(s)', \A k \in Keys \ touched'[s] : Untouched(s, k)'
    PROVE  IndInv'
<1>0. run \in [Syncs -> Runs] /\ stores \in [Sites -> [Keys -> Slot]] BY SyncTypes DEF IndInv
<1>1. TypeOK' BY <1>0 DEF TypeOK, Runs
<1>2. \A site \in Sites, k \in Keys : Sound(stores'[site][k]) BY DEF IndInv
<1>3. ASSUME NEW q \in Syncs, q # s PROVE RunOK(q)' /\ \A k \in Keys \ touched'[q] : Untouched(q, k)'
  <2>1. run'[q] = run[q] BY <1>0, <1>3
  <2>2. \A k : SlotA(q, k)' = SlotA(q, k) /\ SlotB(q, k)' = SlotB(q, k) BY DEF SlotA, SlotB
  <2> QED BY <1>3, <2>1, <2>2, OthersKeep
<1> QED BY <1>1, <1>2, <1>3 DEF IndInv, Sound, FiniteChain, WellFormed, BehindItself, NamesItsBody

\* Where a run starts over: an abort, or the caller's next run.
LEMMA RestartKeeps ==
    ASSUME IndInv, NEW s \in Syncs, run' = [run EXCEPT ![s] = Start],
           UNCHANGED <<stores, touched>>, disturbances' \in 0..MaxDisturbances
    PROVE  IndInv'
<1>0. run'[s] = Start /\ touched \in [Syncs -> SUBSET Keys] BY DEF IndInv, TypeOK
<1>1. RunOK(s)' BY <1>0, StartIsRun, NothingIsSound DEF RunOK
<1>2. \A k \in Keys \ touched'[s] : Untouched(s, k)' BY <1>0, StartIsRun DEF Untouched
<1> QED BY <1>0, <1>1, <1>2, StartIsRun, RunStep

LEMMA AbortKeeps == ASSUME IndInv, NEW s \in Syncs, Abort(s) PROVE IndInv'
<1>1. disturbances' \in 0..MaxDisturbances BY SyncAssumption DEF Abort, Disturb, IndInv, TypeOK
<1> QED BY <1>1, RestartKeeps DEF Abort

LEMMA AgainKeeps == ASSUME IndInv, NEW s \in Syncs, Again(s) PROVE IndInv'
<1>1. disturbances' \in 0..MaxDisturbances BY DEF Again, IndInv, TypeOK
<1> QED BY <1>1, RestartKeeps DEF Again

LEMMA ListAKeeps == ASSUME IndInv, NEW s \in Syncs, ListA(s) PROVE IndInv'
<1> DEFINE r == run[s]
           r1 == [r EXCEPT !.pc = "list_b", !.report = NoReport, !.keys = Present(Side[s].a)]
<1>0. /\ r \in Runs /\ RunOK(s) /\ r.pc = "list_a" /\ run \in [Syncs -> Runs]
      /\ touched \in [Syncs -> SUBSET Keys] /\ disturbances \in 0..MaxDisturbances
  BY SyncTypes DEF IndInv, ListA
<1>1. /\ run' = [run EXCEPT ![s] = r1] /\ touched' = [touched EXCEPT ![s] = {}]
      /\ UNCHANGED <<stores, disturbances>>
  BY <1>0 DEF ListA
<1>2. NoReport \in [Keys -> Outcomes] /\ \A k \in Keys : NoReport[k] = "none" BY DEF NoReport, Outcomes
<1>3. /\ r1 \in Runs /\ r1.pc = "list_b" /\ r1.report = NoReport /\ r1.keys = Present(Side[s].a)
      /\ r1.seen_a = r.seen_a /\ r1.plan = r.plan
  <2>1. Present(Side[s].a) \in SUBSET Keys BY DEF Present
  <2> QED BY <1>0, <1>2, <2>1 DEF Runs
<1> HIDE DEF r1
<1>4. run'[s] = r1 BY <1>0, <1>1
<1>5. RunOK(s)' BY <1>0, <1>3, <1>4 DEF RunOK
<1>6. ASSUME NEW k \in Keys PROVE Untouched(s, k)'
  <2>1. k \notin Present(Side[s].a) => SlotA(s, k)' = None BY <1>1 DEF Present, SlotA
  <2> QED BY <1>2, <1>3, <1>4, <2>1 DEF Untouched
<1> QED BY <1>0, <1>1, <1>3, <1>5, <1>6, RunStep

LEMMA ListBKeeps == ASSUME IndInv, NEW s \in Syncs, ListB(s) PROVE IndInv'
<1> DEFINE r == run[s]
           r1 == [r EXCEPT !.pc = "next", !.keys = r.keys \cup Present(Side[s].b)]
<1>0. /\ r \in Runs /\ RunOK(s) /\ r.pc = "list_b" /\ run \in [Syncs -> Runs]
      /\ touched \in [Syncs -> SUBSET Keys] /\ disturbances \in 0..MaxDisturbances
  BY SyncTypes DEF IndInv, ListB
<1>1. /\ run' = [run EXCEPT ![s] = r1] /\ UNCHANGED <<stores, touched, disturbances>>
  BY <1>0 DEF ListB, Runs
<1>3. /\ r1 \in Runs /\ r1.pc = "next" /\ r1.report = r.report /\ r1.keys = r.keys \cup Present(Side[s].b)
      /\ r1.seen_a = r.seen_a /\ r1.plan = r.plan
  <2>1. Present(Side[s].b) \in SUBSET Keys BY DEF Present
  <2> QED BY <1>0, <2>1 DEF Runs
<1> HIDE DEF r1
<1>4. run'[s] = r1 BY <1>0, <1>1
<1>5. RunOK(s)' BY <1>0, <1>3, <1>4 DEF RunOK
<1>6. ASSUME NEW k \in Keys \ touched'[s] PROVE Untouched(s, k)'
  <2>0. Untouched(s, k) BY <1>1 DEF IndInv
  <2>1. k \notin Present(Side[s].b) => SlotB(s, k)' = None BY <1>1 DEF Present, SlotB
  <2>2. k \notin r.keys => SlotA(s, k)' = None BY <1>0, <1>1, <2>0 DEF Untouched, SlotA
  <2>3. Agree(None, None) BY DEF Agree, IsLive
  <2> QED BY <1>3, <1>4, <2>0, <2>1, <2>2, <2>3 DEF Untouched
<1> QED BY <1>0, <1>1, <1>3, <1>5, <1>6, RunStep

LEMMA ReadAKeeps == ASSUME IndInv, NEW s \in Syncs, NEW k \in Keys, ReadA(s, k) PROVE IndInv'
<1> DEFINE r == run[s]
           r1 == [r EXCEPT !.pc = "read_b", !.key = k, !.keys = r.keys \ {k},
                           !.seen_a = stores[Side[s].a][k]]
<1>0. /\ r \in Runs /\ RunOK(s) /\ r.pc = "next" /\ k \in r.keys /\ run \in [Syncs -> Runs]
      /\ touched \in [Syncs -> SUBSET Keys] /\ disturbances \in 0..MaxDisturbances
  BY SyncTypes DEF IndInv, ReadA
<1>1. /\ run' = [run EXCEPT ![s] = r1] /\ UNCHANGED <<stores, touched, disturbances>>
  BY <1>0 DEF ReadA, Runs
<1>2. Sound(SlotA(s, k)) /\ SlotA(s, k) \in Slot BY SidesAreSites DEF IndInv, SlotA, Sound
<1>3. /\ r1 \in Runs /\ r1.pc = "read_b" /\ r1.report = r.report /\ r1.keys = r.keys \ {k}
      /\ r1.seen_a = SlotA(s, k) /\ r1.plan = r.plan /\ r1.key = k
  BY <1>0, <1>2 DEF Runs, SlotA
<1> HIDE DEF r1
<1>4. run'[s] = r1 BY <1>0, <1>1
<1>5. RunOK(s)' BY <1>0, <1>2, <1>3, <1>4 DEF RunOK
<1>6. ASSUME NEW k2 \in Keys \ touched'[s] PROVE Untouched(s, k2)'
  <2>0. Untouched(s, k2) BY <1>1 DEF IndInv
  <2>1. SlotB(s, k2)' = SlotB(s, k2) /\ SlotA(s, k2)' = SlotA(s, k2) BY <1>1 DEF SlotA, SlotB
  <2> QED BY <1>0, <1>3, <1>4, <2>0, <2>1 DEF Untouched, Current
<1> QED BY <1>0, <1>1, <1>3, <1>5, <1>6, RunStep

LEMMA EndPassKeeps == ASSUME IndInv, NEW s \in Syncs, EndPass(s) PROVE IndInv'
<1> DEFINE r == run[s]
           stop == Raced(s) = {} \/ r.pass = MaxPasses
           r1 == IF stop THEN [r EXCEPT !.pc = "done", !.key = None]
                 ELSE [r EXCEPT !.pc = "list_a", !.key = None, !.pass = r.pass + 1]
<1>0. /\ r \in Runs /\ RunOK(s) /\ r.pc = "next" /\ r.keys = {} /\ run \in [Syncs -> Runs]
      /\ touched \in [Syncs -> SUBSET Keys] /\ disturbances \in 0..MaxDisturbances
  BY SyncTypes DEF IndInv, EndPass
<1>1. /\ run' = [run EXCEPT ![s] = r1] /\ UNCHANGED <<stores, touched, disturbances>>
  BY <1>0 DEF EndPass, Runs
<1>2. ~stop => r.pass + 1 \in 1..MaxPasses
  <2>1. r.pass \in 1..MaxPasses /\ MaxPasses \in Nat BY <1>0, SyncAssumption DEF Runs
  <2> HIDE DEF r
  <2> QED BY <2>1
<1>3. /\ r1 \in Runs /\ r1.pc = (IF stop THEN "done" ELSE "list_a") /\ r1.report = r.report
      /\ r1.keys = r.keys /\ r1.seen_a = r.seen_a /\ r1.plan = r.plan
  BY <1>0, <1>2 DEF Runs
<1> HIDE DEF r1, stop
<1>4. run'[s] = r1 BY <1>0, <1>1
<1>5. RunOK(s)' BY <1>0, <1>3, <1>4 DEF RunOK
<1>6. ASSUME NEW k2 \in Keys \ touched'[s] PROVE Untouched(s, k2)'
  <2>0. Untouched(s, k2) BY <1>1 DEF IndInv
  <2>1. SlotB(s, k2)' = SlotB(s, k2) /\ SlotA(s, k2)' = SlotA(s, k2) BY <1>1 DEF SlotA, SlotB
  <2> QED BY <1>0, <1>3, <1>4, <2>0, <2>1 DEF Untouched, Current
<1> QED BY <1>0, <1>1, <1>3, <1>5, <1>6, RunStep

LEMMA ReadBKeeps == ASSUME BodiesAreClosed, IndInv, NEW s \in Syncs, ReadB(s) PROVE IndInv'
<1> DEFINE r == run[s]
           a == r.seen_a
<1>0. /\ r \in Runs /\ RunOK(s) /\ r.pc = "read_b" /\ run \in [Syncs -> Runs]
      /\ touched \in [Syncs -> SUBSET Keys] /\ disturbances \in 0..MaxDisturbances
      /\ r.key \in Keys /\ Sound(a) /\ a \in Slot
  BY SyncTypes DEF IndInv, ReadB, RunOK, Sound
<1>1. PICK key \in Keys : key = r.key BY <1>0
<1> DEFINE b == SlotB(s, key)
<1>2. Sound(b) /\ b \in Slot BY SidesAreSites DEF IndInv, SlotB, Sound
<1>3. PICK base \in Bodies :
         run' = [run EXCEPT ![s] =
                    LET d == Decide(a, b, base) IN
                    IF d.a = None /\ d.b = None
                    THEN [r EXCEPT !.pc = "next", !.seen_a = None, !.report[r.key] = d.outcome]
                    ELSE [r EXCEPT !.pc = "write", !.seen_a = None, !.plan = d, !.landed = TRUE]]
  <2>1. (IF a = None \/ b = None THEN {EmptyBody} ELSE AncestryBases(a, b)) \subseteq Bodies
    BY BodiesAssumption DEF AncestryBases
  <2> QED BY <1>1, <2>1 DEF ReadB, SlotB
<1> DEFINE d == Decide(a, b, base)
           r1 == IF d.a = None /\ d.b = None
                 THEN [r EXCEPT !.pc = "next", !.seen_a = None, !.report[r.key] = d.outcome]
                 ELSE [r EXCEPT !.pc = "write", !.seen_a = None, !.plan = d, !.landed = TRUE]
<1>4. run' = [run EXCEPT ![s] = r1] /\ UNCHANGED <<stores, touched, disturbances>>
  BY <1>3 DEF ReadB
<1>5. DecisionOK(a, b, d) BY <1>0, <1>2, DecideIsOK
<1>6. d \in [a : Plans, b : Plans, outcome : Outcomes] BY <1>5 DEF DecisionOK
<1> HIDE DEF d
<1>7. CASE d.a = None /\ d.b = None
  <2>1. /\ r1 \in Runs /\ r1.pc = "next" /\ r1.seen_a = None /\ r1.plan = r.plan
        /\ r1.keys = r.keys /\ r1.report[key] = d.outcome
        /\ \A k \in Keys \ {key} : r1.report[k] = r.report[k]
    BY <1>0, <1>1, <1>6, <1>7 DEF Runs, Slot
  <2> HIDE DEF r1
  <2>2. run'[s] = r1 BY <1>0, <1>4
  <2>3. RunOK(s)' BY <1>0, <2>1, <2>2, NothingIsSound DEF RunOK
  <2>4. ASSUME NEW k \in Keys \ touched'[s] PROVE Untouched(s, k)'
    <3>0. Untouched(s, k) BY <1>4 DEF IndInv
    <3>1. SlotB(s, k)' = SlotB(s, k) /\ SlotA(s, k)' = SlotA(s, k) BY <1>4 DEF SlotA, SlotB
    <3>2. CASE k # key
      BY <1>0, <1>1, <2>1, <2>2, <3>0, <3>1, <3>2 DEF Untouched, Current
    <3>3. CASE k = key
      <4>1. a = SlotA(s, k) BY <1>0, <1>1, <3>0, <3>3 DEF Untouched
      <4>2. d.outcome # "raced" /\ (d.outcome # "conflict" => Agree(SlotA(s, k), b))
        BY <1>5, <1>7, <4>1 DEF DecisionOK
      <4> QED BY <2>1, <2>2, <3>1, <3>3, <4>2 DEF Untouched, Current
    <3> QED BY <3>2, <3>3
  <2> QED BY <1>0, <1>4, <2>1, <2>3, <2>4, RunStep
<1>8. CASE ~(d.a = None /\ d.b = None)
  <2>1. /\ r1 \in Runs /\ r1.pc = "write" /\ r1.seen_a = None /\ r1.plan = d
        /\ r1.keys = r.keys /\ r1.report = r.report /\ r1.landed /\ r1.key = key
    BY <1>0, <1>1, <1>6, <1>8 DEF Runs, Slot
  <2> HIDE DEF r1
  <2>2. run'[s] = r1 BY <1>0, <1>4
  <2>3. RunOK(s)' BY <1>5, <1>8, <2>1, <2>2, NothingIsSound DEF RunOK, DecisionOK
  <2>4. ASSUME NEW k \in Keys \ touched'[s] PROVE Untouched(s, k)'
    <3>0. Untouched(s, k) BY <1>4 DEF IndInv
    <3>1. SlotB(s, k)' = SlotB(s, k) /\ SlotA(s, k)' = SlotA(s, k) BY <1>4 DEF SlotA, SlotB
    <3>2. CASE k # key
      BY <1>0, <1>1, <2>1, <2>2, <3>0, <3>1, <3>2 DEF Untouched, Current
    <3>3. CASE k = key
      <4>1. a = SlotA(s, k) /\ r.report[k] # "raced" BY <1>0, <1>1, <3>0, <3>3 DEF Untouched
      <4> QED BY <1>5, <1>8, <2>1, <2>2, <3>1, <3>3, <4>1 DEF Untouched, Current, DecisionOK
    <3> QED BY <3>2, <3>3
  <2> QED BY <1>0, <1>4, <2>1, <2>3, <2>4, RunStep
<1> QED BY <1>7, <1>8

\* put_raw of a record that knows what it replaces: the slot stays sound, moves forward,
\* and shows that version if the slot is still what was expected.
LEMMA PutRawIsSound ==
    ASSUME NEW slot, Sound(slot), NEW rec \in Record, Sound(rec), NEW cap,
           NEW expected \in Revision \cup {None}, expected # None => expected \in Lineage(rec)
    PROVE  LET plan == PlanPutRaw(slot, rec, expected, cap)
               new  == Apply(slot, plan)
           IN  /\ Sound(new)
               /\ Forward(slot, new)
               /\ slot # None /\ new # slot => slot.revision \in Lineage(rec)
               /\ expected = ExpectedOf(slot) => plan.outcome = "Write" /\ SameVersion(new, rec)
<1> DEFINE plan == PlanPutRaw(slot, rec, expected, cap)
           new == Apply(slot, plan)
<1>0. /\ slot \in Slot /\ WellFormed(slot) /\ FiniteChain(slot) /\ WellFormed(rec) /\ FiniteChain(rec)
      /\ rec # None /\ rec.revision \in Revision
  BY NoneIsNotRecord DEF Sound, Record
<1>1. expected # None => \/ rec.revision.counter > expected.counter
                         \/ rec.revision = expected
  <2>1. \A r \in rec.ancestors : r \in Revision /\ r.counter < rec.revision.counter
    BY <1>0 DEF WellFormed, BehindItself, Record
  <2> QED BY <1>0, <2>1 DEF Lineage, Revision
<1>2. /\ new \in Slot /\ WellFormed(new)
      /\ slot # None /\ new # slot =>
            /\ new # None /\ expected = slot.revision
            /\ \/ new.revision.counter > slot.revision.counter
               \/ new.revision = slot.revision
  BY <1>0, <1>1, PutRawAdvances
<1>3. plan.outcome = "Write" => plan.record = Persisted(slot, rec, cap)
  BY DEF PlanPutRaw, Write, Plan
<1>4. plan.outcome # "Write" => new = slot /\ plan.outcome \in {"NotFound", "Conflict"}
  BY DEF PlanPutRaw, Write, Plan, Apply
<1>5. /\ Persisted(slot, rec, cap) \in Record /\ FiniteChain(Persisted(slot, rec, cap))
      /\ SameVersion(Persisted(slot, rec, cap), rec)
  <2> DEFINE anc == FoldAncestors(rec.revision, rec.ancestors, slot, cap)
             p == Persisted(slot, rec, cap)
  <2>1. IsFiniteSet(anc) BY <1>0, FoldIsFinite DEF FiniteChain
  <2>2. anc \subseteq Revision
    <3>1. anc \subseteq rec.ancestors \cup Lineage(slot) BY FoldIsBounded
    <3> QED BY <1>0, <3>1, LineageFacts DEF Record
  <2>3. p = [rec EXCEPT !.ancestors = anc] BY DEF Persisted
  <2> HIDE DEF anc, p
  <2>4. /\ p \in Record /\ p.ancestors = anc /\ p.revision = rec.revision /\ p.body = rec.body
        /\ p.kind = rec.kind
    BY <2>2, <2>3 DEF Record
  <2> QED BY <1>0, <2>1, <2>4, NoneIsNotRecord DEF FiniteChain, SameVersion, p
<1>6. plan.outcome = "Write" => new = Persisted(slot, rec, cap) BY <1>3 DEF Apply
<1>7. FiniteChain(new) BY <1>0, <1>4, <1>5, <1>6
<1>8. expected = ExpectedOf(slot) => plan.outcome = "Write"
  BY DEF PlanPutRaw, ExpectedOf, Write
<1> HIDE DEF new, plan
<1>9. slot # None /\ new # slot => slot.revision \in Lineage(rec)
  <2>1. slot # None => slot.revision # None BY <1>0, NoneAssumption DEF Slot, Record
  <2> QED BY <1>2, <2>1
<1> QED BY <1>2, <1>5, <1>6, <1>7, <1>8, <1>9 DEF Sound, Forward, new, plan

\* Two slots that show one version of a record agree.
LEMMA SameVersionAgrees ==
    ASSUME NEW a, NEW b, NEW rec, SameVersion(a, rec), SameVersion(b, rec)
    PROVE  Agree(a, b)
BY DEF SameVersion, Agree, IsLive, IsTombstone

\* The facts of a write to either side.
LEMMA WriteFacts ==
    ASSUME IndInv, NEW s \in Syncs, NEW side \in {"a", "b"}, WriteSide(s, side)
    PROVE  \E site, key, put, result :
              /\ site \in Sites /\ key \in Keys /\ put \in Plans
              /\ site = Side[s][side] /\ key = run[s].key /\ put = run[s].plan[side] /\ put # None
              /\ result = PlanPutRaw(stores[site][key], put.record, put.expected, Caps[site])
              /\ Wrote(s, site, key, Apply(stores[site][key], result))
              /\ Sound(Apply(stores[site][key], result))
              /\ Forward(stores[site][key], Apply(stores[site][key], result))
              /\ stores[site][key] # None /\ Apply(stores[site][key], result) # stores[site][key]
                 => stores[site][key].revision \in Lineage(put.record)
              /\ put.expected = ExpectedOf(stores[site][key]) =>
                    /\ result.outcome = "Write"
                    /\ SameVersion(Apply(stores[site][key], result), put.record)
<1> DEFINE r == run[s]
<1>0. r \in Runs /\ RunOK(s) /\ r.pc = "write" /\ TypeOK BY SyncTypes DEF IndInv, WriteSide
<1>1. PICK site \in Sites : site = Side[s][side] BY SidesAreSites
<1>2. PICK key \in Keys : key = r.key BY <1>0 DEF RunOK
<1>3. PICK put \in Plans : put = r.plan[side] BY <1>0 DEF Runs
<1>4. put # None BY <1>3 DEF WriteSide
<1>5. /\ put \in [record : Record, expected : Revision \cup {None}]
      /\ Sound(put.record) /\ (put.expected # None => put.expected \in Lineage(put.record))
  <2>1. SoundPut(put) BY <1>0, <1>3 DEF RunOK
  <2> QED BY <1>4, <2>1 DEF Plans, SoundPut
<1> DEFINE slot == stores[site][key]
           result == PlanPutRaw(slot, put.record, put.expected, Caps[site])
<1>6. Sound(slot) BY DEF IndInv
<1>7. Execute(s, site, key, result) BY <1>1, <1>2, <1>3 DEF WriteSide
<1> HIDE DEF slot
<1>8. /\ Sound(Apply(slot, result))
      /\ Forward(slot, Apply(slot, result))
      /\ slot # None /\ Apply(slot, result) # slot => slot.revision \in Lineage(put.record)
      /\ put.expected = ExpectedOf(slot) =>
            result.outcome = "Write" /\ SameVersion(Apply(slot, result), put.record)
  BY <1>5, <1>6, PutRawIsSound
<1>9. PICK res : res = result OBVIOUS
<1> HIDE DEF result
<1>10. Wrote(s, site, key, Apply(slot, res))
  <2>1. Apply(slot, res) \in Slot BY <1>8, <1>9 DEF Sound
  <2> QED BY <1>0, <1>7, <1>9, <2>1, ExecuteFacts DEF slot
<1> QED BY <1>1, <1>2, <1>3, <1>4, <1>8, <1>9, <1>10 DEF slot, result

\* The first of two writes of a merge, and the last write of any decision.
LEMMA WriteSideKeeps ==
    ASSUME IndInv, NEW s \in Syncs, NEW side \in {"a", "b"}, WriteSide(s, side)
    PROVE  IndInv'
<1> DEFINE r == run[s]
<1>0. /\ r \in Runs /\ RunOK(s) /\ r.pc = "write" /\ run \in [Syncs -> Runs]
      /\ touched \in [Syncs -> SUBSET Keys] /\ disturbances \in 0..MaxDisturbances
      /\ r.key \in Keys /\ TypeOK
  BY SyncTypes DEF IndInv, WriteSide, RunOK
<1>1. PICK site, key, put, result :
              /\ site \in Sites /\ key \in Keys /\ put \in Plans
              /\ site = Side[s][side] /\ key = r.key /\ put = r.plan[side] /\ put # None
              /\ result = PlanPutRaw(stores[site][key], put.record, put.expected, Caps[site])
              /\ Wrote(s, site, key, Apply(stores[site][key], result))
              /\ Sound(Apply(stores[site][key], result))
              /\ put.expected = ExpectedOf(stores[site][key]) =>
                    /\ result.outcome = "Write"
                    /\ SameVersion(Apply(stores[site][key], result), put.record)
  BY WriteFacts
<1> DEFINE new == Apply(stores[site][key], result)
           landed == r.landed /\ result.outcome = "Write"
           last == side = "b" \/ r.plan.b = None
           rLast == [r EXCEPT !.pc = "next", !.plan = NoPlan, !.landed = TRUE,
                              !.report[r.key] = IF landed THEN r.plan.outcome ELSE "raced"]
           rFirst == [r EXCEPT !.plan[side] = None, !.landed = landed]
           r1 == IF last THEN rLast ELSE rFirst
<1>2. /\ run' = [run EXCEPT ![s] = r1] /\ disturbances' = disturbances
      /\ side = "b" => r.plan.a = None
  BY <1>1 DEF WriteSide
<1>3. /\ Side[s].a \in Sites /\ Side[s].b \in Sites /\ Side[s].a # Side[s].b
      /\ side = "a" => site = Side[s].a /\ put = r.plan.a
      /\ side = "b" => site = Side[s].b /\ put = r.plan.b
  BY <1>1, SidesAreSites
<1>4. NoPlan \in [a : Plans, b : Plans, outcome : Outcomes] /\ NoPlan.a = None /\ NoPlan.b = None
  BY DEF NoPlan, Decision, Plans, Outcomes
<1>5. last => /\ r1 \in Runs /\ r1.pc = "next" /\ r1.plan.a = None /\ r1.plan.b = None
              /\ r1.seen_a = r.seen_a /\ r1.keys = r.keys
              /\ r1.report[key] = (IF landed THEN r.plan.outcome ELSE "raced")
              /\ \A k \in Keys \ {key} : r1.report[k] = r.report[k]
  <2>1. (IF landed THEN r.plan.outcome ELSE "raced") \in Outcomes BY <1>0 DEF Runs, Outcomes
  <2> HIDE DEF landed
  <2>2. /\ rLast \in Runs /\ rLast.pc = "next" /\ rLast.plan = NoPlan
        /\ rLast.seen_a = r.seen_a /\ rLast.keys = r.keys
        /\ rLast.report[key] = (IF landed THEN r.plan.outcome ELSE "raced")
        /\ \A k \in Keys \ {key} : rLast.report[k] = r.report[k]
    BY <1>0, <1>1, <1>4, <2>1 DEF Runs
  <2> HIDE DEF rLast
  <2> QED BY <1>4, <2>2
<1>6. ~last => /\ r1 \in Runs /\ r1.pc = "write" /\ r1.plan.a = None /\ r1.plan.b = r.plan.b
               /\ r1.plan.outcome = r.plan.outcome /\ r1.landed = landed
               /\ r1.seen_a = r.seen_a /\ r1.keys = r.keys /\ r1.key = key /\ r1.report = r.report
               /\ side = "a" /\ r.plan.b # None
  <2>1. landed \in BOOLEAN BY <1>0 DEF Runs
  <2> HIDE DEF landed
  <2>2. ASSUME ~last PROVE /\ side = "a" /\ r.plan.b # None
    BY <2>2
  <2>3. ASSUME side = "a"
        PROVE  /\ rFirst \in Runs /\ rFirst.pc = "write" /\ rFirst.plan.a = None /\ rFirst.plan.b = r.plan.b
               /\ rFirst.plan.outcome = r.plan.outcome /\ rFirst.landed = landed
               /\ rFirst.seen_a = r.seen_a /\ rFirst.keys = r.keys /\ rFirst.key = key
               /\ rFirst.report = r.report
    <3> DEFINE rest == [r.plan EXCEPT !.a = None]
    <3>1. r.plan \in [a : Plans, b : Plans, outcome : Outcomes] /\ None \in Plans
      BY <1>0 DEF Runs, Plans
    <3>2. /\ rest \in [a : Plans, b : Plans, outcome : Outcomes] /\ rest.a = None
          /\ rest.b = r.plan.b /\ rest.outcome = r.plan.outcome
      BY <3>1
    <3>3. rFirst = [r EXCEPT !.plan = rest, !.landed = landed]
      BY <1>0, <2>3, <3>1 DEF Runs
    <3> HIDE DEF rest, rFirst
    <3> QED
      BY <1>0, <1>1, <2>1, <3>2, <3>3 DEF Runs
  <2> HIDE DEF rFirst
  <2> QED BY <2>2, <2>3
<1> HIDE DEF r1, new
<1>7. run'[s] = r1 /\ r1 \in Runs BY <1>0, <1>2, <1>5, <1>6
<1>8. TypeOK'
  <2>1. run' \in [Syncs -> Runs] BY <1>0, <1>2, <1>7
  <2> QED BY <1>0, <1>1, <1>2, <2>1 DEF TypeOK, Runs, Wrote
<1>9. \A site2 \in Sites, k2 \in Keys : Sound(stores'[site2][k2])
  BY <1>1 DEF IndInv, Wrote, new
<1>10. ASSUME NEW q \in Syncs, q # s PROVE RunOK(q)' /\ \A k2 \in Keys \ touched'[q] : Untouched(q, k2)'
  <2>1. run'[q] = run[q] BY <1>0, <1>2, <1>10
  <2>2. touched[q] \subseteq touched'[q] BY <1>1, <1>10 DEF Wrote
  <2>3. \A k \in Keys \ touched'[q] : SlotA(q, k)' = SlotA(q, k) /\ SlotB(q, k)' = SlotB(q, k)
    BY <1>1, <1>10 DEF Wrote
  <2> QED BY <1>1, <1>10, <2>1, <2>2, <2>3, OthersKeep
<1>11. RunOK(s)'
  <2>1. CASE last
    <3>1. /\ run'[s] = r1 /\ r1.pc = "next" /\ r1.plan.a = None /\ r1.plan.b = None
          /\ r1.seen_a = r.seen_a
      BY <1>5, <1>7, <2>1
    <3>2. Sound(r.seen_a) BY <1>0 DEF RunOK
    <3> QED BY <3>1, <3>2, NothingIsSound DEF RunOK
  <2>2. CASE ~last
    <3>1. key \in Keys BY <1>1
    <3> QED BY <1>0, <1>6, <1>7, <2>2, <3>1, NothingIsSound DEF RunOK
  <2> QED BY <2>1, <2>2
<1>12. ASSUME NEW k \in Keys \ touched'[s] PROVE Untouched(s, k)'
  <2>0. Untouched(s, k) /\ touched'[s] = touched[s]
    <3>1. touched'[s] = touched[s] BY <1>1 DEF Wrote
    <3> QED BY <1>12, <3>1 DEF IndInv
  <2>1. CASE k # key
    <3>1. SlotA(s, k)' = SlotA(s, k) /\ SlotB(s, k)' = SlotB(s, k)
      BY <1>1, <1>3, <1>12, <2>1 DEF Wrote, SlotA, SlotB
    <3>2. CASE last
      BY <1>0, <1>1, <1>5, <1>7, <2>0, <2>1, <3>1, <3>2 DEF Untouched, Current
    <3>3. CASE ~last
      BY <1>0, <1>1, <1>6, <1>7, <2>0, <2>1, <3>1, <3>3 DEF Untouched, Current
    <3> QED BY <3>2, <3>3
  <2>2. CASE k = key
    <3>0. r.key = k BY <1>1, <2>2
    <3>1. /\ r.report[k] # "raced" /\ r.landed
          /\ r.plan.a # None => r.plan.a.expected = ExpectedOf(SlotA(s, k))
          /\ r.plan.b # None => r.plan.b.expected = ExpectedOf(SlotB(s, k))
          /\ r.plan.a # None /\ r.plan.b # None => r.plan.a.record = r.plan.b.record
          /\ r.plan.a = None => SameVersion(SlotA(s, k), r.plan.b.record)
          /\ r.plan.b = None => SameVersion(SlotB(s, k), r.plan.a.record)
      BY <1>0, <2>0, <3>0 DEF Untouched
    <3>2. CASE side = "a"
      <4>0. site = Side[s].a /\ put = r.plan.a /\ put # None BY <1>1, <1>3, <3>2
      <4>1. stores[site][key] = SlotA(s, k) BY <2>2, <4>0 DEF SlotA
      <4>2. result.outcome = "Write" /\ SameVersion(new, put.record)
        BY <1>1, <3>1, <4>0, <4>1 DEF new
      <4>3. SlotA(s, k)' = new /\ SlotB(s, k)' = SlotB(s, k)
        BY <1>1, <1>3, <1>12, <2>2, <4>0 DEF Wrote, SlotA, SlotB, new
      <4>4. landed BY <3>1, <4>2
      <4>5. CASE last
        <5>1. r.plan.b = None BY <3>2, <4>5
        <5>2. Agree(new, SlotB(s, k)) BY <3>1, <4>0, <4>2, <5>1, SameVersionAgrees
        <5>3. r.plan.outcome # "raced" BY <1>0 DEF RunOK
        <5> QED BY <1>5, <1>7, <2>2, <4>3, <4>4, <4>5, <5>2, <5>3 DEF Untouched, Current
      <4>6. CASE ~last
        BY <1>6, <1>7, <2>2, <3>1, <4>0, <4>2, <4>3, <4>4, <4>6 DEF Untouched, Current
      <4> QED BY <4>5, <4>6
    <3>3. CASE side = "b"
      <4>0. site = Side[s].b /\ put = r.plan.b /\ put # None /\ r.plan.a = None
        BY <1>1, <1>2, <1>3, <3>3
      <4>1. stores[site][key] = SlotB(s, k) BY <2>2, <4>0 DEF SlotB
      <4>2. result.outcome = "Write" /\ SameVersion(new, put.record)
        BY <1>1, <3>1, <4>0, <4>1 DEF new
      <4>3. SlotB(s, k)' = new /\ SlotA(s, k)' = SlotA(s, k)
        BY <1>1, <1>3, <1>12, <2>2, <4>0 DEF Wrote, SlotA, SlotB, new
      <4>4. landed /\ last BY <3>1, <3>3, <4>2
      <4>5. Agree(SlotA(s, k), new) BY <3>1, <4>0, <4>2, SameVersionAgrees
      <4>6. r.plan.outcome # "raced" BY <1>0 DEF RunOK
      <4> QED BY <1>5, <1>7, <2>2, <4>3, <4>4, <4>5, <4>6 DEF Untouched, Current
    <3> QED BY <3>2, <3>3
  <2> QED BY <2>1, <2>2
<1> QED BY <1>8, <1>9, <1>10, <1>11, <1>12 DEF IndInv, Sound, FiniteChain, WellFormed, BehindItself, NamesItsBody

LEMMA SyncStep == ASSUME BodiesAreClosed, IndInv, [Next]_vars PROVE IndInv'
<1>1. CASE UNCHANGED vars
  <2>1. UNCHANGED <<stores, run, touched, disturbances>> BY <1>1 DEF vars
  <2>2. TypeOK' BY <2>1 DEF IndInv, TypeOK
  <2>3. \A site \in Sites, k \in Keys : Sound(stores'[site][k]) BY <2>1 DEF IndInv
  <2>4. ASSUME NEW s \in Syncs PROVE RunOK(s)' /\ \A k \in Keys \ touched'[s] : Untouched(s, k)'
    <3>1. \A k : SlotA(s, k)' = SlotA(s, k) /\ SlotB(s, k)' = SlotB(s, k) BY <2>1 DEF SlotA, SlotB
    <3> QED BY <2>1, <3>1, OthersKeep
  <2> QED BY <2>2, <2>3, <2>4 DEF IndInv, Sound, FiniteChain, WellFormed, BehindItself, NamesItsBody
<1>2. ASSUME NEW s \in Syncs, SyncNext(s) PROVE IndInv'
  BY <1>2, ListAKeeps, ListBKeeps, ReadAKeeps, ReadBKeeps, WriteSideKeeps, EndPassKeeps, AgainKeeps
  DEF SyncNext
<1> QED BY <1>1, <1>2, LocalKeeps, AbortKeeps DEF Next

\* A write of run s to one side takes no other plan off the run's list.
LEMMA OnePlanAtATime ==
    ASSUME IndInv, NEW s \in Syncs, NEW side \in {"a", "b"}, WriteSide(s, side),
           NEW s2 \in Syncs, NEW side2 \in {"a", "b"},
           run[s2].plan[side2] # None, run'[s2].plan[side2] = None
    PROVE  s2 = s /\ side2 = side
<1> DEFINE r == run[s]
           landed == r.landed /\ PlanPutRaw(stores[Side[s][side]][r.key], r.plan[side].record,
                                            r.plan[side].expected, Caps[Side[s][side]]).outcome = "Write"
           rFirst == [r EXCEPT !.plan[side] = None, !.landed = landed]
<1>0. run \in [Syncs -> Runs] /\ r \in Runs BY SyncTypes DEF IndInv
<1>1. s2 = s
  <2>1. \E r1 : run' = [run EXCEPT ![s] = r1] BY DEF WriteSide
  <2> QED BY <1>0, <2>1
<1>2. (side = "b" => r.plan.a = None) BY DEF WriteSide
<1>3. CASE side = "a" /\ side2 = "b"
  <2>1. r.plan.b # None BY <1>1, <1>3
  <2>2. run' = [run EXCEPT ![s] = rFirst] BY <1>3, <2>1 DEF WriteSide
  <2>3. rFirst.plan.b = r.plan.b
    <3> HIDE DEF landed
    <3> QED BY <1>0, <1>3 DEF Runs
  <2> HIDE DEF rFirst
  <2>4. run'[s].plan.b = r.plan.b BY <1>0, <2>2, <2>3
  <2> QED BY <1>1, <1>3, <2>1, <2>4
<1> QED BY <1>1, <1>2, <1>3

\* What one step may do to the stores, as HistoryMovesForward and OverwritesOnlyAncestors
\* say it.
MovesForward == \A site \in Sites, k \in Keys : Forward(stores[site][k], stores'[site][k])
OverwritesAncestors ==
    \A s \in Syncs, side \in {"a", "b"} :
       (run[s].plan[side] # None /\ run'[s].plan[side] = None /\ run'[s].pc # "list_a"
        /\ stores[Side[s][side]][run[s].key] # None /\ stores' # stores)
       => stores[Side[s][side]][run[s].key].revision \in Lineage(run[s].plan[side].record)

LEMMA StepKeepsHistory ==
    ASSUME BodiesAreClosed, IndInv, [Next]_vars
    PROVE  MovesForward /\ OverwritesAncestors
<1>1. ASSUME stores' = stores PROVE MovesForward /\ OverwritesAncestors
  BY <1>1 DEF MovesForward, OverwritesAncestors, Forward
<1>2. CASE LocalNext
  <2>1. PICK site \in Sites, k \in Keys : \E plan :
              /\ LocalStep(site, k, plan)
              /\ Sound(Apply(stores[site][k], plan))
              /\ Forward(stores[site][k], Apply(stores[site][k], plan))
    BY <1>2, LocalPlans
  <2>2. PICK plan : /\ LocalStep(site, k, plan)
                    /\ Sound(Apply(stores[site][k], plan))
                    /\ Forward(stores[site][k], Apply(stores[site][k], plan))
    BY <2>1
  <2>3. Wrote(None, site, k, Apply(stores[site][k], plan)) /\ run' = run
    BY <2>2, ExecuteFacts DEF LocalStep, Sound, IndInv
  <2>4. MovesForward BY <2>2, <2>3 DEF Wrote, MovesForward, Forward
  <2> QED BY <2>3, <2>4 DEF OverwritesAncestors
<1>3. ASSUME NEW s \in Syncs, NEW side \in {"a", "b"}, WriteSide(s, side)
      PROVE  MovesForward /\ OverwritesAncestors
  <2>1. PICK site, key, put, result :
              /\ site \in Sites /\ key \in Keys /\ put \in Plans
              /\ site = Side[s][side] /\ key = run[s].key /\ put = run[s].plan[side] /\ put # None
              /\ result = PlanPutRaw(stores[site][key], put.record, put.expected, Caps[site])
              /\ Wrote(s, site, key, Apply(stores[site][key], result))
              /\ Sound(Apply(stores[site][key], result))
              /\ Forward(stores[site][key], Apply(stores[site][key], result))
              /\ stores[site][key] # None /\ Apply(stores[site][key], result) # stores[site][key]
                 => stores[site][key].revision \in Lineage(put.record)
              /\ put.expected = ExpectedOf(stores[site][key]) =>
                    /\ result.outcome = "Write"
                    /\ SameVersion(Apply(stores[site][key], result), put.record)
    BY <1>3, WriteFacts
  <2>2. MovesForward BY <2>1 DEF Wrote, MovesForward, Forward
  <2>3. stores' # stores => Apply(stores[site][key], result) # stores[site][key]
    <3> SUFFICES ASSUME Apply(stores[site][key], result) = stores[site][key] PROVE stores' = stores
      OBVIOUS
    <3>1. \A site2 \in Sites, k2 \in Keys : stores'[site2][k2] = stores[site2][k2]
      BY <2>1 DEF Wrote
    <3>2. stores \in [Sites -> [Keys -> Slot]] /\ stores' \in [Sites -> [Keys -> Slot]]
      BY <2>1 DEF Wrote, IndInv, TypeOK
    <3>3. ASSUME NEW site2 \in Sites PROVE stores'[site2] = stores[site2] BY <3>1, <3>2
    <3> QED BY <3>2, <3>3
  <2>4. OverwritesAncestors
    <3> SUFFICES ASSUME NEW s2 \in Syncs, NEW side2 \in {"a", "b"},
                        run[s2].plan[side2] # None, run'[s2].plan[side2] = None,
                        stores[Side[s2][side2]][run[s2].key] # None, stores' # stores
                 PROVE  stores[Side[s2][side2]][run[s2].key].revision
                           \in Lineage(run[s2].plan[side2].record)
      BY DEF OverwritesAncestors
    <3>1. s2 = s /\ side2 = side BY <1>3, OnePlanAtATime
    <3> QED BY <2>1, <2>3, <3>1
  <2> QED BY <2>2, <2>4
<1>4. ASSUME NEW s \in Syncs, SyncNext(s) PROVE MovesForward /\ OverwritesAncestors
  BY <1>1, <1>3, <1>4 DEF SyncNext, ListA, ListB, ReadA, ReadB, EndPass, Again
<1> QED BY <1>1, <1>2, <1>4 DEF Next, Abort, vars

\* Untouched, on all keys, is what the report claims.
LEMMA ReportsFollow == IndInv => TypeOK /\ StoresWellFormed /\ CleanRunAgrees /\ RacedWasTouched
<1> SUFFICES ASSUME IndInv PROVE TypeOK /\ StoresWellFormed /\ CleanRunAgrees /\ RacedWasTouched OBVIOUS
<1>1. TypeOK BY DEF IndInv
<1>2. StoresWellFormed
  BY DEF IndInv, Sound, RunOK, SoundPut, StoresWellFormed
<1>3. RacedWasTouched BY DEF IndInv, Untouched, RacedWasTouched, Raced
<1>4. CleanRunAgrees
  <2> SUFFICES ASSUME NEW s \in Syncs, run[s].pc = "done",
                      NEW k \in Keys \ (touched[s] \cup Conflicts(s))
               PROVE  Agree(SlotA(s, k), SlotB(s, k))
    BY DEF CleanRunAgrees, SlotA, SlotB
  <2>1. RunOK(s) /\ Untouched(s, k) BY DEF IndInv
  <2>2. k \notin run[s].keys /\ ~Current(s, k) BY <2>1 DEF RunOK, Current
  <2>3. run[s].report[k] # "conflict" BY DEF Conflicts
  <2> QED BY <2>1, <2>2, <2>3 DEF Untouched
<1> QED BY <1>1, <1>2, <1>3, <1>4

\* What a run is about to write knows what it was read against, and on a key nobody else
\* touched what was read is still there: however runs and local writers interleave.
THEOREM SyncInvariant == ASSUME BodiesAreClosed PROVE Spec => []IndInv
<1>1. IndInv /\ [Next]_vars => IndInv' BY SyncStep
<1> QED BY <1>1, SyncInit, PTL DEF Spec

\* The contract of sync (sync.rs), for any stores, runs, caps and merge functions: chains
\* stay behind their records, only what is superseded is overwritten, every key moves
\* forward, a clean report means the stores agree, and an unconverged key was written
\* by somebody else.
THEOREM SyncSound == ASSUME BodiesAreClosed PROVE Spec => SyncIsSound
<1>1. IndInv /\ [Next]_vars => MovesForward /\ OverwritesAncestors BY StepKeepsHistory
<1>2. MovesForward => \A site \in Sites, k \in Keys :
          LET old == stores[site][k]
              new == stores'[site][k]
          IN  old # None /\ new # None /\ new # old
              => \/ new.revision.counter > old.revision.counter
                 \/ new.revision = old.revision
  BY DEF MovesForward, Forward
<1>3. OverwritesAncestors => \A s \in Syncs, side \in {"a", "b"} :
          LET put == run[s].plan[side]
              old == stores[Side[s][side]][run[s].key]
          IN  (put # None /\ run'[s].plan[side] = None /\ run'[s].pc # "list_a"
               /\ old # None /\ stores' # stores)
              => old.revision \in Lineage(put.record)
  BY DEF OverwritesAncestors
<1>4. Spec => []IndInv BY SyncInvariant
<1>5. Spec => HistoryMovesForward BY <1>1, <1>2, <1>4, PTL DEF Spec, HistoryMovesForward
<1>6. Spec => OverwritesOnlyAncestors BY <1>1, <1>3, <1>4, PTL DEF Spec, OverwritesOnlyAncestors
<1>7. Spec => [](TypeOK /\ StoresWellFormed) /\ [](CleanRunAgrees /\ RacedWasTouched) BY <1>4, ReportsFollow, PTL
<1> QED BY <1>5, <1>6, <1>7, PTL DEF SyncIsSound, KeepsHistory

(***************************************************************************)
(* What was pushed is shared                                               *)
(***************************************************************************)

\* A sequence is one over any set that holds its elements.
LEMMA SeqOver ==
    ASSUME NEW R, NEW s \in Seq(R), NEW S, \A i \in DOMAIN s : s[i] \in S
    PROVE  s \in Seq(S)
<1>1. Len(s) \in Nat /\ s \in [1 .. Len(s) -> R] /\ DOMAIN s = 1 .. Len(s) OBVIOUS
<1>2. s \in [1 .. Len(s) -> S] BY <1>1
<1> QED BY <1>1, <1>2

\* The first commit is its own history.
LEMMA GitInit == ASSUME G!Init PROVE G!GitInv
<1> DEFINE first == [tree |-> G!Empty, parents |-> {}, history |-> {1}, reported |-> {}]
<1>1. commits = <<first>> BY DEF G!Init
<1>2. first.history = {1} OBVIOUS
<1> HIDE DEF first
<1>3. DOMAIN commits = {1} /\ commits[1] = first /\ commits \in Seq({commits[i] : i \in DOMAIN commits})
  BY <1>1
<1>4. G!Free \in G!Operation BY DEF G!Free, G!Operation
<1>5. G!BranchesNameCommits
  <2>1. G!Free.pc # "merge_commit" BY DEF G!Free
  <2> QED BY <1>3, <1>4, <2>1 DEF G!Init, G!BranchesNameCommits
<1>6. G!History(1) = {1} BY <1>2, <1>3 DEF G!History
<1>7. G!HistoriesAreClosed BY <1>3, <1>6 DEF G!HistoriesAreClosed
<1>8. G!PushedIsShared BY <1>6 DEF G!Init, G!PushedIsShared
<1> QED BY <1>5, <1>7, <1>8 DEF G!GitInv

\* repo.commit adds a commit that descends from its parents and changes no other.
LEMMA CommitAdds ==
    ASSUME G!GitInv, NEW c \in Clones, NEW tree, NEW parents \in SUBSET DOMAIN commits,
           G!CommitTree(c, tree, parents), UNCHANGED <<origin, published>>
    PROVE  G!GitInv'
<1>a. PICK id : id = Len(commits) + 1 OBVIOUS
<1> DEFINE new == [tree |-> tree, parents |-> parents,
                   history |-> {id} \cup UNION {G!History(p) : p \in parents},
                   reported |-> busy[c].reported]
           S == {commits[i] : i \in DOMAIN commits} \cup {new}
<1>0. G!BranchesNameCommits /\ G!HistoriesAreClosed /\ G!PushedIsShared BY DEF G!GitInv
<1>1. commits' = Append(commits, new) /\ head' = [head EXCEPT ![c] = id] /\ busy' = [busy EXCEPT ![c] = G!Free]
  BY <1>a DEF G!CommitTree
<1>2. new.history = {id} \cup UNION {G!History(p) : p \in parents} OBVIOUS
<1> HIDE DEF new
<1>3. commits \in Seq(S) /\ new \in S
  <2>1. commits \in Seq({commits[i] : i \in DOMAIN commits}) BY <1>0 DEF G!BranchesNameCommits
  <2>2. \A i \in DOMAIN commits : commits[i] \in S OBVIOUS
  <2>3. new \in S OBVIOUS
  <2> HIDE DEF S
  <2> QED BY <2>1, <2>2, <2>3, SeqOver
<1> HIDE DEF S
<1>4. /\ id \in Nat /\ DOMAIN commits = 1 .. Len(commits) /\ DOMAIN commits' = 1 .. id /\ id \notin DOMAIN commits
      /\ DOMAIN commits' = DOMAIN commits \cup {id}
      /\ commits'[id] = new /\ \A i \in DOMAIN commits : commits'[i] = commits[i]
  BY <1>a, <1>1, <1>3
<1>5. /\ \A i \in DOMAIN commits : G!History(i)' = G!History(i)
      /\ G!History(id)' = {id} \cup UNION {G!History(p) : p \in parents}
  BY <1>1, <1>2, <1>4 DEF G!History
<1>6. commits' \in Seq({commits'[i] : i \in DOMAIN commits'})
  <2> DEFINE R == {commits'[i] : i \in DOMAIN commits'}
  <2>1. commits' \in Seq(S) BY <1>1, <1>3
  <2>2. \A i \in DOMAIN commits' : commits'[i] \in R OBVIOUS
  <2> HIDE DEF R
  <2>3. commits' \in Seq(R) BY <2>1, <2>2, SeqOver
  <2> QED BY <2>3 DEF R
<1>7. G!Free \in G!Operation /\ G!Free.pc # "merge_commit" BY DEF G!Free, G!Operation
<1>8. G!BranchesNameCommits'
  BY <1>0, <1>1, <1>4, <1>6, <1>7 DEF G!BranchesNameCommits
<1>9. G!HistoriesAreClosed'
  <2>1. \A i \in DOMAIN commits : /\ i \in G!History(i) /\ G!History(i) \subseteq DOMAIN commits
                                 /\ \A j \in G!History(i) : G!History(j) \subseteq G!History(i)
    BY <1>0 DEF G!HistoriesAreClosed
  <2>2. ASSUME NEW i \in DOMAIN commits'
        PROVE  /\ i \in G!History(i)' /\ G!History(i)' \subseteq DOMAIN commits'
               /\ \A j \in G!History(i)' : G!History(j)' \subseteq G!History(i)'
    <3>1. CASE i \in DOMAIN commits BY <1>4, <1>5, <2>1, <3>1
    <3>2. CASE i = id BY <1>4, <1>5, <2>1, <3>2
    <3> QED BY <1>4, <3>1, <3>2
  <2> QED BY <2>2 DEF G!HistoriesAreClosed
<1>10. G!PushedIsShared' BY <1>0, <1>4, <1>5 DEF G!PushedIsShared, G!BranchesNameCommits
<1> QED BY <1>8, <1>9, <1>10 DEF G!GitInv

\* A step that adds no commit and moves branches to commits keeps the invariant.
LEMMA BranchMoves ==
    ASSUME G!GitInv, UNCHANGED commits, G!BranchesNameCommits', G!PushedIsShared'
    PROVE  G!GitInv'
BY DEF G!GitInv, G!HistoriesAreClosed, G!History

\* A step of an operation that moves at most its clone's branch keeps the invariant.
LEMMA OperationMoves ==
    ASSUME G!GitInv, NEW c \in Clones, NEW op \in G!Operation,
           busy' = [busy EXCEPT ![c] = op], op.pc = "merge_commit" => op.remote \in DOMAIN commits,
           UNCHANGED <<commits, origin, published>>, head' \in [Clones -> DOMAIN commits]
    PROVE  G!GitInv'
<1>1. G!BranchesNameCommits' BY DEF G!GitInv, G!BranchesNameCommits
<1>2. G!PushedIsShared' BY DEF G!GitInv, G!PushedIsShared, G!History
<1> QED BY <1>1, <1>2, BranchMoves

\* Every step keeps the invariant.  Only a push moves the remote branch, and only to a
\* commit that descends from it.
LEMMA GitStep == ASSUME G!GitInv, [G!Next]_G!vars PROVE G!GitInv'
<1>0. /\ G!BranchesNameCommits /\ G!HistoriesAreClosed /\ G!PushedIsShared
      /\ head \in [Clones -> DOMAIN commits] /\ busy \in [Clones -> G!Operation] /\ origin \in DOMAIN commits
      /\ DOMAIN commits \subseteq Nat
  BY DEF G!GitInv, G!BranchesNameCommits
<1>f. G!Free \in G!Operation /\ G!Free.pc = "free" BY DEF G!Free, G!Operation
<1>1. ASSUME NEW c \in Clones, NEW k \in Keys, NEW op, NEW kind, NEW body, G!WriteWork(c, k, op, kind, body)
      PROVE  G!GitInv'
  <2> DEFINE o == [G!Free EXCEPT !.pc = "stage", !.key = k]
  <2>1. o \in G!Operation /\ o.pc = "stage" BY DEF G!Free, G!Operation
  <2>2. busy' = [busy EXCEPT ![c] = o] /\ UNCHANGED <<commits, origin, published, head>>
    BY <1>1 DEF G!WriteWork
  <2> HIDE DEF o
  <2> QED BY <1>0, <2>1, <2>2, OperationMoves
<1>2. ASSUME NEW c \in Clones, G!Stage(c) PROVE G!GitInv'
  <2> DEFINE o == [busy[c] EXCEPT !.pc = "commit"]
  <2>1. o \in G!Operation /\ o.pc = "commit" BY <1>0 DEF G!Operation
  <2>2. busy' = [busy EXCEPT ![c] = o] /\ UNCHANGED <<commits, origin, published, head>>
    BY <1>0, <1>2 DEF G!Stage
  <2> HIDE DEF o
  <2> QED BY <1>0, <2>1, <2>2, OperationMoves
<1>3. ASSUME NEW c \in Clones, G!CommitIndex(c) PROVE G!GitInv'
  <2>1. {head[c]} \in SUBSET DOMAIN commits BY <1>0
  <2> QED BY <1>3, <2>1, CommitAdds DEF G!CommitIndex
<1>4. ASSUME NEW c \in Clones, G!FastForward(c) PROVE G!GitInv'
  <2> DEFINE o == [busy[c] EXCEPT !.pc = "checkout_head"]
  <2>1. o \in G!Operation /\ o.pc = "checkout_head" BY <1>0 DEF G!Operation
  <2>2. busy' = [busy EXCEPT ![c] = o] /\ UNCHANGED <<commits, origin, published>>
    BY <1>0, <1>4 DEF G!FastForward
  <2>3. head' \in [Clones -> DOMAIN commits] BY <1>0, <1>4 DEF G!FastForward
  <2> HIDE DEF o
  <2> QED BY <1>0, <2>1, <2>2, <2>3, OperationMoves
<1>5. ASSUME NEW c \in Clones, G!CheckoutHead(c) PROVE G!GitInv'
  BY <1>0, <1>f, <1>5, OperationMoves DEF G!CheckoutHead
<1>6. ASSUME NEW c \in Clones, G!PullMerge(c) PROVE G!GitInv'
  <2>1. PICK clash \in SUBSET Keys :
            busy' = [busy EXCEPT ![c] = [G!Free EXCEPT !.pc = "merge_commit", !.remote = origin,
                                                       !.reported = clash]]
    BY <1>6 DEF G!PullMerge
  <2> DEFINE o == [G!Free EXCEPT !.pc = "merge_commit", !.remote = origin, !.reported = clash]
  <2>2. o \in G!Operation /\ o.remote = origin BY <1>0 DEF G!Free, G!Operation
  <2>3. UNCHANGED <<commits, origin, published, head>> BY <1>6 DEF G!PullMerge
  <2>4. busy' = [busy EXCEPT ![c] = o] BY <2>1
  <2> HIDE DEF o
  <2> QED BY <1>0, <2>2, <2>3, <2>4, OperationMoves
<1>7. ASSUME NEW c \in Clones, G!MergeCommit(c) PROVE G!GitInv'
  <2>1. {head[c], busy[c].remote} \in SUBSET DOMAIN commits
    BY <1>0, <1>7 DEF G!MergeCommit, G!BranchesNameCommits
  <2> QED BY <1>7, <2>1, CommitAdds DEF G!MergeCommit
<1>8. ASSUME NEW c \in Clones, G!Push(c) PROVE G!GitInv'
  <2>1. /\ origin \in G!History(head[c]) /\ origin' = head[c] /\ UNCHANGED <<commits, head, busy>>
        /\ published' = [published EXCEPT ![c] = @ \cup {head[c]}]
    BY <1>8 DEF G!Push
  <2>2. head[c] \in DOMAIN commits BY <1>0
  <2>3. G!BranchesNameCommits' BY <1>0, <2>1, <2>2 DEF G!BranchesNameCommits
  <2>4. G!History(origin) \subseteq G!History(head[c]) /\ head[c] \in G!History(head[c])
    BY <1>0, <2>1, <2>2 DEF G!HistoriesAreClosed
  <2>5. G!History(origin)' = G!History(head[c]) BY <2>1 DEF G!History
  <2>6. \A d \in Clones : published'[d] \subseteq published[d] \cup {head[c]}
    BY <1>0, <2>1 DEF G!BranchesNameCommits
  <2>7. G!PushedIsShared' BY <1>0, <2>4, <2>5, <2>6 DEF G!PushedIsShared
  <2> QED BY <2>1, <2>3, <2>7, BranchMoves
<1>9. ASSUME NEW c \in Clones, G!Crash(c) PROVE G!GitInv'
  BY <1>0, <1>f, <1>9, OperationMoves DEF G!Crash
<1>10. CASE UNCHANGED G!vars
  BY <1>0, <1>10 DEF G!vars, G!GitInv, G!BranchesNameCommits, G!HistoriesAreClosed, G!PushedIsShared, G!History
<1> QED BY <1>1, <1>2, <1>3, <1>4, <1>5, <1>6, <1>7, <1>8, <1>9, <1>10
     DEF G!Next, G!WriteNext, G!PullNext

\* For any number of clones, writers, pulls and crashes anywhere, what a push reported as
\* accepted stays on the remote branch, whoever pushed since (git_push).
THEOREM GitPushesAreShared == G!Spec => []G!PushedIsShared
<1>1. G!Init => G!GitInv BY GitInit
<1>2. G!GitInv /\ [G!Next]_G!vars => G!GitInv' BY GitStep
<1>3. G!GitInv => G!PushedIsShared BY DEF G!GitInv
<1> QED BY <1>1, <1>2, <1>3, PTL DEF G!Spec
=============================================================================
