------------------------- MODULE RecordStoreProofs -------------------------
(***************************************************************************)
(* The store's safety for any keys, sessions, bodies, cap and horizon.      *)
(*                                                                         *)
(* IndInv adds to AncestorsBehind that a live record's revision carries its *)
(* body's hash, and that every record a session has read and not yet acted  *)
(* on satisfies the same: the write a session makes is built from what it   *)
(* read, so the stored records alone are not inductive.  For the removals   *)
(* it adds that a key's history does not pass a revision twice while the    *)
(* key is not removed: what a session read is stored still, or is behind.   *)
(*                                                                         *)
(* The last parts are about the servers before a store: what the daemon's    *)
(* clients are told, whose name a record carries and what replication can    *)
(* bring back, and what the MCP server tells its agents of the views.        *)
(***************************************************************************)
EXTENDS Served, Sequences, RecordsProofs

\* An empty store with idle sessions (MemStore::new) satisfies the invariant.
LEMMA InitIndInv == Init => IndInv
BY StoreAssumption
   DEF Init, IndInv, TypeOK, Session, Idle, Slot, WellFormed, BehindItself,
       NamesItsBody, IsLive

\* Carrying out a plan keeps the records well formed if its result is.
LEMMA ExecuteKeeps ==
    ASSUME TypeOK, \A k \in Keys : WellFormed(records[k]),
           NEW k \in Keys, NEW plan, Execute(k, plan),
           Apply(records[k], plan) \in Slot,
           WellFormed(Apply(records[k], plan))
    PROVE  /\ records' \in [Keys -> Slot]
           /\ clock' \in Nat
           /\ \A j \in Keys : WellFormed(records'[j])
           /\ records'[k] = Apply(records[k], plan)
           /\ \A j \in Keys : j # k => records'[j] = records[j]
BY DEF Execute, TypeOK

\* What a session holds, when it holds something.
LEMMA HeldFacts ==
    ASSUME IndInv, NEW c \in Sessions, session[c].op # "idle"
    PROVE  /\ session[c].key \in Keys
           /\ session[c].seen \in Record
           /\ session[c].seen.revision \in Revision
           /\ WellFormed(session[c].seen)
           /\ session[c].op \in {"edit", "reset"} => IsLive(session[c].seen)
           /\ session[c].op = "undelete" => IsManifestTombstone(session[c].seen)
           /\ HeldWellFormed(session[c], clock)
           /\ c \notin overtaken => HeldIsCurrent(session[c], records[session[c].key])
<1>1. session[c] \in Session /\ session[c] # Idle
  BY DEF IndInv, TypeOK, Idle
<1>2. /\ HeldWellFormed(session[c], clock)
      /\ c \notin overtaken => HeldIsCurrent(session[c], records[session[c].key])
  BY <1>1 DEF IndInv
<1> QED BY <1>1, <1>2 DEF HeldWellFormed, Session, Record

\* A session that was not overtaken and finds the revision it read finds the record
\* it read: a key's history does not pass one revision twice.
LEMMA FoundIsSeen ==
    ASSUME IndInv, NEW c \in Sessions, session[c].op # "idle", c \notin overtaken,
           session[c].seen.revision = records[session[c].key].revision
    PROVE  /\ records[session[c].key] = session[c].seen
           /\ session[c].op = "daemon_purge" => IsTombstone(session[c].seen)
<1>1. HeldIsCurrent(session[c], records[session[c].key]) /\ session[c].seen \in Record
  BY HeldFacts
<1>2. session[c].seen.revision.counter \in Nat BY <1>1 DEF Record, Revision
<1> QED BY <1>1, <1>2 DEF HeldIsCurrent

\* The record an undelete writes: one counter past its tombstone, and live.
LEMMA RestoredWellFormed ==
    ASSUME NEW tomb \in Record, IsManifestTombstone(tomb)
    PROVE  /\ Restored(tomb) \in Record
           /\ WellFormed(Restored(tomb))
           /\ Restored(tomb).revision.counter > tomb.revision.counter
           /\ Restored(tomb).body = tomb.body
           /\ Restored(tomb).kind = tomb.deleted_kind
<1> DEFINE n == Restored(tomb)
           v == NextRevision(tomb.revision, tomb.body)
<1>0. tomb.revision \in Revision /\ tomb.body \in Bodies /\ tomb.deleted_kind \in LiveKinds
  BY DEF Record, IsManifestTombstone, LiveKinds
<1>1. v \in Revision /\ v.hash = ContentHash[tomb.body] /\ v.counter > tomb.revision.counter
  BY <1>0, ContentHashAssumption DEF NextRevision, Revision
<1>2. n = [tomb EXCEPT !.kind = tomb.deleted_kind, !.revision = v,
                       !.parent = tomb.revision, !.ancestors = {},
                       !.deleted_at = None, !.deleted_blob = None, !.deleted_kind = None]
  BY DEF Restored
<1> HIDE DEF v
<1>3. n \in Record BY <1>0, <1>1, <1>2 DEF Record
<1>4. n.revision = v /\ n.kind = tomb.deleted_kind /\ n.body = tomb.body /\ n.ancestors = {}
  BY <1>2 DEF Record
<1> HIDE DEF n
<1>5. n.kind # "Tombstone" BY <1>0, <1>4 DEF LiveKinds, ManifestKinds
<1>6. WellFormed(n) BY <1>1, <1>4, <1>5 DEF WellFormed, BehindItself, NamesItsBody, IsTombstone
<1> QED BY <1>1, <1>3, <1>4, <1>6 DEF n

(***************************************************************************)
(* Each write a step can make, and what it does to the slot it touches      *)
(***************************************************************************)

\* put of Record::create: the slot stays well formed and moves forward, a live record
\* is left alone, and so is a manifest tombstone.
LEMMA CreateStep ==
    ASSUME IndInv, NEW k \in Keys, NEW kind \in Kinds, NEW body \in Bodies,
           NEW new, new = Apply(records[k], PlanPut(records[k], CreateRecord(kind, body), None, Cap))
    PROVE  /\ new \in Slot /\ WellFormed(new) /\ Advances(records[k], new)
           /\ IsLive(records[k]) => new = records[k]
           /\ records[k] # None /\ IsManifestTombstone(records[k]) => new = records[k]
<1>1. kind \in LiveKinds BY StoreAssumption
<1>2. CreateRecord(kind, body).ancestors = {} BY DEF CreateRecord
<1>3. records[k] \in Slot /\ WellFormed(records[k]) BY DEF IndInv, TypeOK
<1>4. IsLive(records[k]) => records[k].revision # None
  BY <1>3, NoneAssumption DEF IsLive, Slot, Record
<1> QED BY <1>1, <1>2, <1>3, <1>4, CreateWellFormed, PutAdvances

\* put of Record::update on the revision read: it writes only over that revision,
\* and never over a manifest tombstone.
LEMMA EditStep ==
    ASSUME IndInv, NEW c \in Editors, session[c].op = "edit", NEW body \in Bodies,
           NEW new, new = Apply(records[session[c].key],
                                PlanPut(records[session[c].key],
                                        UpdateRecord(session[c].seen, body),
                                        session[c].seen.revision, Cap))
    PROVE  LET old == records[session[c].key] IN
           /\ new \in Slot /\ WellFormed(new) /\ Advances(old, new)
           /\ IsLive(old) /\ new # old => session[c].seen.revision = old.revision
           /\ old # None /\ IsManifestTombstone(old) => new = old
<1> DEFINE s == session[c]
           old == records[s.key]
           upd == UpdateRecord(s.seen, body)
<1>1. s.key \in Keys /\ s.seen \in Record /\ s.seen.revision \in Revision /\ IsLive(s.seen)
  BY HeldFacts DEF Sessions
<1>2. old \in Slot /\ WellFormed(old) BY <1>1 DEF IndInv, TypeOK
<1>3. upd.ancestors = {} BY DEF UpdateRecord
<1>4. ~IsTombstone(s.seen) BY <1>1 DEF IsLive
<1>5. /\ upd \in Record /\ WellFormed(upd) /\ ~IsTombstone(upd)
      /\ upd.revision.counter > s.seen.revision.counter
  BY <1>1, <1>4, UpdateWellFormed
<1> HIDE DEF upd, old, s
<1>6. LET n == Apply(old, PlanPut(old, upd, s.seen.revision, Cap)) IN
      /\ n \in Slot /\ WellFormed(n) /\ Advances(old, n)
      /\ IsLive(old) /\ n # old => s.seen.revision = old.revision
      /\ old # None /\ IsManifestTombstone(old) => n = old
  BY <1>1, <1>2, <1>3, <1>5, PutAdvances
<1> QED BY <1>6 DEF upd, old, s

\* undelete's put_raw: it writes only over the tombstone revision it read, one
\* counter further on.
LEMMA UndeleteStep ==
    ASSUME IndInv, NEW c \in Editors, session[c].op = "undelete",
           NEW new, new = Apply(records[session[c].key],
                                PlanPutRaw(records[session[c].key],
                                           Restored(session[c].seen),
                                           session[c].seen.revision, Cap))
    PROVE  LET old == records[session[c].key] IN
           /\ new \in Slot /\ WellFormed(new) /\ Advances(old, new)
           /\ old # None /\ new # old => old.revision = session[c].seen.revision
<1> DEFINE s == session[c]
           old == records[s.key]
           res == Restored(s.seen)
<1>1. s.key \in Keys /\ s.seen \in Record /\ s.seen.revision \in Revision
      /\ IsManifestTombstone(s.seen)
  BY HeldFacts DEF Sessions
<1>2. old \in Slot /\ WellFormed(old) BY <1>1 DEF IndInv, TypeOK
<1>3. res \in Record /\ WellFormed(res) /\ res.revision.counter > s.seen.revision.counter
  BY <1>1, RestoredWellFormed
<1>3a. s.seen.revision # None BY <1>1, NoneAssumption
<1> HIDE DEF res, old, s
<1> DEFINE n == Apply(old, PlanPutRaw(old, res, s.seen.revision, Cap))
<1>4. /\ n \in Slot /\ WellFormed(n)
      /\ old # None /\ n # old => n # None /\ s.seen.revision = old.revision
      /\ n # old => n # None /\ n.revision = res.revision
  BY <1>1, <1>2, <1>3, PutRawAdvances
<1> HIDE DEF n
<1>5. Advances(old, n) BY <1>3, <1>4 DEF Advances
<1> QED BY <1>4, <1>5 DEF res, old, s, n

(***************************************************************************)
(* IndInv is inductive                                                     *)
(***************************************************************************)

\* What a session read stays stored, or behind, while its key's history advances.
LEMMA CurrentKept ==
    ASSUME NEW s, s.seen \in Record, NEW old \in Slot, NEW new \in Slot,
           HeldIsCurrent(s, old), Advances(old, new)
    PROVE  HeldIsCurrent(s, new)
<1>1. CASE new = old BY <1>1
<1>2. CASE new # old
  <2>1. old \in Record /\ new \in Record /\ new.revision.counter > old.revision.counter
    BY <1>2 DEF HeldIsCurrent, Advances, Slot
  <2>2. /\ s.seen.revision.counter \in Nat /\ old.revision.counter \in Nat
        /\ new.revision.counter \in Nat
    BY <2>1 DEF Record, Revision
  <2>3. old = s.seen \/ old.revision.counter > s.seen.revision.counter BY DEF HeldIsCurrent
  <2>4. new.revision.counter > s.seen.revision.counter BY <2>1, <2>2, <2>3
  <2>5. new # s.seen BY <2>2, <2>4
  <2> QED BY <1>2, <2>1, <2>4, <2>5 DEF HeldIsCurrent, Advances
<1> QED BY <1>1, <1>2

\* A session's read (get, get_raw) keeps the invariant if what it read is stored.
LEMMA HoldKeeps ==
    ASSUME IndInv, NEW c \in Sessions, NEW k \in Keys,
           NEW op \in {"edit", "reset", "undelete", "collect", "purge", "daemon_ask"},
           records[k] # None, Hold(c, op, k, records[k]),
           op \in {"edit", "reset"} => IsLive(records[k]),
           op = "undelete" => IsManifestTombstone(records[k]),
           op \in {"collect", "purge"} => IsTombstone(records[k]),
           op = "collect" => /\ records[k].deleted_at # None
                             /\ clock - records[k].deleted_at >= Horizon
    PROVE  IndInv'
<1> DEFINE held == [op |-> op, key |-> k, seen |-> records[k]]
<1>1. records[k] \in Record /\ WellFormed(records[k]) BY DEF IndInv, TypeOK, Slot
<1>2. held \in Session /\ held.op = op /\ held.seen = records[k] /\ held # Idle /\ held.key = k
  BY <1>1 DEF Session, Idle
<1>3. /\ session' = [session EXCEPT ![c] = held]
      /\ records' = records /\ clock' = clock /\ overtaken' = overtaken
  BY DEF Hold
<1> HIDE DEF held
<1>4. TypeOK' BY <1>2, <1>3 DEF IndInv, TypeOK
<1>5. \A d \in Sessions : session'[d] = IF d = c THEN held ELSE session[d]
  BY <1>3 DEF IndInv, TypeOK
<1>6. \A j \in Keys : WellFormed(records'[j]) BY <1>3 DEF IndInv
<1>7. records[k].deleted_at # None => records[k].deleted_at \in Nat BY <1>1 DEF Record
<1>8. HeldWellFormed(held, clock) BY <1>1, <1>2, <1>7 DEF HeldWellFormed
<1>9. HeldIsCurrent(held, records[held.key]) BY <1>2 DEF HeldIsCurrent
<1>10. \A d \in Sessions : session'[d] # Idle => HeldWellFormed(session'[d], clock')
  BY <1>3, <1>5, <1>8 DEF IndInv
<1>11. \A d \in Sessions : session'[d] # Idle /\ d \notin overtaken'
                           => HeldIsCurrent(session'[d], records'[session'[d].key])
  BY <1>3, <1>5, <1>9 DEF IndInv
<1> QED BY <1>4, <1>6, <1>10, <1>11 DEF IndInv

\* A session's write (put, put_raw, delete_as, purge) keeps the invariant if the
\* slot it leaves is well formed and has advanced or is empty; the session lets go
\* of what it had read.
LEMMA FinishKeeps ==
    ASSUME IndInv, NEW c \in Sessions, NEW op, op # "idle", NEW plan,
           Finish(c, op, plan),
           Apply(records[session[c].key], plan) \in Slot,
           WellFormed(Apply(records[session[c].key], plan)),
           \/ Advances(records[session[c].key], Apply(records[session[c].key], plan))
           \/ Apply(records[session[c].key], plan) = None
    PROVE  IndInv'
<1> DEFINE k == session[c].key
           new == Apply(records[k], plan)
<1>1. session[c].op # "idle" /\ k \in Keys
  BY HeldFacts DEF Finish
<1>2. /\ Execute(k, plan) /\ session' = [session EXCEPT ![c] = Idle]
      /\ overtaken' = (overtaken \ {c}) \cup Overtaken(c, plan)
  BY DEF Finish
<1>3. /\ records' \in [Keys -> Slot] /\ clock' \in Nat /\ \A j \in Keys : WellFormed(records'[j])
      /\ records'[k] = new /\ \A j \in Keys : j # k => records'[j] = records[j]
  BY <1>1, <1>2, ExecuteKeeps DEF IndInv
<1>4. TypeOK' BY <1>2, <1>3 DEF IndInv, TypeOK, Session, Overtaken
<1>5. \A d \in Sessions : session'[d] = IF d = c THEN Idle ELSE session[d]
  BY <1>2 DEF IndInv, TypeOK
<1>6. clock' = clock BY <1>2 DEF Execute
<1>7. ASSUME NEW d \in Sessions, session'[d] # Idle, d \notin overtaken'
      PROVE  HeldIsCurrent(session'[d], records'[session'[d].key])
  <2>1. d # c /\ session'[d] = session[d] /\ session[d] # Idle BY <1>5, <1>7
  <2>2. d \notin overtaken BY <1>2, <1>7, <2>1
  <2>3. HeldIsCurrent(session[d], records[session[d].key]) BY <2>1, <2>2 DEF IndInv
  <2>4. session[d].key \in Keys /\ session[d].seen \in Record
    BY <2>1 DEF IndInv, TypeOK, Session
  <2>5. CASE session[d].key # k BY <1>3, <2>1, <2>3, <2>4, <2>5
  <2>6. CASE session[d].key = k
    <3>1. records[k] # None BY <2>3, <2>6 DEF HeldIsCurrent
    <3>2. new # None BY <1>2, <1>7, <2>1, <2>6, <3>1 DEF Overtaken
    <3>3. Advances(records[k], new) BY <3>2
    <3>4. records[k] \in Slot BY <1>1 DEF IndInv, TypeOK
    <3>5. HeldIsCurrent(session[d], new) BY <2>3, <2>4, <2>6, <3>3, <3>4, CurrentKept
    <3> QED BY <1>3, <2>1, <2>6, <3>5
  <2> QED BY <2>5, <2>6
<1>8. \A d \in Sessions : session'[d] # Idle => HeldWellFormed(session'[d], clock')
  BY <1>5, <1>6 DEF IndInv
<1> QED BY <1>3, <1>4, <1>7, <1>8 DEF IndInv

\* The same for a write that follows no read (put of a new record, delete).
LEMMA ExecuteAloneKeeps ==
    ASSUME IndInv, NEW k \in Keys, NEW plan, Execute(k, plan), UNCHANGED <<session, overtaken>>,
           Apply(records[k], plan) \in Slot, WellFormed(Apply(records[k], plan)),
           Advances(records[k], Apply(records[k], plan))
    PROVE  IndInv'
<1> DEFINE new == Apply(records[k], plan)
<1>1. /\ records' \in [Keys -> Slot] /\ clock' \in Nat /\ \A j \in Keys : WellFormed(records'[j])
      /\ records'[k] = new /\ \A j \in Keys : j # k => records'[j] = records[j]
  BY ExecuteKeeps DEF IndInv
<1>2. clock' = clock BY DEF Execute
<1>3. ASSUME NEW d \in Sessions, session[d] # Idle, d \notin overtaken
      PROVE  HeldIsCurrent(session[d], records'[session[d].key])
  <2>1. HeldIsCurrent(session[d], records[session[d].key]) BY <1>3 DEF IndInv
  <2>2. session[d].key \in Keys /\ session[d].seen \in Record
    BY <1>3 DEF IndInv, TypeOK, Session
  <2>3. records[session[d].key] \in Slot BY <2>2 DEF IndInv, TypeOK
  <2>4. CASE session[d].key # k BY <1>1, <2>1, <2>2, <2>4
  <2>5. CASE session[d].key = k BY <1>1, <2>1, <2>2, <2>3, <2>5, CurrentKept
  <2> QED BY <2>4, <2>5
<1>4. TypeOK' BY <1>1 DEF IndInv, TypeOK
<1> QED BY <1>1, <1>2, <1>3, <1>4 DEF IndInv

\* A step that changes nothing, as a refused call, keeps the invariant.
LEMMA StutterKeeps == ASSUME IndInv, UNCHANGED vars PROVE IndInv'
BY DEF IndInv, TypeOK, vars

\* Every step of editors, removers and the clock keeps the invariant.
LEMMA NextIndInv == ASSUME IndInv, [Next]_vars PROVE IndInv'
<1>0. \A c \in Editors \cup Removers : c \in Sessions BY DEF Sessions
<1>k. \A k \in Keys : records[k] \in Slot /\ WellFormed(records[k]) BY DEF IndInv, TypeOK
<1>c. clock \in Nat BY DEF IndInv, TypeOK
<1>1. ASSUME NEW k \in Keys, NEW kind \in Kinds, NEW body \in Bodies, Create(k, kind, body)
      PROVE  IndInv'
  BY <1>1, CreateStep, ExecuteAloneKeeps DEF Create
<1>2. ASSUME NEW k \in Keys, Delete(k) PROVE IndInv'
  BY <1>2, <1>k, <1>c, DeleteAdvances, ExecuteAloneKeeps DEF Delete
<1>3. ASSUME NEW c \in Editors, NEW k \in Keys, ReadToEdit(c, k) PROVE IndInv'
  BY <1>0, <1>3, HoldKeeps DEF ReadToEdit, IsLive
<1>4. ASSUME NEW c \in Editors, NEW k \in Keys, ReadToReset(c, k) PROVE IndInv'
  BY <1>0, <1>4, HoldKeeps DEF ReadToReset, IsLive
<1>5. ASSUME NEW c \in Editors, NEW k \in Keys, ReadToUndelete(c, k) PROVE IndInv'
  BY <1>0, <1>5, HoldKeeps DEF ReadToUndelete
<1>6. ASSUME NEW c \in Editors, NEW body \in Bodies, CommitEdit(c, body) PROVE IndInv'
  <2>1. session[c].op = "edit" BY <1>6 DEF CommitEdit, Finish
  <2> QED BY <1>0, <1>6, <2>1, EditStep, FinishKeeps DEF CommitEdit
<1>7. ASSUME NEW c \in Editors, CommitReset(c) PROVE IndInv'
  <2>1. session[c].op = "reset" BY <1>7 DEF CommitReset, Finish
  <2>2. session[c].key \in Keys BY <1>0, <2>1, HeldFacts
  <2> QED BY <1>0, <1>k, <1>c, <1>7, <2>1, <2>2, DeleteAdvances, FinishKeeps DEF CommitReset
<1>8. ASSUME NEW c \in Editors, CommitUndelete(c) PROVE IndInv'
  <2>1. session[c].op = "undelete" BY <1>8 DEF CommitUndelete, Finish
  <2> QED BY <1>0, <1>8, <2>1, UndeleteStep, FinishKeeps DEF CommitUndelete
<1>9. ASSUME NEW c \in Removers, NEW k \in Keys,
             ReadToCollect(c, k) \/ ReadToPurge(c, k) \/ ReadToAskDaemon(c, k)
      PROVE  IndInv'
  BY <1>0, <1>9, HoldKeeps DEF ReadToCollect, ReadToPurge, ReadToAskDaemon, IsLive
<1>10. ASSUME NEW c \in Removers, DaemonCheck(c) PROVE IndInv'
  <2> DEFINE held == [session[c] EXCEPT !.op = "daemon_purge"]
             now == records[session[c].key]
             refused == IsLive(now) /\ now.revision = session[c].seen.revision
  <2>1. session[c].op = "daemon_ask" /\ session[c] \in Session /\ session[c] # Idle
    BY <1>0, <1>10 DEF DaemonCheck, IndInv, TypeOK, Idle
  <2>2. /\ held \in Session /\ held.op = "daemon_purge" /\ held.seen = session[c].seen
        /\ held.key = session[c].key
    BY <2>1 DEF Session
  <2>3. /\ session' = [session EXCEPT ![c] = IF refused THEN Idle ELSE held]
        /\ overtaken' = IF refused THEN overtaken \ {c} ELSE overtaken
        /\ records' = records /\ clock' = clock
    BY <1>10 DEF DaemonCheck
  <2>4. HeldWellFormed(held, clock)
    BY <1>0, <2>1, <2>2, HeldFacts DEF HeldWellFormed
  <2>5. ~refused /\ c \notin overtaken => HeldIsCurrent(held, records[held.key])
    BY <1>0, <2>1, <2>2, HeldFacts DEF HeldIsCurrent, IsLive
  <2> HIDE DEF held, refused
  <2>6. \A d \in Sessions : d # c => session'[d] = session[d]
    BY <2>3 DEF IndInv, TypeOK
  <2>7. session'[c] = IF refused THEN Idle ELSE held
    BY <1>0, <2>3 DEF IndInv, TypeOK
  <2>8. TypeOK' BY <2>2, <2>3 DEF IndInv, TypeOK, Session
  <2>9. \A d \in Sessions : session'[d] # Idle => HeldWellFormed(session'[d], clock')
    BY <2>3, <2>4, <2>6, <2>7 DEF IndInv
  <2>10. \A d \in Sessions : session'[d] # Idle /\ d \notin overtaken'
                             => HeldIsCurrent(session'[d], records'[session'[d].key])
    BY <2>3, <2>5, <2>6, <2>7 DEF IndInv
  <2>11. \A k \in Keys : WellFormed(records'[k]) BY <2>3 DEF IndInv
  <2> QED BY <2>8, <2>9, <2>10, <2>11 DEF IndInv
<1>11. ASSUME NEW c \in Removers, NEW op \in {"collect", "purge", "daemon_purge"},
              CommitPurge(c, op)
       PROVE  IndInv'
  <2>1. session[c].op = op BY <1>11 DEF CommitPurge, Finish
  <2>2. session[c].key \in Keys BY <1>0, <2>1, HeldFacts
  <2> DEFINE old == records[session[c].key]
             new == Apply(old, PlanPurge(old, session[c].seen.revision))
  <2>3. new \in Slot /\ WellFormed(new) /\ (new = old \/ new = None)
    BY <1>k, <2>2, PurgeRemoves
  <2>4. Advances(old, new) \/ new = None BY <2>3 DEF Advances
  <2> QED BY <1>0, <1>11, <2>3, <2>4, FinishKeeps DEF CommitPurge
<1>12. ASSUME Tick PROVE IndInv'
  <2>1. clock' = clock + 1 /\ UNCHANGED <<records, session, overtaken>> BY <1>12 DEF Tick
  <2>2. \A c \in Sessions : session[c] # Idle => HeldWellFormed(session[c], clock + 1)
    BY <1>c, StoreAssumption DEF IndInv, HeldWellFormed
  <2> QED BY <2>1, <2>2 DEF IndInv, TypeOK
<1>13. CASE UNCHANGED vars BY <1>13, StutterKeeps
<1> QED
  BY <1>1, <1>2, <1>3, <1>4, <1>5, <1>6, <1>7, <1>8, <1>9, <1>10, <1>11, <1>12, <1>13
  DEF Next, EditorNext, RemoverNext

\* The invariant holds in every behaviour of the store.
THEOREM StoreInvariant == Spec => []IndInv
<1>1. Init => IndInv BY InitIndInv
<1>2. IndInv /\ [Next]_vars => IndInv' BY NextIndInv
<1> QED BY <1>1, <1>2, PTL DEF Spec

\* Every variable holds what the code's types allow, for all constants.
THEOREM TypeCorrect == Spec => []TypeOK
<1>1. IndInv => TypeOK BY DEF IndInv
<1> QED BY <1>1, StoreInvariant, PTL

\* Whatever sessions interleave, a stored record's chain lies strictly behind it.
THEOREM AncestorsStayBehind == Spec => []AncestorsBehind
<1>1. IndInv => AncestorsBehind BY DEF IndInv, AncestorsBehind, WellFormed
<1> QED BY <1>1, StoreInvariant, PTL

(***************************************************************************)
(* What one step may do to a stored record                                 *)
(***************************************************************************)

\* An edit of a live record comes from an editor that read its revision.
PurgeStep == \E c \in Removers, op \in {"collect", "purge", "daemon_purge"} : CommitPurge(c, op)

StepMay(k) == /\ Advances(records[k], records'[k]) \/ (records'[k] = None /\ PurgeStep)
              /\ IsLive(records[k]) /\ IsLive(records'[k]) /\ records'[k] # records[k]
                 => \E c \in Editors : session[c].op = "edit" /\ session[c].key = k
                                       /\ session[c].seen.revision = records[k].revision

\* What any step may do to a stored record: remove it by a purge, or move it forward; and
\* replace a live record by a live one only as an edit of the revision read.
LEMMA StepSummary == ASSUME IndInv, Next PROVE \A k \in Keys : StepMay(k)
<1>0. \A c \in Editors \cup Removers : c \in Sessions BY DEF Sessions
<1>k. \A k \in Keys : records[k] \in Slot /\ WellFormed(records[k]) BY DEF IndInv, TypeOK
<1>c. clock \in Nat /\ records \in [Keys -> Slot] BY DEF IndInv, TypeOK
<1>s. ASSUME records' = records PROVE \A k \in Keys : StepMay(k)
  BY <1>s DEF StepMay, Advances
<1>t. ASSUME NEW k \in Keys, NEW plan, Execute(k, plan)
      PROVE  /\ records'[k] = Apply(records[k], plan)
             /\ \A j \in Keys : j # k => records'[j] = records[j]
  BY <1>t, <1>c DEF Execute
<1>u. ASSUME NEW k \in Keys, NEW plan, Execute(k, plan), StepMay(k)
      PROVE  \A j \in Keys : StepMay(j)
  BY <1>u, <1>t DEF StepMay, Advances
<1>1. ASSUME NEW k \in Keys, NEW kind \in Kinds, NEW body \in Bodies, Create(k, kind, body)
      PROVE  \A j \in Keys : StepMay(j)
  <2> DEFINE plan == PlanPut(records[k], CreateRecord(kind, body), None, Cap)
  <2>1. Execute(k, plan) BY <1>1 DEF Create
  <2>2. records'[k] = Apply(records[k], plan) BY <1>t, <2>1
  <2>3. StepMay(k) BY <2>2, CreateStep DEF StepMay
  <2> QED BY <1>u, <2>1, <2>3
<1>2. ASSUME NEW k \in Keys, NEW e, Execute(k, PlanDelete(records[k], e, clock, Cap))
      PROVE  \A j \in Keys : StepMay(j)
  <2>1. records'[k] = Apply(records[k], PlanDelete(records[k], e, clock, Cap))
    BY <1>t, <1>2
  <2>2. StepMay(k) BY <1>k, <1>c, <2>1, DeleteAdvances DEF StepMay
  <2> QED BY <1>u, <1>2, <2>2
<1>3. ASSUME NEW c \in Editors, NEW body \in Bodies, CommitEdit(c, body)
      PROVE  \A j \in Keys : StepMay(j)
  <2> DEFINE k == session[c].key
             plan == PlanPut(records[k], UpdateRecord(session[c].seen, body),
                             session[c].seen.revision, Cap)
  <2>1. session[c].op = "edit" /\ Execute(k, plan) BY <1>3 DEF CommitEdit, Finish
  <2>2. k \in Keys BY <1>0, <2>1, HeldFacts
  <2>3. records'[k] = Apply(records[k], plan) BY <1>t, <2>1, <2>2
  <2>4. StepMay(k) BY <2>1, <2>3, EditStep DEF StepMay
  <2> QED BY <1>u, <2>1, <2>2, <2>4
<1>4. ASSUME NEW c \in Editors, CommitReset(c) PROVE \A j \in Keys : StepMay(j)
  <2>1. session[c].op = "reset"
        /\ Execute(session[c].key, PlanDelete(records[session[c].key],
                                              session[c].seen.revision, clock, Cap))
    BY <1>4 DEF CommitReset, Finish
  <2>2. session[c].key \in Keys BY <1>0, <2>1, HeldFacts
  <2> QED BY <1>2, <2>1, <2>2
<1>5. ASSUME NEW c \in Editors, CommitUndelete(c) PROVE \A j \in Keys : StepMay(j)
  <2> DEFINE k == session[c].key
             plan == PlanPutRaw(records[k], Restored(session[c].seen),
                                session[c].seen.revision, Cap)
  <2>1. session[c].op = "undelete" /\ Execute(k, plan) BY <1>5 DEF CommitUndelete, Finish
  <2>2. k \in Keys /\ IsManifestTombstone(session[c].seen)
        /\ session[c].seen \in Record
    BY <1>0, <2>1, HeldFacts
  <2>3. records'[k] = Apply(records[k], plan) BY <1>t, <2>1, <2>2
  <2>4. Advances(records[k], records'[k])
        /\ (records[k] # None /\ records'[k] # records[k]
            => records[k].revision = session[c].seen.revision)
    BY <2>1, <2>3, UndeleteStep
  <2>5. IsLive(records[k]) => records'[k] = records[k]
    <3>1. session[c].seen.revision.hash = TombstoneHash
      BY <1>0, <2>1, <2>2, HeldFacts, NoneIsNotRecord
      DEF WellFormed, NamesItsBody, IsManifestTombstone
    <3>2. IsLive(records[k]) => records[k].revision.hash \in Nat \ {0}
      BY <1>k, <2>2, ContentHashAssumption
      DEF WellFormed, NamesItsBody, IsLive, Slot, Record
    <3> QED BY <2>4, <3>1, <3>2 DEF IsLive, TombstoneHash
  <2>6. StepMay(k) BY <2>4, <2>5 DEF StepMay
  <2> QED BY <1>u, <2>1, <2>2, <2>6
<1>6. ASSUME NEW c \in Removers, NEW op \in {"collect", "purge", "daemon_purge"},
             CommitPurge(c, op)
      PROVE  \A j \in Keys : StepMay(j)
  <2> DEFINE k == session[c].key
             plan == PlanPurge(records[k], session[c].seen.revision)
  <2>1. session[c].op = op /\ Execute(k, plan) BY <1>6 DEF CommitPurge, Finish
  <2>2. k \in Keys BY <1>0, <2>1, HeldFacts
  <2>3. records'[k] = Apply(records[k], plan) BY <1>t, <2>1, <2>2
  <2>4. records'[k] = records[k] \/ records'[k] = None
    BY <1>k, <2>2, <2>3, PurgeRemoves
  <2>5. StepMay(k) BY <1>6, <2>4 DEF StepMay, PurgeStep, Advances, IsLive
  <2> QED BY <1>u, <2>1, <2>2, <2>5
<1>7. ASSUME NEW c \in Sessions, NEW k \in Keys,
             \/ ReadToEdit(c, k) \/ ReadToReset(c, k) \/ ReadToUndelete(c, k)
             \/ ReadToCollect(c, k) \/ ReadToPurge(c, k) \/ ReadToAskDaemon(c, k)
             \/ DaemonCheck(c) \/ Tick
      PROVE  records' = records
  BY <1>7 DEF ReadToEdit, ReadToReset, ReadToUndelete, ReadToCollect, ReadToPurge,
              ReadToAskDaemon, DaemonCheck, Tick, Hold
<1>8. CASE EditorNext
  <2>1. ASSUME NEW k \in Keys, Delete(k) PROVE \A j \in Keys : StepMay(j)
    BY <1>2, <2>1 DEF Delete
  <2> QED BY <1>0, <1>s, <1>1, <1>3, <1>4, <1>5, <1>7, <1>8, <2>1 DEF EditorNext
<1>9. CASE RemoverNext
  <2>1. ASSUME NEW c \in Removers, DaemonCheck(c) PROVE records' = records
    BY <2>1 DEF DaemonCheck
  <2> QED BY <1>0, <1>s, <1>6, <1>7, <1>9, <2>1 DEF RemoverNext
<1>10. CASE Tick BY <1>s, <1>10 DEF Tick
<1> QED BY <1>8, <1>9, <1>10 DEF Next

\* A key's history never turns back: for any sessions, cap and bodies, whatever
\* replaces a stored record has a higher revision counter.
THEOREM CountersRise == Spec => CounterRises
<1>1. IndInv /\ [Next]_vars =>
        [\A k \in Keys :
            records[k] # None /\ records'[k] # None /\ records'[k] # records[k]
            => records'[k].revision.counter > records[k].revision.counter]_records
  BY StepSummary DEF StepMay, Advances, vars
<1> QED BY <1>1, StoreInvariant, PTL DEF Spec, CounterRises

EditorHadRead(k) ==
    \E c \in Editors : /\ session[c].op = "edit"
                       /\ session[c].key = k
                       /\ session[c].seen.body = records[k].body
                       /\ c \notin overtaken => session[c].seen = records[k]
EditMay(k) ==
    IsLive(records[k]) /\ IsLive(records'[k]) /\ records'[k] # records[k] => EditorHadRead(k)

\* No edit is lost: a live record gives way to another only at the hands of an
\* editor whose read showed the very record that is replaced, or, if the key was
\* removed and created again since, the same body.
THEOREM UpdatesAreNotLost == Spec => NoLostUpdate
<1>1. ASSUME IndInv, Next PROVE \A k \in Keys : EditMay(k)
  <2> SUFFICES ASSUME NEW k \in Keys,
                      IsLive(records[k]), IsLive(records'[k]), records'[k] # records[k]
               PROVE  EditorHadRead(k)
    BY DEF EditMay
  <2>1. PICK c \in Editors : session[c].op = "edit" /\ session[c].key = k
                             /\ session[c].seen.revision = records[k].revision
    BY <1>1, StepSummary DEF StepMay
  <2>2. session[c].seen \in Record /\ IsLive(session[c].seen) /\ WellFormed(session[c].seen)
    BY <1>1, <2>1, HeldFacts DEF Sessions
  <2>3. records[k] \in Record /\ WellFormed(records[k])
    BY <1>1 DEF IndInv, TypeOK, Slot, IsLive
  <2>4. ContentHash[session[c].seen.body] = ContentHash[records[k].body]
    BY <2>1, <2>2, <2>3 DEF WellFormed, NamesItsBody, IsLive
  <2>5. session[c].seen.body \in Bodies /\ records[k].body \in Bodies
    BY <2>2, <2>3 DEF Record
  <2>6. session[c].seen.body = records[k].body
    BY <2>4, <2>5, ContentHashAssumption
  <2>7. c \notin overtaken => session[c].seen = records[k]
    BY <1>1, <2>1, FoundIsSeen DEF Sessions
  <2> QED BY <2>1, <2>6, <2>7 DEF EditorHadRead
<1> DEFINE A == \A k \in Keys : EditMay(k)
<1>2. IndInv /\ [Next]_vars => [A]_vars BY <1>1
<1> QED BY <1>2, StoreInvariant, PTL DEF Spec, NoLostUpdate, EditMay, EditorHadRead


(***************************************************************************)
(* The restore window                                                      *)
(***************************************************************************)

WindowMay(k) ==
    /\ records[k] # None
    /\ IsManifestTombstone(records[k])
    /\ records'[k] # records[k]
    => \E c \in Sessions :
          /\ session[c].key = k /\ session'[c] = Idle
          /\ session[c].seen.revision = records[k].revision
          /\ c \notin overtaken => session[c].seen = records[k]
          /\ \/ c \in Removers /\ records'[k] = None
             \/ /\ session[c].op = "undelete" /\ records'[k] # None
                /\ records'[k].kind = session[c].seen.deleted_kind
                /\ records'[k].body = session[c].seen.body

\* What undelete's put_raw leaves in a slot it changes is the tombstone's body
\* under its retained kind.
LEMMA UndeleteWrites ==
    ASSUME NEW slot \in Slot, slot # None, NEW tomb \in Record,
           NEW new, new = Apply(slot, PlanPutRaw(slot, Restored(tomb), tomb.revision, Cap)),
           new # slot
    PROVE  /\ slot.revision = tomb.revision
           /\ new.kind = tomb.deleted_kind
           /\ new.body = tomb.body
<1> DEFINE res == Restored(tomb)
           per == Persisted(slot, res, Cap)
<1>1. res.kind = tomb.deleted_kind /\ res.body = tomb.body
  BY DEF Restored, Record
<1>2. per.kind = res.kind /\ per.body = res.body
  BY DEF Persisted, Restored, Record
<1>3. Apply(slot, Plan("Conflict")) = slot /\ Apply(slot, Write(per)) = per
  BY DEF Apply, Plan, Write
<1>4. PlanPutRaw(slot, res, tomb.revision, Cap)
        = IF tomb.revision = slot.revision THEN Write(per) ELSE Plan("Conflict")
  BY DEF PlanPutRaw
<1>5. new = per /\ tomb.revision = slot.revision BY <1>3, <1>4
<1> QED BY <1>1, <1>2, <1>5

\* What any step may do to a manifest tombstone: plan_put and plan_delete leave it
\* alone, a purge and an undelete act on the revision they had read.
LEMMA WindowStep == ASSUME IndInv, Next PROVE \A k \in Keys : WindowMay(k)
<1>0. \A c \in Editors \cup Removers : c \in Sessions BY DEF Sessions
<1>k. \A k \in Keys : records[k] \in Slot /\ WellFormed(records[k]) BY DEF IndInv, TypeOK
<1>c. /\ clock \in Nat /\ records \in [Keys -> Slot]
      /\ session \in [Sessions -> Session]
  BY DEF IndInv, TypeOK
<1>l. \A k \in Keys : IsManifestTombstone(records[k]) => ~IsLive(records[k])
  BY DEF IsManifestTombstone, IsLive
<1>s. ASSUME records' = records PROVE \A k \in Keys : WindowMay(k)
  BY <1>s DEF WindowMay
<1>t. ASSUME NEW k \in Keys, NEW plan, Execute(k, plan)
      PROVE  /\ records'[k] = Apply(records[k], plan)
             /\ \A j \in Keys : j # k => records'[j] = records[j]
  BY <1>t, <1>c DEF Execute
<1>u. ASSUME NEW k \in Keys, NEW plan, Execute(k, plan), WindowMay(k)
      PROVE  \A j \in Keys : WindowMay(j)
  BY <1>u, <1>t DEF WindowMay
<1>f. ASSUME NEW c \in Sessions, NEW op, NEW plan, Finish(c, op, plan)
      PROVE  session[c].op = op /\ Execute(session[c].key, plan) /\ session'[c] = Idle
  BY <1>f, <1>c DEF Finish
<1>1. ASSUME NEW k \in Keys, NEW kind \in Kinds, NEW body \in Bodies, Create(k, kind, body)
      PROVE  \A j \in Keys : WindowMay(j)
  <2> DEFINE plan == PlanPut(records[k], CreateRecord(kind, body), None, Cap)
  <2>1. Execute(k, plan) BY <1>1 DEF Create
  <2>2. records'[k] = Apply(records[k], plan) BY <1>t, <2>1
  <2>3. WindowMay(k) BY <2>2, CreateStep DEF WindowMay
  <2> QED BY <1>u, <2>1, <2>3
<1>2. ASSUME NEW k \in Keys, NEW e, Execute(k, PlanDelete(records[k], e, clock, Cap))
      PROVE  \A j \in Keys : WindowMay(j)
  <2>1. records'[k] = Apply(records[k], PlanDelete(records[k], e, clock, Cap))
    BY <1>t, <1>2
  <2>2. WindowMay(k) BY <1>k, <1>c, <1>l, <2>1, DeleteAdvances DEF WindowMay
  <2> QED BY <1>u, <1>2, <2>2
<1>3. ASSUME NEW c \in Editors, NEW body \in Bodies, CommitEdit(c, body)
      PROVE  \A j \in Keys : WindowMay(j)
  <2> DEFINE k == session[c].key
             plan == PlanPut(records[k], UpdateRecord(session[c].seen, body),
                             session[c].seen.revision, Cap)
  <2>1. session[c].op = "edit" /\ Execute(k, plan) BY <1>3 DEF CommitEdit, Finish
  <2>2. k \in Keys BY <1>0, <2>1, HeldFacts
  <2>3. records'[k] = Apply(records[k], plan) BY <1>t, <2>1, <2>2
  <2>4. WindowMay(k) BY <2>1, <2>3, EditStep DEF WindowMay
  <2> QED BY <1>u, <2>1, <2>2, <2>4
<1>4. ASSUME NEW c \in Editors, CommitReset(c) PROVE \A j \in Keys : WindowMay(j)
  <2>1. session[c].op = "reset"
        /\ Execute(session[c].key, PlanDelete(records[session[c].key],
                                              session[c].seen.revision, clock, Cap))
    BY <1>4 DEF CommitReset, Finish
  <2>2. session[c].key \in Keys BY <1>0, <2>1, HeldFacts
  <2> QED BY <1>2, <2>1, <2>2
<1>5. ASSUME NEW c \in Editors, CommitUndelete(c) PROVE \A j \in Keys : WindowMay(j)
  <2> DEFINE k == session[c].key
             plan == PlanPutRaw(records[k], Restored(session[c].seen),
                                session[c].seen.revision, Cap)
  <2>1. session[c].op = "undelete" /\ Execute(k, plan) /\ session'[c] = Idle
    BY <1>0, <1>5, <1>f DEF CommitUndelete
  <2>2. k \in Keys /\ session[c].seen \in Record BY <1>0, <2>1, HeldFacts
  <2>3. records'[k] = Apply(records[k], plan) BY <1>t, <2>1, <2>2
  <2>4. Advances(records[k], records'[k]) BY <2>1, <2>3, UndeleteStep
  <2>5. ASSUME records[k] # None, records'[k] # records[k]
        PROVE  /\ records[k].revision = session[c].seen.revision
               /\ records'[k].kind = session[c].seen.deleted_kind
               /\ records'[k].body = session[c].seen.body
    BY <1>k, <2>2, <2>3, <2>5, UndeleteWrites
  <2>6. WindowMay(k) BY <1>0, <2>1, <2>4, <2>5, FoundIsSeen DEF WindowMay, Advances
  <2> QED BY <1>u, <2>1, <2>2, <2>6
<1>6. ASSUME NEW c \in Removers, NEW op \in {"collect", "purge", "daemon_purge"},
             CommitPurge(c, op)
      PROVE  \A j \in Keys : WindowMay(j)
  <2> DEFINE k == session[c].key
             plan == PlanPurge(records[k], session[c].seen.revision)
  <2>1. session[c].op = op /\ Execute(k, plan) /\ session'[c] = Idle
    BY <1>0, <1>6, <1>f DEF CommitPurge
  <2>2. k \in Keys BY <1>0, <2>1, HeldFacts
  <2>3. records'[k] = Apply(records[k], plan) BY <1>t, <2>1, <2>2
  <2>4. records'[k] # records[k] =>
           records'[k] = None /\ records[k].revision = session[c].seen.revision
    BY <1>k, <2>2, <2>3, PurgeRemoves
  <2>5. WindowMay(k) BY <1>0, <2>1, <2>4, FoundIsSeen DEF WindowMay
  <2> QED BY <1>u, <2>1, <2>2, <2>5
<1>7. ASSUME NEW c \in Sessions, NEW k \in Keys,
             \/ ReadToEdit(c, k) \/ ReadToReset(c, k) \/ ReadToUndelete(c, k)
             \/ ReadToCollect(c, k) \/ ReadToPurge(c, k) \/ ReadToAskDaemon(c, k)
      PROVE  records' = records
  BY <1>7 DEF ReadToEdit, ReadToReset, ReadToUndelete, ReadToCollect, ReadToPurge,
              ReadToAskDaemon, Hold
<1>8. CASE EditorNext
  <2>1. ASSUME NEW k \in Keys, Delete(k) PROVE \A j \in Keys : WindowMay(j)
    BY <1>2, <2>1 DEF Delete
  <2> QED BY <1>0, <1>s, <1>1, <1>3, <1>4, <1>5, <1>7, <1>8, <2>1 DEF EditorNext
<1>9. CASE RemoverNext
  <2>1. ASSUME NEW c \in Removers, DaemonCheck(c) PROVE records' = records
    BY <2>1 DEF DaemonCheck
  <2> QED BY <1>0, <1>s, <1>6, <1>7, <1>9, <2>1 DEF RemoverNext
<1>10. CASE Tick BY <1>s, <1>10 DEF Tick
<1> QED BY <1>8, <1>9, <1>10 DEF Next

\* The restore window, for any sessions and any number of removers: a manifest
\* tombstone is given up only by a purge or an undelete of the revision read,
\* never by a create or a late edit (plan_put).
THEOREM RestoreWindowHolds == Spec => RestoreWindow
<1> DEFINE A == \A k \in Keys : WindowMay(k)
<1>1. IndInv /\ [Next]_vars => [A]_vars BY WindowStep
<1> QED BY <1>1, StoreInvariant, PTL DEF Spec, RestoreWindow, WindowMay

(***************************************************************************)
(* Physical removal                                                        *)
(***************************************************************************)

RemovalMay(k) ==
    records[k] # None /\ records'[k] = None
    => \E c \in Removers :
          LET s == session[c] IN
          /\ s.key = k /\ session'[c] = Idle
          /\ s.seen.revision = records[k].revision
          /\ c \notin overtaken => records[k] = s.seen /\ IsTombstone(s.seen)
          /\ s.op \in {"collect", "purge"} => IsTombstone(records[k])
          /\ s.op = "collect" => clock - s.seen.deleted_at >= Horizon

\* A record with the revision of a tombstone is a tombstone: a live record's revision
\* carries the hash of its body, which is never that of a tombstone.
LEMMA TombstoneByRevision ==
    ASSUME NEW rec \in Record, WellFormed(rec), NEW tomb \in Record, WellFormed(tomb),
           IsTombstone(tomb), rec.revision = tomb.revision
    PROVE  IsTombstone(rec)
<1>1. tomb.revision.hash = TombstoneHash
  BY NoneIsNotRecord DEF WellFormed, NamesItsBody
<1>2. ~IsTombstone(rec) => rec.revision.hash \in Nat \ {0}
  BY NoneIsNotRecord, ContentHashAssumption DEF WellFormed, NamesItsBody, Record
<1> QED BY <1>1, <1>2 DEF TombstoneHash

\* Only a remover's purge empties a slot, and only of the revision it had read.
LEMMA RemovalStep == ASSUME IndInv, Next PROVE \A k \in Keys : RemovalMay(k)
<1>0. \A c \in Editors \cup Removers : c \in Sessions BY DEF Sessions
<1>k. \A k \in Keys : records[k] \in Slot /\ WellFormed(records[k]) BY DEF IndInv, TypeOK
<1>c. /\ clock \in Nat /\ records \in [Keys -> Slot]
      /\ session \in [Sessions -> Session]
  BY DEF IndInv, TypeOK
<1>t. ASSUME NEW k \in Keys, NEW plan, Execute(k, plan)
      PROVE  /\ records'[k] = Apply(records[k], plan)
             /\ \A j \in Keys : j # k => records'[j] = records[j]
  BY <1>t, <1>c DEF Execute
<1>1. ASSUME NEW c \in Removers, NEW op \in {"collect", "purge", "daemon_purge"},
             CommitPurge(c, op)
      PROVE  \A j \in Keys : RemovalMay(j)
  <2> DEFINE k == session[c].key
             plan == PlanPurge(records[k], session[c].seen.revision)
  <2>1. session[c].op = op /\ Execute(k, plan) /\ session'[c] = Idle
    BY <1>0, <1>c, <1>1 DEF CommitPurge, Finish
  <2>2. /\ k \in Keys /\ session[c].seen \in Record /\ WellFormed(session[c].seen)
        /\ HeldWellFormed(session[c], clock)
    BY <1>0, <2>1, HeldFacts
  <2>3. records'[k] = Apply(records[k], plan) BY <1>t, <2>1, <2>2
  <2>4. ASSUME records[k] # None, records'[k] = None PROVE RemovalMay(k)
    <3>1. records[k].revision = session[c].seen.revision
      BY <1>k, <2>2, <2>3, <2>4, PurgeRemoves
    <3>2. records[k] \in Record BY <1>k, <2>2, <2>4 DEF Slot
    <3>3. op \in {"collect", "purge"} => IsTombstone(session[c].seen)
      BY <2>1, <2>2 DEF HeldWellFormed
    <3>4. op \in {"collect", "purge"} => IsTombstone(records[k])
      BY <1>k, <2>2, <3>1, <3>2, <3>3, TombstoneByRevision
    <3>5. c \notin overtaken => records[k] = session[c].seen /\ IsTombstone(session[c].seen)
      BY <1>0, <2>1, <3>1, <3>3, FoundIsSeen
    <3>6. op = "collect" => clock - session[c].seen.deleted_at >= Horizon
      BY <2>1, <2>2 DEF HeldWellFormed
    <3> QED BY <2>1, <3>1, <3>4, <3>5, <3>6 DEF RemovalMay
  <2>5. RemovalMay(k) BY <2>4 DEF RemovalMay
  <2> QED BY <1>t, <2>1, <2>2, <2>5 DEF RemovalMay
<1>2. CASE PurgeStep BY <1>1, <1>2 DEF PurgeStep
<1>3. CASE ~PurgeStep BY <1>3, StepSummary DEF StepMay, Advances, RemovalMay
<1> QED BY <1>2, <1>3

\* Removals are safe, for any number of removers and whatever they interleave with: a
\* remover that no other removal overtook takes exactly the tombstone it read
\* (collect.rs, cli purge, service.rs purge).
THEOREM RemovalsHold == Spec => RemovalsAreSafe
<1> DEFINE A == \A k \in Keys : RemovalMay(k)
<1>1. IndInv /\ [Next]_vars => [A]_vars BY RemovalStep
<1> QED BY <1>1, StoreInvariant, PTL DEF Spec, RemovalsAreSafe, RemovalMay

(***************************************************************************)
(* The reference store implements the store contract                       *)
(***************************************************************************)

\* The chains the store folds are lists.
FiniteRecords == \A k \in Keys : FiniteChain(records[k])

\* A whole write of the record that was there, or its removal, and nothing else.
ChangeOf(k) == /\ \A j \in Keys \ {k} : records'[j] = records[j]
               /\ \/ WrittenOver(records[k], records'[k], Cap)
                  \/ records[k] # None /\ records'[k] = None

Changes == records' = records \/ \E k \in Keys : ChangeOf(k)

\* Carrying out a plan that folds in the slot it was made for is such a change.
LEMMA ExecuteIsChange ==
    ASSUME TypeOK, NEW k \in Keys, NEW plan, Execute(k, plan),
           plan.outcome = "Write" => WrittenOver(records[k], plan.record, Cap),
           plan.outcome = "Remove" => records[k] # None
    PROVE  Changes
<1>1. /\ records'[k] = Apply(records[k], plan)
      /\ \A j \in Keys \ {k} : records'[j] = records[j]
      /\ records' \in [Keys -> {records'[j] : j \in Keys}]
      /\ records \in [Keys -> Slot]
  BY DEF Execute, TypeOK
<1>2. CASE plan.outcome = "Write" BY <1>1, <1>2 DEF Apply, Changes, ChangeOf
<1>3. CASE plan.outcome = "Remove" BY <1>1, <1>3 DEF Apply, Changes, ChangeOf
<1>4. CASE plan.outcome \notin {"Write", "Remove"}
  <2>1. Apply(records[k], plan) = records[k] BY <1>4 DEF Apply
  <2>2. records' = [records EXCEPT ![k] = records[k]] BY <2>1 DEF Execute
  <2> QED BY <1>1, <2>2 DEF Changes
<1> QED BY <1>2, <1>3, <1>4

\* Every step changes one record at most, in one whole write (MemStore::write, purge).
LEMMA StepIsChange == ASSUME IndInv, FiniteRecords, [Next]_vars PROVE Changes
<1>0. \A c \in Editors \cup Removers : c \in Sessions BY DEF Sessions
<1>1. TypeOK /\ clock \in Nat /\ Cap \in Nat BY StoreAssumption DEF IndInv, TypeOK
<1>2. \A k \in Keys : records[k] \in FiniteSlot
  BY DEF IndInv, TypeOK, FiniteRecords, FiniteSlot
<1>3. \A k \in Keys : records[k] # None => records[k].revision \in Revision
  BY DEF IndInv, TypeOK, Slot, Record
<1>4. ASSUME NEW k \in Keys, NEW kind \in Kinds, NEW body \in Bodies, Create(k, kind, body)
      PROVE  Changes
  <2> DEFINE new == CreateRecord(kind, body)
             plan == PlanPut(records[k], new, None, Cap)
  <2>1. kind \in LiveKinds BY StoreAssumption
  <2>2. new.ancestors = {} BY DEF CreateRecord
  <2>3. new \in Record /\ FiniteChain(new) /\ ~IsTombstone(new)
    BY <2>1, <2>2, CreateWellFormed, FS_EmptySet DEF FiniteChain
  <2>4. records[k] # None => None # records[k].revision BY <1>3, NoneAssumption
  <2> HIDE DEF new
  <2>5. /\ plan.outcome \in {"Write", "Rejected", "NotFound", "Conflict"}
        /\ plan.outcome = "Write" => WrittenOver(records[k], plan.record, Cap)
    BY <1>1, <1>2, <2>3, <2>4, PutIsWritten
  <2>6. Execute(k, plan) BY <1>4 DEF Create, new
  <2> HIDE DEF plan
  <2> QED BY <1>1, <2>5, <2>6, ExecuteIsChange
<1>5. ASSUME NEW k \in Keys, NEW e, Execute(k, PlanDelete(records[k], e, clock, Cap))
      PROVE  Changes
  <2> DEFINE plan == PlanDelete(records[k], e, clock, Cap)
  <2>1. /\ plan.outcome \in {"Write", "Noop", "Conflict"}
        /\ plan.outcome = "Write" => WrittenOver(records[k], plan.record, Cap)
    BY <1>1, <1>2, DeleteIsWritten
  <2>2. Execute(k, plan) BY <1>5
  <2> HIDE DEF plan
  <2> QED BY <1>1, <2>1, <2>2, ExecuteIsChange
<1>6. ASSUME NEW c \in Editors, NEW body \in Bodies, CommitEdit(c, body) PROVE Changes
  <2> DEFINE s == session[c]
             k == s.key
             new == UpdateRecord(s.seen, body)
             plan == PlanPut(records[k], new, s.seen.revision, Cap)
  <2>1. s.op = "edit" /\ Execute(k, plan) BY <1>6 DEF CommitEdit, Finish
  <2>2. k \in Keys /\ s.seen \in Record /\ ~IsTombstone(s.seen)
    BY <1>0, <2>1, HeldFacts DEF IsLive
  <2>3. new.ancestors = {} BY DEF UpdateRecord
  <2>4. /\ new \in Record /\ FiniteChain(new) /\ ~IsTombstone(new)
        /\ new.revision.counter > s.seen.revision.counter
    BY <2>2, <2>3, UpdateWellFormed, FS_EmptySet DEF FiniteChain
  <2> HIDE DEF new, k, s
  <2>5. /\ plan.outcome \in {"Write", "Rejected", "NotFound", "Conflict"}
        /\ plan.outcome = "Write" => WrittenOver(records[k], plan.record, Cap)
    BY <1>1, <1>2, <2>2, <2>4, PutIsWritten
  <2> HIDE DEF plan
  <2> QED BY <1>1, <2>1, <2>2, <2>5, ExecuteIsChange
<1>7. ASSUME NEW c \in Editors, CommitReset(c) PROVE Changes
  <2>1. session[c].op = "reset"
        /\ Execute(session[c].key, PlanDelete(records[session[c].key],
                                              session[c].seen.revision, clock, Cap))
    BY <1>7 DEF CommitReset, Finish
  <2>2. session[c].key \in Keys BY <1>0, <2>1, HeldFacts
  <2> QED BY <1>5, <2>1, <2>2
<1>8. ASSUME NEW c \in Editors, CommitUndelete(c) PROVE Changes
  <2> DEFINE s == session[c]
             k == s.key
             new == Restored(s.seen)
             plan == PlanPutRaw(records[k], new, s.seen.revision, Cap)
  <2>1. s.op = "undelete" /\ Execute(k, plan) BY <1>8 DEF CommitUndelete, Finish
  <2>2. k \in Keys /\ s.seen \in Record /\ IsManifestTombstone(s.seen)
    BY <1>0, <2>1, HeldFacts
  <2>3. new.ancestors = {} BY <2>2 DEF Restored, Record
  <2>4. /\ new \in Record /\ FiniteChain(new)
        /\ new.revision.counter > s.seen.revision.counter
    BY <2>2, <2>3, RestoredWellFormed, FS_EmptySet DEF FiniteChain
  <2> HIDE DEF new, k, s
  <2>5. /\ plan.outcome \in {"Write", "NotFound", "Conflict"}
        /\ plan.outcome = "Write" => WrittenOver(records[k], plan.record, Cap)
    BY <1>1, <1>2, <2>2, <2>4, PutRawIsWritten
  <2> HIDE DEF plan
  <2> QED BY <1>1, <2>1, <2>2, <2>5, ExecuteIsChange
<1>9. ASSUME NEW c \in Removers, NEW op \in {"collect", "purge", "daemon_purge"},
             CommitPurge(c, op)
      PROVE  Changes
  <2> DEFINE k == session[c].key
             plan == PlanPurge(records[k], session[c].seen.revision)
  <2>1. session[c].op = op /\ Execute(k, plan) BY <1>9 DEF CommitPurge, Finish
  <2>2. k \in Keys BY <1>0, <2>1, HeldFacts
  <2>3. plan.outcome # "Write" /\ (plan.outcome = "Remove" => records[k] # None)
    BY DEF PlanPurge, Plan
  <2> HIDE DEF plan
  <2> QED BY <1>1, <2>1, <2>2, <2>3, ExecuteIsChange
<1>10. ASSUME NEW c \in Sessions, NEW k \in Keys,
              \/ ReadToEdit(c, k) \/ ReadToReset(c, k) \/ ReadToUndelete(c, k)
              \/ ReadToCollect(c, k) \/ ReadToPurge(c, k) \/ ReadToAskDaemon(c, k)
       PROVE  Changes
  BY <1>10 DEF ReadToEdit, ReadToReset, ReadToUndelete, ReadToCollect, ReadToPurge,
               ReadToAskDaemon, Hold, Changes
<1>11. ASSUME NEW c \in Removers, DaemonCheck(c) PROVE Changes BY <1>11 DEF DaemonCheck, Changes
<1>12. CASE EditorNext
  <2>1. ASSUME NEW k \in Keys, Delete(k) PROVE Changes BY <1>5, <2>1 DEF Delete
  <2> QED BY <1>0, <1>4, <1>6, <1>7, <1>8, <1>10, <1>12, <2>1 DEF EditorNext
<1>13. CASE RemoverNext BY <1>0, <1>9, <1>10, <1>11, <1>13 DEF RemoverNext
<1>14. CASE Tick \/ UNCHANGED vars BY <1>14 DEF Tick, vars, Changes
<1> QED BY <1>12, <1>13, <1>14 DEF Next

LEMMA ChangesKeepFinite == ASSUME FiniteRecords, Changes PROVE FiniteRecords'
BY DEF FiniteRecords, Changes, ChangeOf, WrittenOver, FiniteChain

\* The contract folds as the planners do.
LEMMA SamePersisted == \A slot, rec : Contract!Persisted(slot, rec, Cap) = Persisted(slot, rec, Cap)
<1>1. \A r, s : Contract!Newer(r, s) <=> Newer(r, s) BY DEF Contract!Newer, Newer
<1>2. \A revs : Contract!Newest(revs, Cap) = Newest(revs, Cap)
  <2>1. \A S : Contract!Cardinality(S) = Cardinality(S)
    BY Zenon DEF Contract!Cardinality, Cardinality
  <2> QED BY <1>1, <2>1 DEF Contract!Newest, Newest
<1>3. \A slot : Contract!Lineage(slot) = Lineage(slot) BY DEF Contract!Lineage, Lineage
<1> QED BY <1>2, <1>3 DEF Contract!Persisted, Persisted, Contract!FoldAncestors, FoldAncestors

LEMMA ChangesAreAllowed == ASSUME Changes PROVE [Contract!Next]_Contract!cvars
<1>1. CASE records' = records BY <1>1 DEF Contract!cvars
<1>2. ASSUME NEW k \in Keys, ChangeOf(k) PROVE Contract!Change(k)
  <2>1. \/ records'[k] # None /\ records'[k] = Persisted(records[k], records'[k], Cap)
        \/ records[k] # None /\ records'[k] = None
    BY <1>2, NoneIsNotRecord DEF ChangeOf, WrittenOver
  <2> QED BY <1>2, <2>1, SamePersisted
       DEF ChangeOf, Contract!Change, Contract!Replace, Contract!Remove, Contract!Only
<1> QED BY <1>1, <1>2 DEF Changes, Contract!Next

\* The reference store implements the store contract, for any sessions and caps: whatever
\* interleaves with a call, each change of a record is one whole write that folds in the
\* very record it replaces, or a removal (MemStore, ADR 0021).
THEOREM StoreImplementsContract == Spec => ImplementsContract
<1>1. Init => Contract!Init /\ FiniteRecords
  BY DEF Init, Contract!Init, Contract!Slot, FiniteRecords, FiniteChain
<1>2. IndInv /\ FiniteRecords /\ [Next]_vars => FiniteRecords' /\ [Contract!Next]_Contract!cvars
  BY StepIsChange, ChangesKeepFinite, ChangesAreAllowed
<1> QED BY <1>1, <1>2, StoreInvariant, PTL DEF Spec, ImplementsContract, Contract!Spec

(***************************************************************************)
(* The daemon before a store.  DaemonInv says which requests can be under   *)
(* way, which results each of them can have, that an answer carries its      *)
(* result, and that what clients read and send on are records.               *)
(***************************************************************************)

\* A request a client of the daemon can make: a replica's goes on what it holds live.
RequestOK(req) ==
    /\ req = [op |-> req.op, via |-> req.via, token |-> req.token, seen |-> req.seen,
              body |-> req.body, claimed |-> req.claimed, blob |-> req.blob,
              scoped |-> req.scoped, replica |-> req.replica]
    /\ req.op \in D!Reads \cup WriteOps \cup D!BlobOps
    /\ req.via \in {"http", "grpc"}
    /\ req.seen \in FiniteSlot
    /\ req.replica \in BOOLEAN
    /\ IF req.replica THEN req.op \in {"get_raw", "put_raw"} /\ IsLive(req.seen)
       ELSE /\ req.op # "put_raw"
            /\ req.op \in WriteOps => Sensible(req.op, req.seen)
            /\ req.op = "put" => req.body \in NewBodies

\* Why the daemon answers without the store's answer.
Refusals == {"Unserved", "Unauthenticated", "Forbidden", "Failed"}

\* A result the operation can have.
ResultOK(req, res) ==
    /\ res = D!Res(res.tag, res.val)
    /\ res.tag \in D!Succeeded \cup Refusals \cup {"Conflict", "NotFound", "Invalid"}
    /\ res.tag \in Refusals \cup {"Absent", "NotFound", "Invalid"} => res.val = None
    /\ res.tag \in {"Found", "Absent"} => req.op \in {"get", "get_raw", "get_blob", "has_blob"}
    /\ res.tag = "Found" /\ req.op \in {"get", "get_raw"} => res.val \in FiniteSlot
    /\ res.tag = "NotFound" => req.op \in D!PutOps
    /\ res.tag = "Invalid" => req.op \in D!PutOps \cup {"purge"}
    /\ res.tag = "Unserved" => req.op \in D!RawOps \/ (req.op = "has_blob" /\ req.via = "grpc")

\* A client at rest, with a request under way (a purge that was let through), or answered.
CallOK(m) ==
    \/ m = D!Idle
    \/ /\ m.at \in {"sent", "checked"} /\ m = [at |-> m.at, req |-> m.req] /\ RequestOK(m.req)
       /\ m.at = "checked" => m.req.op = "purge"
    \/ /\ m.at = "answered" /\ RequestOK(m.req) /\ ResultOK(m.req, m.result)
       /\ m.wire = D!Wire(m.req.via, m.req.op, m.result)

CallsOK == request = [c \in Clients |-> request[c]] /\ \A c \in Clients : CallOK(request[c])

DaemonInv == /\ record \in FiniteSlot
             /\ known \in [Clients -> FiniteSlot]
             /\ CallsOK

\* What a client makes of the daemon's answer to op, by the kind of result.
Told(via, op, res) == D!Decode(via, op, D!Wire(via, op, res))

\* What classify_* make of each result's HTTP status.
LEMMA HttpTells ==
    ASSUME NEW req, NEW res, ResultOK(req, res)
    PROVE  /\ res.tag \in D!Succeeded \cup {"Conflict", "NotFound"} => Told("http", req.op, res) = res
           /\ res.tag = "Invalid" =>
                 Told("http", req.op, res) = IF req.op \in D!PutOps THEN res ELSE D!Backend
           /\ res.tag \in {"Unauthenticated", "Forbidden", "Failed"} => Told("http", req.op, res) = D!Backend
           /\ res.tag = "Unserved" /\ req.op \in D!RawOps => Told("http", req.op, res) = D!Upgrade
<1> DEFINE op == req.op
           wire == D!Wire("http", op, res)
           told == D!DecodeHttp(op, wire)
<1>0. res = [tag |-> res.tag, val |-> res.val] BY DEF ResultOK, D!Res
<1>1. wire.status = D!HttpStatus(op, res) BY DEF D!Wire
<1>2. wire.body = (IF res.tag \in D!Succeeded \cup {"Conflict"} THEN res ELSE D!NoBody) BY DEF D!Wire
<1>3. Told("http", op, res) = told BY DEF Told, D!Decode
<1> HIDE DEF wire
<1>4. ASSUME res.tag \in D!Succeeded \cup {"Conflict"} PROVE told = res
  <2>1. wire.body = res /\ res # D!NoBody BY <1>0, <1>2, <1>4 DEF D!NoBody, D!Res, D!Succeeded
  <2>2. CASE res.tag # "Absent"
    <3>1. wire.status \in {200, 409} BY <1>1, <1>4, <2>2 DEF D!HttpStatus, D!Succeeded
    <3> QED BY <2>1, <3>1 DEF D!DecodeHttp
  <2>3. CASE res.tag = "Absent"
    <3>1. wire.status = IF op = "get_raw" THEN 200 ELSE 404 BY <1>1, <2>3 DEF D!HttpStatus, D!Succeeded
    <3>2. res = D!Res("Absent", None) BY <2>3 DEF ResultOK
    <3>3. op \in {"get", "get_raw", "get_blob", "has_blob"} BY <2>3 DEF ResultOK
    <3>4. CASE op = "get_raw" BY <2>1, <3>1, <3>4 DEF D!DecodeHttp
    <3>5. CASE op # "get_raw"
      <4>1. wire.status = 404 /\ op \notin D!RawOps /\ op \in {"get", "get_blob", "has_blob"}
        BY <3>1, <3>3, <3>5 DEF D!RawOps
      <4> HIDE DEF op
      <4> QED BY <3>2, <4>1 DEF D!DecodeHttp
    <3> QED BY <3>4, <3>5
  <2> QED BY <2>2, <2>3
<1>5. ASSUME res.tag = "NotFound" PROVE told = res
  <2>1. op \in D!PutOps /\ res = D!Res("NotFound", None) BY <1>5 DEF ResultOK
  <2>2. wire.status = 412 BY <1>1, <1>5, <2>1 DEF D!HttpStatus, D!Succeeded
  <2> HIDE DEF op
  <2> QED BY <2>1, <2>2 DEF D!DecodeHttp
<1>6. ASSUME res.tag = "Invalid" PROVE told = IF op \in D!PutOps THEN res ELSE D!Backend
  <2>1. res = D!Res("Invalid", None) BY <1>6 DEF ResultOK
  <2>2. wire.status = 400 BY <1>1, <1>6 DEF D!HttpStatus, D!Succeeded
  <2> HIDE DEF op
  <2> QED BY <2>1, <2>2 DEF D!DecodeHttp
<1>7. ASSUME res.tag \in {"Unauthenticated", "Forbidden", "Failed"} PROVE told = D!Backend
  <2>1. wire.status \in {401, 403, 500} BY <1>1, <1>7 DEF D!HttpStatus, D!Succeeded
  <2> HIDE DEF op
  <2> QED BY <2>1 DEF D!DecodeHttp
<1>8. ASSUME res.tag = "Unserved", op \in D!RawOps PROVE told = D!Upgrade
  <2>1. wire.status = 404 BY <1>1, <1>8 DEF D!HttpStatus, D!Succeeded
  <2>2. op \notin {"get", "get_blob", "has_blob"} BY <1>8 DEF D!RawOps
  <2> HIDE DEF op
  <2> QED BY <1>8, <2>1, <2>2 DEF D!DecodeHttp
<1> HIDE DEF told
<1> QED BY <1>3, <1>4, <1>5, <1>6, <1>7, <1>8

\* What decode_* and *_status make of each result's gRPC code: the same.
LEMMA GrpcTells ==
    ASSUME NEW req, NEW res, ResultOK(req, res)
    PROVE  /\ res.tag \in D!Succeeded \cup {"Conflict", "NotFound"} => Told("grpc", req.op, res) = res
           /\ res.tag = "Invalid" =>
                 Told("grpc", req.op, res) = IF req.op \in D!PutOps THEN res ELSE D!Backend
           /\ res.tag \in {"Unauthenticated", "Forbidden", "Failed"} => Told("grpc", req.op, res) = D!Backend
           /\ res.tag = "Unserved" =>
                 Told("grpc", req.op, res) = IF req.op \in D!RawOps THEN D!Upgrade ELSE D!Backend
<1> DEFINE op == req.op
           wire == D!Wire("grpc", op, res)
           told == D!DecodeGrpc(op, wire)
<1>1. wire.status = D!GrpcCode(op, res) BY DEF D!Wire
<1>2. wire.body = (IF res.tag \in D!Succeeded \cup {"Conflict"} THEN res ELSE D!NoBody) BY DEF D!Wire
<1>3. Told("grpc", op, res) = told BY DEF Told, D!Decode
<1> HIDE DEF wire
<1>4. ASSUME res.tag \in D!Succeeded \cup {"Conflict"} PROVE told = res
  <2>1. wire.status = "Ok" BY <1>1, <1>4 DEF D!GrpcCode, D!Succeeded
  <2> QED BY <1>2, <1>4, <2>1 DEF D!DecodeGrpc
<1>5. ASSUME res.tag = "NotFound" PROVE told = res
  <2>1. op \in D!PutOps /\ res = D!Res("NotFound", None) BY <1>5 DEF ResultOK
  <2>2. wire.status = "FailedPrecondition" BY <1>1, <1>5, <2>1 DEF D!GrpcCode, D!Succeeded
  <2> HIDE DEF op
  <2> QED BY <2>1, <2>2 DEF D!DecodeGrpc
<1>6. ASSUME res.tag = "Invalid" PROVE told = IF op \in D!PutOps THEN res ELSE D!Backend
  <2>1. res = D!Res("Invalid", None) /\ op # "delete" BY <1>6 DEF ResultOK, D!PutOps
  <2>2. wire.status = "InvalidArgument" BY <1>1, <1>6, <2>1 DEF D!GrpcCode, D!Succeeded
  <2> HIDE DEF op
  <2> QED BY <2>1, <2>2 DEF D!DecodeGrpc
<1>7. ASSUME res.tag \in {"Unauthenticated", "Forbidden", "Failed"} PROVE told = D!Backend
  <2>1. wire.status \in {"Unauthenticated", "PermissionDenied", "Internal"}
    BY <1>1, <1>7 DEF D!GrpcCode, D!Succeeded
  <2> HIDE DEF op
  <2> QED BY <2>1 DEF D!DecodeGrpc
<1>8. ASSUME res.tag = "Unserved" PROVE told = IF op \in D!RawOps THEN D!Upgrade ELSE D!Backend
  <2>1. wire.status = "Unimplemented" BY <1>1, <1>8 DEF D!GrpcCode, D!Succeeded
  <2> HIDE DEF op
  <2> QED BY <2>1 DEF D!DecodeGrpc
<1> HIDE DEF told
<1> QED BY <1>3, <1>4, <1>5, <1>6, <1>7, <1>8

\* What a client reads out of the wire is the store's result, or says that there is none.
LEMMA AnswerOf ==
    ASSUME NEW req, NEW res, RequestOK(req), ResultOK(req, res)
    PROVE  LET told == D!Decode(req.via, req.op, D!Wire(req.via, req.op, res)) IN
           /\ \/ told = res
              \/ told = D!Backend /\ res.tag \notin D!Succeeded \cup {"Conflict", "NotFound"}
              \/ told = D!Upgrade /\ res.tag = "Unserved"
           /\ <<req.op, res.tag>> # <<"has_blob", "Unserved">> =>
                 Told("http", req.op, res) = Told("grpc", req.op, res)
<1>1. res.tag \in D!Succeeded \cup Refusals \cup {"Conflict", "NotFound", "Invalid"} BY DEF ResultOK
<1>2. req.via \in {"http", "grpc"} BY DEF RequestOK
<1>3. res.tag = "Unserved" => req.op \in D!RawOps \/ (req.op = "has_blob" /\ req.via = "grpc")
  BY DEF ResultOK
<1> DEFINE told == Told(req.via, req.op, res)
<1> HIDE DEF told
<1>4. CASE res.tag \in D!Succeeded \cup {"Conflict", "NotFound"}
  <2>1. Told("http", req.op, res) = res /\ Told("grpc", req.op, res) = res BY <1>4, HttpTells, GrpcTells
  <2> QED BY <1>2, <2>1 DEF Told
<1>5. CASE res.tag = "Invalid"
  <2>1. /\ Told("http", req.op, res) = IF req.op \in D!PutOps THEN res ELSE D!Backend
        /\ Told("grpc", req.op, res) = IF req.op \in D!PutOps THEN res ELSE D!Backend
    BY <1>5, HttpTells, GrpcTells
  <2>2. res.tag \notin D!Succeeded \cup {"Conflict", "NotFound"} BY <1>5 DEF D!Succeeded
  <2> QED BY <1>2, <2>1, <2>2 DEF Told
<1>6. CASE res.tag \in {"Unauthenticated", "Forbidden", "Failed"}
  <2>1. Told("http", req.op, res) = D!Backend /\ Told("grpc", req.op, res) = D!Backend
    BY <1>6, HttpTells, GrpcTells
  <2>2. res.tag \notin D!Succeeded \cup {"Conflict", "NotFound"} BY <1>6 DEF D!Succeeded
  <2> QED BY <1>2, <2>1, <2>2 DEF Told
<1>7. CASE res.tag = "Unserved"
  <2>1. /\ req.op \in D!RawOps => Told("http", req.op, res) = D!Upgrade
        /\ Told("grpc", req.op, res) = IF req.op \in D!RawOps THEN D!Upgrade ELSE D!Backend
    BY <1>7, HttpTells, GrpcTells
  <2>2. res.tag \notin D!Succeeded \cup {"Conflict", "NotFound"} BY <1>7 DEF D!Succeeded
  <2>3. "has_blob" \notin D!RawOps BY DEF D!RawOps
  <2> QED BY <1>2, <1>3, <1>7, <2>1, <2>2, <2>3 DEF Told
<1> QED BY <1>1, <1>4, <1>5, <1>6, <1>7 DEF Refusals

\* The daemon's planners are the store's.
LEMMA SamePlans ==
    /\ \A kind, body : D!CreateRecord(kind, body) = CreateRecord(kind, body)
    /\ \A rec, now, cap : D!TombstoneOf(rec, now, cap) = TombstoneOf(rec, now, cap)
    /\ \A slot, rec, expected, cap :
          D!PlanPutRaw(slot, rec, expected, cap) = PlanPutRaw(slot, rec, expected, cap)
    /\ \A req, slot, cap : D!PlanFor(req, slot, cap) = PlanFor(req, slot, cap)
<1>0. \A S : D!Cardinality(S) = Cardinality(S) BY DEF D!Cardinality, Cardinality
<1>1. ASSUME NEW stored, NEW incoming, NEW slot, NEW cap
      PROVE  D!FoldAncestors(stored, incoming, slot, cap) = FoldAncestors(stored, incoming, slot, cap)
  BY <1>0 DEF D!FoldAncestors, FoldAncestors, D!Newest, Newest, D!Newer, Newer, D!Lineage, Lineage
<1>2. ASSUME NEW rec, NEW now, NEW cap PROVE D!TombstoneOf(rec, now, cap) = TombstoneOf(rec, now, cap)
  <2> DEFINE v == [counter |-> rec.revision.counter + 1, hash |-> 0]
             anc == FoldAncestors(v, {}, rec, cap)
  <2>1. D!FoldAncestors(v, {}, rec, cap) = anc BY <1>1
  <2> HIDE DEF anc
  <2> QED BY <2>1 DEF D!TombstoneOf, TombstoneOf, D!TombstoneHash, TombstoneHash, D!ManifestKinds,
             ManifestKinds, anc
<1>3. \A slot, rec, cap : D!Persisted(slot, rec, cap) = Persisted(slot, rec, cap)
  BY <1>1 DEF D!Persisted, Persisted
<1>4. \A slot, rec, cap : D!Recreated(slot, rec, cap) = Recreated(slot, rec, cap)
  BY <1>1 DEF D!Recreated, Recreated, D!NextRevision, NextRevision
<1>5. /\ \A kind, body : D!CreateRecord(kind, body) = CreateRecord(kind, body)
      /\ \A rec, body : D!UpdateRecord(rec, body) = UpdateRecord(rec, body)
  BY DEF D!CreateRecord, CreateRecord, D!UpdateRecord, UpdateRecord, D!InitialRevision,
         InitialRevision, D!NextRevision, NextRevision
<1>6. ASSUME NEW slot, NEW rec, NEW expected, NEW cap
      PROVE  /\ D!PlanPut(slot, rec, expected, cap) = PlanPut(slot, rec, expected, cap)
             /\ D!PlanPutRaw(slot, rec, expected, cap) = PlanPutRaw(slot, rec, expected, cap)
  <2>1. /\ D!Persisted(slot, rec, cap) = Persisted(slot, rec, cap)
        /\ D!Persisted(None, rec, cap) = Persisted(None, rec, cap)
        /\ D!Recreated(slot, rec, cap) = Recreated(slot, rec, cap)
    BY <1>3, <1>4
  <2> QED BY <2>1, SMT DEF D!PlanPut, PlanPut, D!PlanPutRaw, PlanPutRaw, D!Write, Write, D!Plan, Plan,
             D!IsTombstone, IsTombstone, D!IsLive, IsLive, D!IsManifestTombstone,
             IsManifestTombstone, D!ManifestKinds, ManifestKinds
<1>7. /\ \A slot, expected, now, cap : D!PlanDelete(slot, expected, now, cap) = PlanDelete(slot, expected, now, cap)
      /\ \A slot, expected : D!PlanPurge(slot, expected) = PlanPurge(slot, expected)
  BY <1>2, Zenon DEF D!PlanDelete, PlanDelete, D!PlanPurge, PlanPurge, D!Write, Write, D!Plan, Plan,
     D!IsTombstone, IsTombstone, D!IsLive, IsLive
<1>8. ASSUME NEW req, NEW slot, NEW cap PROVE D!PlanFor(req, slot, cap) = PlanFor(req, slot, cap)
  BY <1>2, <1>5, <1>6, <1>7, Zenon DEF D!PlanFor, PlanFor, D!ExpectedOf, ExpectedOf
<1> QED BY <1>2, <1>5, <1>6, <1>8

\* A daemon that comes up over what earlier writers left, and clients of it, satisfy it.
LEMMA DaemonInit == ASSUME D!DaemonAssumption PROVE D!Init => DaemonInv
<1> SUFFICES ASSUME D!Init PROVE DaemonInv OBVIOUS
<1>1. PICK body \in NewBodies :
         LET live == CreateRecord("Topic", body) IN
         /\ record \in {None, live, TombstoneOf(live, 0, ServedCap)}
         /\ known \in [Clients -> {None, live}]
  BY SamePlans DEF D!Init
<1> DEFINE live == CreateRecord("Topic", body)
<1>2. body \in Bodies /\ ServedCap \in Nat BY DEF D!DaemonAssumption
<1>3. live \in Record /\ FiniteChain(live) /\ ~IsTombstone(live)
  <2>1. "Topic" \in LiveKinds /\ live.ancestors = {} BY DEF LiveKinds, CreateRecord
  <2> QED BY <1>2, <2>1, CreateWellFormed, FS_EmptySet DEF FiniteChain
<1>4. TombstoneOf(live, 0, ServedCap) \in Record /\ FiniteChain(TombstoneOf(live, 0, ServedCap))
  <2> HIDE DEF live
  <2> QED BY <1>2, <1>3, TombstoneIsWritten DEF WrittenOver
<1>5. {None, live, TombstoneOf(live, 0, ServedCap)} \subseteq FiniteSlot
  BY <1>3, <1>4 DEF FiniteSlot, Slot, FiniteChain
<1>6. CallsOK BY DEF D!Init, CallsOK, CallOK
<1> HIDE DEF live
<1> QED BY <1>1, <1>5, <1>6 DEF DaemonInv, live

\* What the store's planner answers a client: the record it leaves is a record, only the
\* puts are refused, and what a replica creates takes the place of nothing.
LEMMA PlanOfFacts ==
    ASSUME D!DaemonAssumption, record \in FiniteSlot, NEW req, RequestOK(req), req.op \in WriteOps
    PROVE  LET plan == D!PlanOf(req) IN
           /\ D!Apply(record, plan) \in FiniteSlot
           /\ plan.outcome \in {"Write", "Remove", "Noop", "Rejected", "NotFound", "Conflict"}
           /\ plan.outcome \in {"Rejected", "NotFound"} => req.op \in D!PutOps
           /\ req.op = "purge" => plan.outcome # "Write"
           /\ req.replica /\ record # None => plan.outcome = "Conflict"
<1> DEFINE plan == D!PlanOf(req)
           Outcomes == {"Write", "Remove", "Noop", "Rejected", "NotFound", "Conflict"}
<1>0. ServedCap \in Nat /\ NewBodies \subseteq Bodies BY DEF D!DaemonAssumption
<1>1. /\ req.seen \in FiniteSlot /\ req.op \in {"put", "put_raw", "delete", "purge"}
      /\ req.replica \in BOOLEAN
  BY DEF RequestOK, WriteOps
<1>2. None \in FiniteSlot BY DEF FiniteSlot, Slot, FiniteChain
<1>3. ASSUME plan.outcome \in Outcomes, plan.outcome = "Write" => WrittenOver(record, plan.record, ServedCap)
      PROVE  D!Apply(record, plan) \in FiniteSlot
  <2>1. plan.outcome = "Write" => plan.record \in FiniteSlot
    BY <1>3 DEF WrittenOver, FiniteSlot, Slot
  <2> HIDE DEF plan
  <2> QED BY <1>2, <2>1 DEF D!Apply
<1>4. CASE req.replica
  <2>1. req.op = "put_raw" /\ IsLive(req.seen) BY <1>4, <1>1 DEF RequestOK
  <2>2. plan = PlanPutRaw(record, req.seen, None, ServedCap) BY <1>4, <2>1, SamePlans DEF D!PlanOf
  <2>3. req.seen \in Record /\ FiniteChain(req.seen) BY <1>1, <2>1 DEF FiniteSlot, Slot, IsLive
  <2>4. record # None => record.revision # None BY NoneAssumption DEF FiniteSlot, Slot, Record
  <2> HIDE DEF plan
  <2>5. /\ plan.outcome \in {"Write", "NotFound", "Conflict"}
        /\ plan.outcome = "Write" => WrittenOver(record, plan.record, ServedCap)
    BY <1>0, <2>2, <2>3, <2>4, PutRawIsWritten
  <2>6. record # None => plan.outcome = "Conflict" BY <2>2, <2>4 DEF PlanPutRaw, Plan
  <2> QED BY <1>3, <2>1, <2>5, <2>6 DEF plan, D!PutOps
<1>5. CASE ~req.replica /\ req.op = "put"
  <2>1. plan = PlanFor(req, record, ServedCap) BY <1>5, SamePlans DEF D!PlanOf
  <2>2. IsRequest(req) BY <1>0, <1>5 DEF RequestOK, IsRequest, WriteOps
  <2> HIDE DEF plan
  <2>3. /\ plan.outcome \in Outcomes
        /\ plan.outcome = "Write" => WrittenOver(record, plan.record, ServedCap)
    BY <1>0, <2>1, <2>2, PlannedIsWritten
  <2> QED BY <1>3, <1>5, <2>3 DEF plan, D!PutOps
<1>6. CASE ~req.replica /\ req.op = "delete"
  <2>1. plan = PlanFor(req, record, ServedCap) BY <1>6, SamePlans DEF D!PlanOf
  <2>2. plan = PlanDelete(record, ExpectedOf(req.seen), 0, ServedCap) BY <1>6, <2>1 DEF PlanFor
  <2> HIDE DEF plan
  <2>3. /\ plan.outcome \in {"Write", "Noop", "Conflict"}
        /\ plan.outcome = "Write" => WrittenOver(record, plan.record, ServedCap)
    BY <1>0, <2>2, DeleteIsWritten
  <2> QED BY <1>3, <1>6, <2>3 DEF plan
<1>7. CASE ~req.replica /\ req.op = "purge"
  <2>1. plan = PlanFor(req, record, ServedCap) BY <1>7, SamePlans DEF D!PlanOf
  <2>2. plan = PlanPurge(record, req.seen.revision) BY <1>7, <2>1 DEF PlanFor
  <2> HIDE DEF plan
  <2>3. plan.outcome \in {"Noop", "Remove", "Conflict"} BY <2>2 DEF PlanPurge, Plan
  <2> QED BY <1>3, <1>7, <2>3 DEF plan
<1>8. ~req.replica => req.op # "put_raw" BY DEF RequestOK
<1> QED BY <1>1, <1>4, <1>5, <1>6, <1>7, <1>8

\* A client's request is the only one that changes in a step about it.
LEMMA OneCall ==
    ASSUME CallsOK, NEW c \in Clients, NEW m, CallOK(m), request' = [request EXCEPT ![c] = m]
    PROVE  CallsOK' /\ request'[c] = m /\ \A d \in Clients : d # c => request'[d] = request[d]
<1>1. DOMAIN request = Clients BY DEF CallsOK
<1>2. /\ request'[c] = m /\ \A d \in Clients : d # c => request'[d] = request[d]
      /\ request' = [d \in Clients |-> request'[d]]
  BY <1>1
<1>3. \A d \in Clients : CallOK(request'[d]) BY <1>2 DEF CallsOK
<1> QED BY <1>2, <1>3 DEF CallsOK, CallOK, ResultOK, RequestOK, D!Wire, D!HttpStatus, D!GrpcCode

\* Sending a request that may be made keeps the invariant.
LEMMA SendKeeps ==
    ASSUME DaemonInv, NEW c \in Clients, NEW req, RequestOK(req), D!Send(c, req)
    PROVE  DaemonInv'
<1>1. CallOK([at |-> "sent", req |-> req]) BY DEF CallOK
<1>2. CallsOK' BY <1>1, OneCall DEF DaemonInv, D!Send
<1> QED BY <1>2 DEF DaemonInv, D!Send

\* So does answering with a result the operation can have.
LEMMA ReplyKeeps ==
    ASSUME CallsOK, NEW c \in Clients, request[c].at \in {"sent", "checked"}, NEW res,
           ResultOK(request[c].req, res), D!Reply(c, res)
    PROVE  CallsOK' /\ request'[c] # request[c] /\ \A d \in Clients : d # c => request'[d] = request[d]
<1> DEFINE req == request[c].req
           m == [at |-> "answered", req |-> req, result |-> res, wire |-> D!Wire(req.via, req.op, res)]
<1>1. CallOK(request[c]) BY DEF CallsOK
<1>2. RequestOK(req) BY <1>1 DEF CallOK, D!Idle
<1>3. CallOK(m) BY <1>2 DEF CallOK
<1>4. request' = [request EXCEPT ![c] = m] BY DEF D!Reply
<1>5. m.at = "answered" OBVIOUS
<1> HIDE DEF m
<1> QED BY <1>3, <1>4, <1>5, OneCall

\* A request in progress is a request that may be made.
LEMMA InProgress ==
    ASSUME CallsOK, NEW c \in Clients, request[c].at \in {"sent", "checked"}
    PROVE  /\ RequestOK(request[c].req)
           /\ request[c] = [at |-> request[c].at, req |-> request[c].req]
           /\ request[c].at = "checked" => request[c].req.op = "purge"
<1>1. CallOK(request[c]) BY DEF CallsOK
<1> QED BY <1>1 DEF CallOK, D!Idle

\* A caller's reads, and its writes on what it last read, are such requests.
LEMMA AskKeeps ==
    ASSUME DaemonInv, NEW c \in Clients, NEW via \in {"http", "grpc"}, NEW token,
           NEW op, NEW body, NEW claimed, NEW scoped,
           op \in D!Reads \cup {"put", "delete", "purge"}, op = "put" => body \in NewBodies,
           D!Ask(c, op, via, token, body, claimed, scoped)
    PROVE  DaemonInv'
<1> DEFINE seen == IF op \in D!WriteOps THEN known[c] ELSE None
           req == [op |-> op, via |-> via, token |-> token, seen |-> seen, body |-> body,
                   claimed |-> claimed, blob |-> None, scoped |-> scoped, replica |-> FALSE]
<1>1. D!Send(c, req) BY DEF D!Ask, D!Request, D!RouteOf
<1>2. op \in WriteOps => Sensible(op, seen)
  BY DEF D!Ask, D!Sensible, Sensible, D!WriteOps, WriteOps, D!IsLive, IsLive, D!IsTombstone, IsTombstone
<1>3. seen \in FiniteSlot BY DEF DaemonInv, FiniteSlot, Slot, FiniteChain
<1> HIDE DEF seen
<1>4. op # "put_raw" /\ op \in D!Reads \cup WriteOps \cup D!BlobOps BY DEF D!Reads, WriteOps
<1>5. RequestOK(req) BY <1>2, <1>3, <1>4 DEF RequestOK
<1> HIDE DEF req
<1> QED BY <1>1, <1>5, SendKeeps

\* And so are the blob calls.
LEMMA AskBlobKeeps ==
    ASSUME DaemonInv, NEW c \in Clients, NEW via \in {"http", "grpc"}, NEW token,
           NEW op \in D!BlobOps, NEW blob, D!AskBlob(c, op, via, token, blob)
    PROVE  DaemonInv'
<1> DEFINE req == [op |-> op, via |-> via, token |-> token, seen |-> None, body |-> None,
                   claimed |-> None, blob |-> blob, scoped |-> TRUE, replica |-> FALSE]
<1>1. D!Send(c, req) BY DEF D!AskBlob, D!Request, D!RouteOf
<1>2. None \in FiniteSlot BY DEF FiniteSlot, Slot, FiniteChain
<1>3. op \notin WriteOps BY DEF D!BlobOps, WriteOps
<1>4. RequestOK(req) BY <1>2, <1>3 DEF RequestOK, WriteOps
<1> HIDE DEF req
<1> QED BY <1>1, <1>4, SendKeeps

\* And a replica's first read of a key it holds.
LEMMA ReplicateKeeps ==
    ASSUME DaemonInv, NEW c \in Clients, NEW via \in {"http", "grpc"}, NEW token,
           D!Replicate(c, via, token)
    PROVE  DaemonInv'
<1> DEFINE req == [op |-> "get_raw", via |-> via, token |-> token, seen |-> known[c], body |-> None,
                   claimed |-> None, blob |-> None, scoped |-> TRUE, replica |-> TRUE]
<1>1. D!Send(c, req) /\ IsLive(known[c])
  BY DEF D!Replicate, D!Request, D!RouteOf, D!IsLive, IsLive, D!IsTombstone, IsTombstone
<1>2. known[c] \in FiniteSlot BY DEF DaemonInv
<1>3. RequestOK(req) BY <1>1, <1>2 DEF RequestOK, D!Reads
<1> HIDE DEF req
<1> QED BY <1>1, <1>3, SendKeeps

\* A call is refused for a reason: no route, no principal, no right, or no store.
LEMMA RefuseKeeps == ASSUME DaemonInv, NEW c \in Clients, D!Refuse(c) PROVE DaemonInv'
<1> DEFINE req == request[c].req
           why == IF D!Unserved(req) THEN "Unserved" ELSE IF D!Denied(req) # None THEN D!Denied(req)
                  ELSE IF ~up THEN "Failed" ELSE None
<1>1. request[c].at = "sent" /\ why # None /\ D!Reply(c, D!Res(why, None)) BY DEF D!Refuse
<1>2. D!Denied(req) \in {None, "Unauthenticated", "Forbidden"} BY DEF D!Denied
<1>3. D!Unserved(req) => req.op \in D!RawOps \/ (req.op = "has_blob" /\ req.via = "grpc")
  BY DEF D!Unserved
<1>4. why \in Refusals /\ (why = "Unserved" => D!Unserved(req))
  BY <1>1, <1>2 DEF Refusals
<1> HIDE DEF why
<1>5. ResultOK(req, D!Res(why, None))
  BY <1>3, <1>4 DEF ResultOK, D!Res, Refusals, D!Succeeded
<1>6. CallsOK' BY <1>1, <1>5, ReplyKeeps DEF DaemonInv
<1> QED BY <1>6 DEF DaemonInv, D!Refuse

\* A read answers with the record, its absence or a listing.
LEMMA ServeReadKeeps == ASSUME DaemonInv, NEW c \in Clients, D!ServeRead(c) PROVE DaemonInv'
<1> DEFINE req == request[c].req
<1>1. request[c].at = "sent" /\ req.op \in D!Reads /\ D!Reply(c, D!ReadResult(req.op))
  BY DEF D!ServeRead, D!Admitted
<1>2. record \in FiniteSlot BY DEF DaemonInv
<1>3. ResultOK(req, D!ReadResult(req.op))
  <2>1. CASE req.op \in {"get", "get_raw"}
    <3>1. PICK slot \in FiniteSlot : D!ReadResult(req.op) = D!Found(slot)
      BY <1>2, <2>1 DEF D!ReadResult, FiniteSlot, Slot, FiniteChain
    <3> QED BY <2>1, <3>1 DEF D!Found, ResultOK, D!Res, D!Succeeded, Refusals
  <2>2. CASE req.op \in {"list", "list_raw"}
    <3>1. PICK b : D!ReadResult(req.op) = D!Res("Listed", b) BY <2>2 DEF D!ReadResult
    <3> QED BY <3>1 DEF ResultOK, D!Res, D!Succeeded, Refusals
  <2> QED BY <1>1, <2>1, <2>2 DEF D!Reads
<1>4. CallsOK' BY <1>1, <1>3, ReplyKeeps DEF DaemonInv
<1> QED BY <1>4 DEF DaemonInv, D!ServeRead

\* So does a read of blobs.
LEMMA ServeBlobReadKeeps == ASSUME DaemonInv, NEW c \in Clients, D!ServeBlobRead(c) PROVE DaemonInv'
<1> DEFINE req == request[c].req
           res == D!ReadBlobResult(req.op, req.blob)
<1>1. request[c].at = "sent" /\ req.op \in D!BlobReads /\ D!Reply(c, res)
  BY DEF D!ServeBlobRead, D!Admitted
<1>2. ResultOK(req, res)
  <2>1. CASE req.op = "list_blobs"
    BY <2>1 DEF D!ReadBlobResult, ResultOK, D!Res, D!Succeeded, Refusals
  <2>2. CASE req.op \in {"get_blob", "has_blob"}
    <3>1. PICK blob : res = D!Found(blob) BY <2>2 DEF D!ReadBlobResult
    <3> HIDE DEF res
    <3> QED BY <2>2, <3>1 DEF D!Found, ResultOK, D!Res, D!Succeeded, Refusals
  <2> QED BY <1>1, <2>1, <2>2 DEF D!BlobReads
<1> HIDE DEF res
<1>3. CallsOK' BY <1>1, <1>2, ReplyKeeps DEF DaemonInv
<1> QED BY <1>3 DEF DaemonInv, D!ServeBlobRead

\* A blob's put or delete is acknowledged.
LEMMA ServeBlobKeeps == ASSUME DaemonInv, NEW c \in Clients, D!ServeBlob(c) PROVE DaemonInv'
<1>1. request[c].at = "sent" /\ D!Reply(c, D!Res("Stored", request[c].req.blob))
  BY DEF D!ServeBlob, D!Admitted
<1>2. ResultOK(request[c].req, D!Res("Stored", request[c].req.blob))
  BY DEF ResultOK, D!Res, D!Succeeded, Refusals
<1>3. CallsOK' BY <1>1, <1>2, ReplyKeeps DEF DaemonInv
<1> QED BY <1>3 DEF DaemonInv, D!ServeBlob

\* A write leaves a record and answers what its plan says, to its own client only.
LEMMA CarryKeeps ==
    ASSUME D!DaemonAssumption, DaemonInv, NEW c \in Clients, request[c].at \in {"sent", "checked"},
           request[c].req.op \in WriteOps, D!Carry(c)
    PROVE  DaemonInv' /\ request'[c] # request[c] /\ \A d \in Clients : d # c => request'[d] = request[d]
<1> DEFINE req == request[c].req
           plan == D!PlanOf(req)
           res == D!PlanResult(req.op, plan)
<1>1. record \in FiniteSlot /\ CallsOK BY DEF DaemonInv
<1>2. RequestOK(req) BY <1>1, InProgress
<1>3. /\ D!Apply(record, plan) \in FiniteSlot
      /\ plan.outcome \in {"Write", "Remove", "Noop", "Rejected", "NotFound", "Conflict"}
      /\ plan.outcome \in {"Rejected", "NotFound"} => req.op \in D!PutOps
  BY <1>1, <1>2, PlanOfFacts
<1>4. record' = D!Apply(record, plan) /\ D!Reply(c, res) /\ known' = known BY DEF D!Carry
<1> HIDE DEF plan
<1>5. ResultOK(req, res)
  <2>1. \/ \E v : res = D!Res("Committed", v) \/ res = D!Res("Deleted", v) \/ res = D!Res("Conflict", v)
        \/ req.op \in D!PutOps /\ res \in {D!Res("NotFound", None), D!Res("Invalid", None)}
    BY <1>3 DEF D!PlanResult
  <2> HIDE DEF res
  <2> QED BY <2>1 DEF ResultOK, D!Res, D!Succeeded, Refusals
<1> HIDE DEF res
<1>6. CallsOK' /\ request'[c] # request[c] /\ \A d \in Clients : d # c => request'[d] = request[d]
  BY <1>1, <1>4, <1>5, ReplyKeeps
<1> QED BY <1>3, <1>4, <1>6 DEF DaemonInv

\* Service::purge refuses a live record, or goes on to remove.
LEMMA CheckPurgeKeeps == ASSUME DaemonInv, NEW c \in Clients, D!CheckPurge(c) PROVE DaemonInv'
<1> DEFINE req == request[c].req
<1>0. CallsOK /\ request[c].at = "sent" /\ req.op = "purge" BY DEF D!CheckPurge, D!Admitted, DaemonInv
<1>1. RequestOK(req) /\ request[c] = [at |-> "sent", req |-> req] BY <1>0, InProgress
<1>2. CASE D!Reply(c, D!Res("Invalid", None))
  <2>1. ResultOK(req, D!Res("Invalid", None)) BY <1>0 DEF ResultOK, D!Res, D!Succeeded, Refusals
  <2>2. CallsOK' BY <1>0, <1>2, <2>1, ReplyKeeps
  <2> QED BY <2>2 DEF DaemonInv, D!CheckPurge
<1>3. CASE request' = [request EXCEPT ![c].at = "checked"]
  <2> DEFINE m == [at |-> "checked", req |-> req]
  <2>1. [request[c] EXCEPT !.at = "checked"] = m BY <1>1
  <2>2. request' = [request EXCEPT ![c] = m] BY <1>3, <2>1
  <2>3. CallOK(m) BY <1>0, <1>1 DEF CallOK
  <2> HIDE DEF m
  <2>4. CallsOK' BY <1>0, <2>2, <2>3, OneCall
  <2> QED BY <2>4 DEF DaemonInv, D!CheckPurge
<1> QED BY <1>2, <1>3 DEF D!CheckPurge

\* A client keeps what it was told of; a replica whose key is absent goes on to put_raw.
LEMMA ReceiveKeeps == ASSUME DaemonInv, NEW c \in Clients, D!Receive(c) PROVE DaemonInv'
<1> DEFINE req == request[c].req
           res == request[c].result
           told == D!Answer(c)
           next == IF req.replica /\ told = D!Res("Absent", None)
                   THEN [at |-> "sent", req |-> [req EXCEPT !.op = "put_raw"]] ELSE D!Idle
<1>0. CallsOK /\ known \in [Clients -> FiniteSlot] BY DEF DaemonInv
<1>1. request[c].at = "answered" /\ CallOK(request[c]) BY <1>0 DEF D!Receive, CallsOK
<1>2. /\ RequestOK(req) /\ ResultOK(req, res)
      /\ request[c].wire = D!Wire(req.via, req.op, res)
  BY <1>1 DEF CallOK, D!Idle
<1>3. told = res \/ told \in {D!Backend, D!Upgrade} BY <1>2, AnswerOf DEF D!Answer
<1>4. told.tag = "Found" /\ req.op \in {"get", "get_raw"} => told.val \in FiniteSlot
  <2> HIDE DEF told
  <2>1. told.tag = "Found" => told = res BY <1>3 DEF D!Backend, D!Upgrade, D!Res
  <2> QED BY <1>2, <2>1 DEF ResultOK
<1>5. known' \in [Clients -> FiniteSlot]
  <2>1. None \in FiniteSlot BY DEF FiniteSlot, Slot, FiniteChain
  <2>2. PICK slot \in FiniteSlot : known' = [known EXCEPT ![c] = slot]
    <3> DEFINE slot == CASE told.tag = "Found" /\ req.op \in {"get", "get_raw"} -> told.val
                         [] told.tag = "Absent" /\ ~req.replica /\ req.op \in {"get", "get_raw"} -> None
                         [] OTHER -> known[c]
    <3>1. known' = [known EXCEPT ![c] = slot] BY DEF D!Receive
    <3>2. slot \in FiniteSlot
      <4> HIDE DEF told
      <4>1. known[c] \in FiniteSlot BY <1>0
      <4> QED BY <1>4, <2>1, <4>1
    <3> QED BY <3>1, <3>2
  <2> QED BY <1>0, <2>2
<1>6. request' = [request EXCEPT ![c] = next] BY DEF D!Receive, D!RouteOf
<1>7. CallOK(next)
  <2> HIDE DEF told
  <2>1. CASE next = D!Idle BY <2>1 DEF CallOK
  <2>2. CASE req.replica /\ next = [at |-> "sent", req |-> [req EXCEPT !.op = "put_raw"]]
    <3> DEFINE on == [req EXCEPT !.op = "put_raw"]
    <3>1. on = [op |-> "put_raw", via |-> req.via, token |-> req.token, seen |-> req.seen,
                body |-> req.body, claimed |-> req.claimed, blob |-> req.blob,
                scoped |-> req.scoped, replica |-> req.replica]
      BY <1>2 DEF RequestOK
    <3> HIDE DEF on
    <3>2. RequestOK(on) BY <1>2, <2>2, <3>1 DEF RequestOK, WriteOps
    <3> QED BY <2>2, <3>2 DEF CallOK, on
  <2> QED BY <2>1, <2>2
<1> HIDE DEF next
<1>8. CallsOK' BY <1>0, <1>6, <1>7, OneCall
<1> QED BY <1>5, <1>8 DEF DaemonInv, D!Receive

\* A client whose connection broke is at rest.
LEMMA BreakKeeps == ASSUME DaemonInv, NEW c \in Clients, D!Break(c) PROVE DaemonInv'
<1>1. CallOK(D!Idle) BY DEF CallOK
<1>2. CallsOK' BY <1>1, OneCall DEF DaemonInv, D!Break
<1> QED BY <1>2 DEF DaemonInv, D!Break

\* Another process's write leaves a record, or none.
LEMMA ElsewhereKeeps ==
    ASSUME D!DaemonAssumption, DaemonInv, NEW op \in {"put", "delete", "purge"}, NEW body \in NewBodies,
           D!Elsewhere(op, body)
    PROVE  DaemonInv'
<1> DEFINE req == [op |-> op, seen |-> record, body |-> body]
           plan == PlanFor(req, record, ServedCap)
<1>1. record \in FiniteSlot /\ ServedCap \in Nat /\ body \in Bodies BY DEF DaemonInv, D!DaemonAssumption
<1>2. Sensible(op, record)
  BY DEF D!Elsewhere, D!Sensible, Sensible, D!IsLive, IsLive, D!IsTombstone, IsTombstone
<1>3. IsRequest(req) BY <1>1, <1>2 DEF IsRequest, WriteOps
<1>4. plan.outcome = "Write" => WrittenOver(record, plan.record, ServedCap)
  <2> HIDE DEF req
  <2> QED BY <1>1, <1>3, PlannedIsWritten
<1>5. record' = D!Apply(record, plan) BY SamePlans DEF D!Elsewhere
<1> HIDE DEF plan
<1>6. record' \in FiniteSlot
  BY <1>1, <1>4, <1>5 DEF D!Apply, WrittenOver, FiniteSlot, Slot, FiniteChain
<1> QED BY <1>6 DEF DaemonInv, CallsOK, D!Elsewhere

\* Every step keeps the invariant.
LEMMA DaemonStep == ASSUME D!DaemonAssumption, DaemonInv, [D!Next]_(D!vars) PROVE DaemonInv'
<1>1. ASSUME NEW c \in Clients, NEW via \in {"http", "grpc"}, NEW token,
             \/ \E op \in {"get", "get_raw", "purge"} : D!Ask(c, op, via, token, None, None, TRUE)
             \/ \E op \in {"list", "list_raw"}, scoped \in BOOLEAN :
                   D!Ask(c, op, via, token, None, None, scoped)
             \/ \E body \in NewBodies, claimed \in Claims :
                   D!Ask(c, "put", via, token, body, claimed, TRUE)
             \/ \E claimed \in Claims \cup {None} :
                   D!Ask(c, "delete", via, token, None, claimed, TRUE)
      PROVE  DaemonInv'
  BY <1>1, AskKeeps DEF D!Reads
<1>2. ASSUME NEW c \in Clients, D!ServeWrite(c) PROVE DaemonInv'
  <2>1. request[c].at = "sent" /\ request[c].req.op \in WriteOps /\ D!Carry(c)
    BY <1>2 DEF D!ServeWrite, D!Admitted, D!PutOps, WriteOps
  <2> QED BY <2>1, CarryKeeps
<1>3. ASSUME NEW c \in Clients, D!ServePurge(c) PROVE DaemonInv'
  <2>1. request[c].at = "checked" /\ D!Carry(c) /\ CallsOK BY <1>3 DEF D!ServePurge, DaemonInv
  <2>2. request[c].req.op \in WriteOps BY <2>1, InProgress DEF WriteOps
  <2> QED BY <2>1, <2>2, CarryKeeps
<1>4. CASE UNCHANGED D!vars BY <1>4 DEF D!vars, DaemonInv, CallsOK
<1>5. CASE D!Outage \/ D!Recover \/ D!UpgradeDaemon
  BY <1>5 DEF D!Outage, D!Recover, D!UpgradeDaemon, DaemonInv, CallsOK
<1> QED BY <1>1, <1>2, <1>3, <1>4, <1>5, AskBlobKeeps, ReplicateKeeps, RefuseKeeps, ServeReadKeeps,
           ServeBlobReadKeeps, ServeBlobKeeps, CheckPurgeKeeps, ReceiveKeeps, BreakKeeps,
           ElsewhereKeeps DEF D!Next

\* For any principals, clients, breaks, outages and upgrades, requests and results match.
THEOREM DaemonInvariant == ASSUME D!DaemonAssumption PROVE D!Spec => []DaemonInv
<1>1. D!Init => DaemonInv BY DaemonInit
<1>2. DaemonInv /\ [D!Next]_(D!vars) => DaemonInv' BY DaemonStep
<1> QED BY <1>1, <1>2, PTL DEF D!Spec

\* A client is told what the store said, and would be told the same over the other
\* transport (put_outcome_response, put_error, classify_*, decode_*).
THEOREM ClientsAreToldTheTruth == ASSUME D!DaemonAssumption PROVE D!Spec => []AnswersHold
<1>1. DaemonInv => AnswersHold
  <2> SUFFICES ASSUME DaemonInv, NEW c \in Clients, request[c].at = "answered"
               PROVE  /\ \/ D!Answer(c) = request[c].result
                         \/ /\ D!Answer(c) = D!Backend
                            /\ request[c].result.tag \notin D!Succeeded \cup {"Conflict", "NotFound"}
                         \/ D!Answer(c) = D!Upgrade /\ request[c].result.tag = "Unserved"
                      /\ <<request[c].req.op, request[c].result.tag>> # <<"has_blob", "Unserved">> =>
                         \A via \in {"http", "grpc"} :
                            D!Decode(via, request[c].req.op, D!Wire(via, request[c].req.op, request[c].result))
                               = D!Answer(c)
    BY DEF AnswersHold, D!AnswersHold, D!AnswersTrue, D!TransportsAgree
  <2> DEFINE req == request[c].req
             res == request[c].result
  <2>1. CallOK(request[c]) BY DEF DaemonInv, CallsOK
  <2>2. /\ RequestOK(req) /\ ResultOK(req, res)
        /\ request[c].wire = D!Wire(req.via, req.op, res)
    BY <2>1 DEF CallOK, D!Idle
  <2>3. D!Answer(c) = Told(req.via, req.op, res) BY <2>2 DEF D!Answer, Told
  <2>4. req.via \in {"http", "grpc"} BY <2>2 DEF RequestOK
  <2> QED BY <2>2, <2>3, <2>4, AnswerOf DEF Told
<1> QED BY <1>1, DaemonInvariant, PTL

\* The steps that change the record or its author.
LEMMA WhoWrites ==
    ASSUME D!Next, record' # record \/ author' # author
    PROVE  \/ \E c \in Clients : D!ServeWrite(c) \/ D!ServePurge(c)
           \/ author' = None /\ request' = request
<1>1. ASSUME NEW c, NEW req, D!Send(c, req) PROVE record' = record /\ author' = author BY <1>1 DEF D!Send
<1>2. ASSUME NEW c, D!Refuse(c) \/ D!ServeRead(c) \/ D!ServeBlobRead(c) \/ D!ServeBlob(c)
                    \/ D!CheckPurge(c) \/ D!Receive(c) \/ D!Break(c)
      PROVE  record' = record /\ author' = author
  BY <1>2 DEF D!Refuse, D!ServeRead, D!ServeBlobRead, D!ServeBlob, D!CheckPurge, D!Receive, D!Break
<1>3. ASSUME NEW op, NEW body, D!Elsewhere(op, body) PROVE author' = None /\ request' = request
  BY <1>3 DEF D!Elsewhere
<1>4. ASSUME D!Outage \/ D!Recover \/ D!UpgradeDaemon PROVE record' = record /\ author' = author
  BY <1>4 DEF D!Outage, D!Recover, D!UpgradeDaemon
<1>5. ASSUME NEW c, NEW via, NEW token, NEW op, NEW body, NEW claimed, NEW scoped,
             D!Ask(c, op, via, token, body, claimed, scoped)
      PROVE  record' = record /\ author' = author
  BY <1>1, <1>5 DEF D!Ask
<1>6. ASSUME NEW c, NEW via, NEW token, NEW op, NEW blob, D!AskBlob(c, op, via, token, blob)
      PROVE  record' = record /\ author' = author
  BY <1>1, <1>6 DEF D!AskBlob
<1>7. ASSUME NEW c, NEW via, NEW token, D!Replicate(c, via, token)
      PROVE  record' = record /\ author' = author
  BY <1>1, <1>7 DEF D!Replicate
<1> QED BY <1>2, <1>3, <1>4, <1>5, <1>6, <1>7, ZenonT(30) DEF D!Next

\* With tokens, a principal's name comes onto a record only by its own write or by an
\* admin's delete or replication (authorize, delete_author).
THEOREM NamesAreTrue == ASSUME D!DaemonAssumption PROVE D!Spec => AuthorUnforgeable
<1> DEFINE Unforged == mode = "Enabled" /\ author' # author /\ author' # None
                       => \E c \in Clients :
                             /\ request'[c] # request[c]
                             /\ \/ request[c].req.token = author'
                                \/ D!IsAdmin(D!Principal(request[c].req.token))
                                   /\ request[c].req.op \in {"delete", "put_raw"}
<1>1. ASSUME DaemonInv, D!Next PROVE Unforged
  <2> SUFFICES ASSUME mode = "Enabled", author' # author, author' # None
               PROVE  \E c \in Clients :
                         /\ request'[c] # request[c]
                         /\ \/ request[c].req.token = author'
                            \/ D!IsAdmin(D!Principal(request[c].req.token))
                               /\ request[c].req.op \in {"delete", "put_raw"}
    OBVIOUS
  <2>1. PICK c \in Clients : D!ServeWrite(c) \/ D!ServePurge(c) BY <1>1, WhoWrites
  <2> DEFINE req == request[c].req
             p == D!Principal(req.token)
             plan == D!PlanOf(req)
  <2>2. D!Carry(c) /\ request[c].at \in {"sent", "checked"} /\ CallsOK /\ record \in FiniteSlot
    BY <1>1, <2>1 DEF D!ServeWrite, D!ServePurge, D!Admitted, DaemonInv
  <2>3. RequestOK(req) /\ (request[c].at = "checked" => req.op = "purge") BY <2>2, InProgress
  <2>4. req.op \in WriteOps
    BY <2>1, <2>3 DEF D!ServeWrite, D!ServePurge, D!PutOps, WriteOps
  <2>5. request'[c] # request[c] BY <1>1, <2>2, <2>4, CarryKeeps
  <2>6. plan.outcome = "Write" /\ author' = D!AuthorOf(req, p) BY <2>2 DEF D!Carry
  <2>7. req.op # "purge" BY <2>2, <2>3, <2>4, <2>6, PlanOfFacts
  <2>8. D!ServeWrite(c) BY <2>1, <2>3, <2>7 DEF D!ServePurge
  <2>9. D!Denied(req) = None BY <2>8 DEF D!ServeWrite, D!Admitted
  <2>10. None \notin {"Unauthenticated", "Forbidden"} \cup DOMAIN Registry BY DEF D!DaemonAssumption
  <2>11. p # None /\ (req.op = "put_raw" => D!IsAdmin(p))
    <3> HIDE DEF p
    <3> QED BY <2>9, <2>10 DEF D!Denied, p
  <2>12. p.name = req.token /\ req.token # None
    BY <2>10, <2>11 DEF D!Principal, D!Tokens
  <2> HIDE DEF p
  <2>13. CASE req.op = "put" BY <2>5, <2>6, <2>12, <2>13 DEF D!AuthorOf
  <2>14. CASE req.op = "delete" BY <2>5, <2>6, <2>12, <2>14 DEF D!AuthorOf, D!DeleteAuthor, p
  <2>15. CASE req.op = "put_raw" BY <2>5, <2>11, <2>15 DEF p
  <2> QED BY <2>4, <2>7, <2>13, <2>14, <2>15 DEF WriteOps
<1>2. DaemonInv /\ [D!Next]_(D!vars) => [Unforged]_(D!vars) BY <1>1
<1> HIDE DEF Unforged
<1>3. D!Spec => [][Unforged]_(D!vars) BY <1>2, DaemonInvariant, PTL DEF D!Spec
<1> QED BY <1>3 DEF Unforged, AuthorUnforgeable, D!AuthorUnforgeable

\* A replica's write through a daemon, old or new, never puts a live record in a
\* tombstone's place (DAEMON_PREDATES_REPLICATION, plan_put_raw).
THEOREM ReplicasDoNotResurrect == ASSUME D!DaemonAssumption PROVE D!Spec => NoResurrection
<1> DEFINE Dead == \A c \in Clients :
                      /\ request[c].at = "sent" /\ request[c].req.replica
                      /\ record # None /\ D!IsTombstone(record)
                      /\ request[c].req.seen.revision \in record.ancestors
                      /\ request'[c] # request[c]
                      => ~D!IsLive(record')
<1>1. ASSUME DaemonInv, D!Next PROVE Dead
  <2> SUFFICES ASSUME NEW c \in Clients, request[c].at = "sent", request[c].req.replica,
                      record # None, D!IsTombstone(record), request'[c] # request[c]
               PROVE  ~D!IsLive(record')
    OBVIOUS
  <2>1. CASE record' = record BY <2>1 DEF D!IsLive, D!IsTombstone
  <2>2. CASE record' # record
    <3>1. PICK d \in Clients : D!ServeWrite(d) \/ D!ServePurge(d) BY <1>1, <2>2, WhoWrites
    <3>2. D!Carry(d) /\ request[d].at \in {"sent", "checked"} /\ CallsOK /\ record \in FiniteSlot
      BY <1>1, <3>1 DEF D!ServeWrite, D!ServePurge, D!Admitted, DaemonInv
    <3>3. RequestOK(request[d].req) /\ (request[d].at = "checked" => request[d].req.op = "purge")
      BY <3>2, InProgress
    <3>4. request[d].req.op \in WriteOps
      BY <3>1, <3>3 DEF D!ServeWrite, D!ServePurge, D!PutOps, WriteOps
    <3>5. d = c BY <1>1, <3>2, <3>4, CarryKeeps
    <3>6. D!PlanOf(request[c].req).outcome = "Conflict" BY <3>2, <3>3, <3>4, <3>5, PlanOfFacts
    <3>7. record' = D!Apply(record, D!PlanOf(request[c].req)) BY <3>2, <3>5 DEF D!Carry
    <3> QED BY <2>2, <3>6, <3>7 DEF D!Apply
  <2> QED BY <2>1, <2>2
<1>2. DaemonInv /\ [D!Next]_(D!vars) => [Dead]_(D!vars) BY <1>1
<1> HIDE DEF Dead
<1>3. D!Spec => [][Dead]_(D!vars) BY <1>2, DaemonInvariant, PTL DEF D!Spec
<1> QED BY <1>3 DEF Dead, NoResurrection, D!NoResurrection

(***************************************************************************)
(* The MCP server before a store.  McpInv says what a tool call under way    *)
(* has seen: whatever its views hold and did hold is in its ghosts, the      *)
(* parts it has are those of views that did not change, and the views a      *)
(* listing has yet to read are there or have gone.                           *)
(***************************************************************************)

Manifests == [version : Nat \ {0}, live : BOOLEAN]

ViewsOK == /\ manifest \in [Views -> Manifests \cup {None}]
           /\ db \in [Views -> Nat \cup {None}]
           /\ writes \in BOOLEAN /\ rooted \in BOOLEAN

Opened(m) == {m.views[i] : i \in DOMAIN m.views}
Listed(m) == {m.parts[i] : i \in DOMAIN m.parts}

\* What a call is made of.
Fields == {"pc", "tool", "given", "views", "next", "parts", "todo", "result", "touched",
           "always", "blank"}
Shape(m) ==
    /\ DOMAIN m = Fields
    /\ m.tool \in M!AllTools
    /\ \E v, w \in Views : m.views = M!Opens(m.tool, v, w)
    /\ m.always \subseteq Views /\ m.todo \subseteq Views

\* A part that is Blank was a database that was, and one of a view nobody touched is what
\* the view holds.
PartsOK(m) ==
    \A i \in 1 .. Len(m.parts) :
        /\ m.parts[i] = M!Blank => rooted /\ m.views[i] \in m.blank
        /\ m.views[i] \notin m.touched => m.parts[i] = M!View(m.views[i], 1)

\* A call under way.
UnderWay(m) ==
    /\ \A v \in m.always : M!Live(v)
    /\ \A v \in Opened(m) : db[v] = M!Blank => v \in m.blank
    /\ m.pc \in {"sent", "check"} => m.parts = <<>>
    /\ m.pc = "sent" => m.next = 1 /\ m.todo = {}
    /\ m.pc = "list" => /\ m.tool \in {"status", "views"}
                        /\ m.parts \in Seq(Views)
                        /\ m.always \subseteq Listed(m) \cup m.todo
    /\ m.pc \in {"check", "query"} => /\ m.tool \in M!ViewTools
                                      /\ M!Selector(m.tool) \subseteq m.given
                                      /\ m.next \in 1 .. Len(m.views)
    /\ m.pc = "query" => /\ m.parts \in Seq(Nat)
                         /\ Len(m.parts) = m.next - 1
                         /\ PartsOK(m)

\* A call that was answered, in the words of the properties.
Ended(m) ==
    /\ m.result = "answer" /\ m.tool \in M!ViewTools =>
          /\ m.parts \in Seq(Nat)
          /\ \A i \in DOMAIN m.parts : m.parts[i] = M!Blank => rooted /\ m.views[i] \in m.blank
          /\ \A i, j \in DOMAIN m.parts :
                m.views[i] = m.views[j] /\ m.views[i] \notin m.touched => m.parts[i] = m.parts[j]
    /\ m.tool \in {"status", "views"} => m.always \subseteq Listed(m)
    /\ (m.result = "unknown_tool") <=> m.tool \notin M!Tools(writes)
    /\ m.given = M!Required(m.tool) => m.result # "bad_arguments"

AgentOK(m) ==
    \/ m = M!Idle
    \/ /\ Shape(m)
       /\ \/ m.pc \in {"sent", "list", "check", "query"} /\ UnderWay(m)
          \/ m.pc = "done" /\ Ended(m)

AgentsOK == call = [a \in Agents |-> call[a]] /\ \A a \in Agents : AgentOK(call[a])

McpInv == ViewsOK /\ AgentsOK

\* A server that comes up over views indexed here or elsewhere satisfies it.
LEMMA McpInit == M!Init => McpInv
<1> SUFFICES ASSUME M!Init PROVE McpInv OBVIOUS
<1> DEFINE first == [version |-> 1, live |-> TRUE]
<1>1. first \in Manifests BY DEF Manifests
<1>i. manifest \in [Views -> {None, first}] /\ db \in [Views -> {None, 1}] BY DEF M!Init
<1> HIDE DEF first
<1>2. manifest \in [Views -> Manifests \cup {None}] /\ db \in [Views -> Nat \cup {None}]
  <2>1. {None, first} \subseteq Manifests \cup {None} /\ {None, 1} \subseteq Nat \cup {None} BY <1>1
  <2> HIDE DEF Manifests
  <2> QED BY <1>i, <2>1
<1>3. writes \in BOOLEAN /\ rooted \in BOOLEAN BY DEF M!Init
<1>4. AgentsOK BY DEF M!Init, AgentsOK, AgentOK
<1> QED BY <1>2, <1>3, <1>4 DEF McpInv, ViewsOK

\* The invariant gives what the run checks.
LEMMA McpHolds == ASSUME McpInv PROVE ViewAnswersHold
<1> SUFFICES ASSUME NEW a \in Agents, M!Done(a)
             PROVE  /\ call[a].result = "answer" /\ call[a].tool \in M!ViewTools =>
                        /\ \A i \in DOMAIN call[a].parts : call[a].parts[i] = M!Blank =>
                              rooted /\ call[a].views[i] \in call[a].blank
                        /\ \A i, j \in DOMAIN call[a].parts :
                              /\ call[a].views[i] = call[a].views[j]
                              /\ call[a].views[i] \notin call[a].touched
                              => call[a].parts[i] = call[a].parts[j]
                    /\ call[a].tool \in {"status", "views"} =>
                           call[a].always \subseteq M!ToSet(call[a].parts)
                    /\ (call[a].result = "unknown_tool") <=> call[a].tool \notin M!Tools(writes)
                    /\ call[a].given = M!Required(call[a].tool) => call[a].result # "bad_arguments"
  BY DEF ViewAnswersHold, M!ViewAnswersHold, M!EmptyIsNeverUnknown, M!PartsAgree,
         M!DiscoveryIsComplete, M!AdvertisedIsServed, M!Answered, M!Done
<1>1. Ended(call[a]) BY DEF McpInv, AgentsOK, AgentOK, M!Done, M!Idle
<1> QED BY <1>1 DEF Ended, Listed, M!ToSet

\* The tables: a call opens one to three views of those it names, all of one view unless
\* it is a diff.
LEMMA OpensFacts ==
    ASSUME NEW tool, NEW v \in Views, NEW w \in Views
    PROVE  /\ M!Opens(tool, v, w) \in Seq(Views)
           /\ tool \in M!ViewTools => Len(M!Opens(tool, v, w)) >= 1
           /\ tool = "diff" => Len(M!Opens(tool, v, w)) = 2
           /\ \A i \in DOMAIN M!Opens(tool, v, w) : M!Opens(tool, v, w)[i] \in Views
BY DEF M!Opens, M!ViewTools, M!SymbolTools, M!AggregateTools

\* What a tool's parser insists on is what its schema requires; the record tools, the
\* listings and the view tools are all there are, and the write pair is offered when enabled.
LEMMA ToolFacts ==
    ASSUME NEW tool \in M!AllTools
    PROVE  /\ M!Selector(tool) \subseteq M!Required(tool)
           /\ M!RankingArg(tool) \subseteq M!Required(tool)
           /\ tool \in {"record_get", "record_list"} \cup M!WriteTools =>
                 M!RecordArgs(tool) \subseteq M!Required(tool)
           /\ tool \notin {"record_get", "record_list", "status", "views"} \cup M!WriteTools \cup M!ViewTools
                 => tool = "no_such_tool"
           /\ tool \in {"record_get", "record_list", "status", "views"} \cup M!ViewTools
                 => tool \in M!Tools(writes)
           /\ tool \in M!WriteTools => (tool \in M!Tools(writes) <=> writes) /\ tool \notin M!ViewTools
           /\ "no_such_tool" \notin M!Tools(writes)
<1> USE DEF M!ViewTools, M!SymbolTools, M!AggregateTools, M!WriteTools, M!RecordKeyArgs
<1>1. M!Selector(tool) \subseteq M!Required(tool) BY DEF M!Selector, M!Required, M!AllTools
<1>2. M!RankingArg(tool) \subseteq M!Required(tool) BY DEF M!RankingArg, M!Required
<1>3. tool \in {"record_get", "record_list"} \cup M!WriteTools =>
                 M!RecordArgs(tool) \subseteq M!Required(tool)
  BY DEF M!RecordArgs, M!Required
<1>4. /\ tool \notin {"record_get", "record_list", "status", "views"} \cup M!WriteTools \cup M!ViewTools
            => tool = "no_such_tool"
      /\ tool \in {"record_get", "record_list", "status", "views"} \cup M!ViewTools
            => tool \in M!Tools(writes)
      /\ tool \in M!WriteTools => (tool \in M!Tools(writes) <=> writes) /\ tool \notin M!ViewTools
      /\ "no_such_tool" \notin M!Tools(writes)
  BY DEF M!AllTools, M!Tools
<1> QED BY <1>1, <1>2, <1>3, <1>4

\* What a query reads of a view is a version, and Blank only of a database that is.
LEMMA ViewFacts ==
    ASSUME ViewsOK, NEW v \in Views, NEW n
    PROVE  /\ M!View(v, n) = M!View(v, 1)
           /\ M!View(v, n) # None => M!View(v, n) \in Nat
           /\ M!View(v, n) = M!Blank => rooted /\ db[v] = M!Blank
<1>1. None \notin Nat BY NoneAssumption
<1>2. manifest[v] # None => manifest[v].version \in Nat \ {0} BY DEF ViewsOK, Manifests
<1>3. db[v] \in Nat \cup {None} BY DEF ViewsOK
<1> QED BY <1>1, <1>2, <1>3 DEF M!View, M!LoadManifest, M!Live, M!Blank

\* While the views stand still, what is so of a call stays so.
LEMMA SameViews ==
    ASSUME UNCHANGED <<manifest, db, rooted, writes>>, NEW d \in Agents, AgentOK(call'[d])
    PROVE  AgentOK(call[d])'
<1> USE DEF M!View, M!LoadManifest, M!Live, Opened, Listed
<1>1. Shape(call'[d]) => Shape(call[d])' BY DEF Shape
<1>2. PartsOK(call'[d]) => PartsOK(call[d])' BY DEF PartsOK
<1>3. UnderWay(call'[d]) => UnderWay(call[d])' BY <1>2 DEF UnderWay
<1>4. Ended(call'[d]) => Ended(call[d])' BY DEF Ended
<1> QED BY <1>1, <1>3, <1>4 DEF AgentOK

\* An agent's call is the only one that changes in a step of it.
LEMMA OneAgent ==
    ASSUME McpInv, NEW a \in Agents, NEW m, M!Goes(a, m), M!Server, AgentOK(m)
    PROVE  McpInv'
<1>1. UNCHANGED <<manifest, db, rooted, writes>> BY DEF M!Server
<1>2. AgentsOK BY DEF McpInv
<1>3. call' = [call EXCEPT ![a] = m] /\ DOMAIN call = Agents BY <1>2 DEF M!Goes, AgentsOK
<1>4. call' = [d \in Agents |-> call'[d]] BY <1>3
<1>5. ASSUME NEW d \in Agents PROVE AgentOK(call[d])'
  <2>1. AgentOK(call'[d])
    <3>1. call'[d] = IF d = a THEN m ELSE call[d] BY <1>3
    <3> QED BY <1>2, <3>1 DEF AgentsOK
  <2> QED BY <1>1, <2>1, SameViews
<1>6. ViewsOK' BY <1>1 DEF McpInv, ViewsOK
<1> QED BY <1>4, <1>5, <1>6 DEF McpInv, AgentsOK

\* A call under way, as the invariant has it.
LEMMA WhileUnderWay ==
    ASSUME McpInv, NEW a \in Agents, call[a].pc \in {"sent", "list", "check", "query"}
    PROVE  Shape(call[a]) /\ UnderWay(call[a])
<1>1. AgentOK(call[a]) BY DEF McpInv, AgentsOK
<1> QED BY <1>1 DEF AgentOK, M!Idle

\* A call that ends without an answer from a view or a listing.
LEMMA EndsKeeps ==
    ASSUME McpInv, NEW a \in Agents, call[a].pc \in {"sent", "list", "check", "query"},
           NEW result, M!Ends(a, result), M!Server,
           call[a].tool \notin {"status", "views"},
           result # "answer" \/ call[a].tool \notin M!ViewTools,
           (result = "unknown_tool") <=> call[a].tool \notin M!Tools(writes),
           call[a].given = M!Required(call[a].tool) => result # "bad_arguments"
    PROVE  McpInv'
<1> DEFINE me == call[a]
           m == [me EXCEPT !.pc = "done", !.result = result]
<1>1. Shape(me) BY WhileUnderWay
<1>2. /\ DOMAIN m = Fields /\ m.pc = "done" /\ m.result = result
      /\ m.tool = me.tool /\ m.given = me.given /\ m.views = me.views /\ m.always = me.always
      /\ m.todo = me.todo
  BY <1>1 DEF Shape, Fields
<1>3. M!Goes(a, m) BY DEF M!Ends
<1> HIDE DEF m
<1>4. Shape(m) BY <1>1, <1>2 DEF Shape
<1>5. Ended(m) BY <1>2 DEF Ended
<1>6. AgentOK(m) BY <1>2, <1>4, <1>5 DEF AgentOK
<1> QED BY <1>3, <1>6, OneAgent

\* A request arrives.
LEMMA McpAskKeeps ==
    ASSUME McpInv, NEW a \in Agents, NEW tool \in M!AllTools, NEW given, NEW view \in Views,
           NEW other \in Views, M!Ask(a, tool, given, view, other)
    PROVE  McpInv'
<1> DEFINE views == M!Opens(tool, view, other)
           m == [pc |-> "sent", tool |-> tool, given |-> given, views |-> views, next |-> 1,
                 parts |-> <<>>, todo |-> {}, result |-> None, touched |-> {},
                 always |-> {v \in Views : M!Live(v)},
                 blank |-> {v \in M!ToSet(views) : db[v] = M!Blank}]
<1>1. M!Goes(a, m) /\ M!Server BY DEF M!Ask
<1> HIDE DEF views
<1>2. Shape(m)
  <2>1. DOMAIN m = Fields BY DEF Fields
  <2>2. m.tool = tool /\ m.views = views /\ m.always = {v \in Views : M!Live(v)} /\ m.todo = {}
    OBVIOUS
  <2> HIDE DEF m
  <2> QED BY <2>1, <2>2 DEF Shape, views
<1>3. UnderWay(m) BY DEF UnderWay, Opened, M!ToSet
<1>4. AgentOK(m) BY <1>2, <1>3 DEF AgentOK
<1> HIDE DEF m
<1> QED BY <1>1, <1>4, OneAgent

\* dispatch refuses an unknown tool, lists what is there, or goes on to its arguments.
LEMMA DispatchKeeps == ASSUME McpInv, NEW a \in Agents, M!Dispatch(a) PROVE McpInv'
<1> DEFINE me == call[a]
<1>0. me.pc = "sent" /\ me.tool \notin {"record_get", "record_list"} \cup M!WriteTools /\ M!Server
  BY DEF M!Dispatch
<1>1. Shape(me) /\ UnderWay(me) BY <1>0, WhileUnderWay
<1>2. me.tool \in M!AllTools BY <1>1 DEF Shape
<1>3. CASE me.tool \in {"status", "views"}
  <2> DEFINE m == [me EXCEPT !.pc = "list", !.todo = {v \in Views : M!Live(v)}]
  <2>0. me.tool \notin M!ViewTools BY <1>3 DEF M!ViewTools, M!SymbolTools, M!AggregateTools
  <2>1. M!Goes(a, m) BY <1>3, <2>0, ZenonT(30) DEF M!Dispatch
  <2>2. /\ DOMAIN m = Fields /\ m.pc = "list" /\ m.todo = {v \in Views : M!Live(v)}
        /\ m.tool = me.tool /\ m.views = me.views /\ m.parts = me.parts
        /\ m.always = me.always /\ m.blank = me.blank
    BY <1>1 DEF Shape, Fields
  <2> HIDE DEF m
  <2>3. Shape(m) BY <1>1, <2>2 DEF Shape
  <2>4. m.parts \in Seq(Views) /\ m.always \subseteq Listed(m) \cup m.todo
    <3>1. m.parts = <<>> /\ \A v \in me.always : M!Live(v) BY <1>0, <1>1, <2>2 DEF UnderWay
    <3>2. m.always \subseteq m.todo BY <1>1, <2>2, <3>1 DEF Shape
    <3> QED BY <3>1, <3>2
  <2>5. UnderWay(m) BY <1>1, <1>3, <2>2, <2>4 DEF UnderWay, Opened
  <2>6. AgentOK(m) BY <2>2, <2>3, <2>5 DEF AgentOK
  <2> QED BY <1>0, <2>1, <2>6, OneAgent
<1>4. CASE me.tool \in M!ViewTools /\ M!Selector(me.tool) \subseteq me.given
  <2> DEFINE m == [me EXCEPT !.pc = "check"]
  <2>0. me.tool \notin {"status", "views"}
    BY <1>4 DEF M!ViewTools, M!SymbolTools, M!AggregateTools
  <2>1. M!Goes(a, m) BY <1>4, <2>0 DEF M!Dispatch
  <2>2. /\ DOMAIN m = Fields /\ m.pc = "check" /\ m.todo = me.todo
        /\ m.tool = me.tool /\ m.given = me.given /\ m.views = me.views /\ m.next = me.next
        /\ m.parts = me.parts /\ m.always = me.always /\ m.blank = me.blank
    BY <1>1 DEF Shape, Fields
  <2> HIDE DEF m
  <2>3. Shape(m) BY <1>1, <2>2 DEF Shape
  <2>4. 1 \in 1 .. Len(me.views) BY <1>1, <1>4, OpensFacts DEF Shape
  <2>5. UnderWay(m) BY <1>0, <1>1, <1>4, <2>2, <2>4 DEF UnderWay, Opened
  <2>6. AgentOK(m) BY <2>2, <2>3, <2>5 DEF AgentOK
  <2> QED BY <1>0, <2>1, <2>6, OneAgent
<1>5. CASE me.tool \in M!ViewTools /\ ~(M!Selector(me.tool) \subseteq me.given)
  <2>0. me.tool \notin {"status", "views"}
    BY <1>5 DEF M!ViewTools, M!SymbolTools, M!AggregateTools
  <2>1. M!Ends(a, "bad_arguments") BY <1>5, <2>0 DEF M!Dispatch
  <2>2. me.tool \in M!Tools(writes) /\ me.given # M!Required(me.tool) BY <1>2, <1>5, ToolFacts
  <2> QED BY <1>0, <2>0, <2>1, <2>2, EndsKeeps
<1>6. CASE me.tool \notin {"status", "views"} \cup M!ViewTools
  <2>1. M!Ends(a, "unknown_tool") BY <1>6 DEF M!Dispatch
  <2>2. me.tool \notin M!Tools(writes) BY <1>0, <1>2, <1>6, ToolFacts
  <2> QED BY <1>0, <1>6, <2>1, <2>2, EndsKeeps
<1> QED BY <1>3, <1>4, <1>5, <1>6

\* graph_views reads the manifests it listed one by one; it answers once none is left.
LEMMA ListViewKeeps == ASSUME McpInv, NEW a \in Agents, M!ListView(a) PROVE McpInv'
<1> DEFINE me == call[a]
<1>0. me.pc = "list" /\ M!Server BY DEF M!ListView
<1>1. Shape(me) /\ UnderWay(me) BY <1>0, WhileUnderWay
<1>2. me.tool \in M!AllTools /\ me.tool \in {"status", "views"} /\ me.parts \in Seq(Views)
      /\ me.always \subseteq Listed(me) \cup me.todo
  BY <1>0, <1>1 DEF Shape, UnderWay
<1>3. CASE me.todo = {}
  <2> DEFINE m == [me EXCEPT !.pc = "done", !.result = "answer"]
  <2>1. M!Goes(a, m) BY <1>3 DEF M!ListView, M!Ends
  <2>2. /\ DOMAIN m = Fields /\ m.pc = "done" /\ m.result = "answer" /\ m.todo = me.todo
        /\ m.tool = me.tool /\ m.views = me.views /\ m.parts = me.parts /\ m.always = me.always
    BY <1>1 DEF Shape, Fields
  <2> HIDE DEF m
  <2>3. Shape(m) BY <1>1, <2>2 DEF Shape
  <2>4. m.tool \notin M!ViewTools BY <1>2, <2>2 DEF M!ViewTools, M!SymbolTools, M!AggregateTools
  <2>5. m.tool \in M!Tools(writes) BY <1>2, <2>2, ToolFacts
  <2>6. m.always \subseteq Listed(m) BY <1>2, <1>3, <2>2 DEF Listed
  <2>7. Ended(m) BY <2>2, <2>4, <2>5, <2>6 DEF Ended
  <2>8. AgentOK(m) BY <2>2, <2>3, <2>7 DEF AgentOK
  <2> QED BY <1>0, <2>1, <2>8, OneAgent
<1>4. CASE me.todo # {}
  <2>1. PICK v \in me.todo :
           M!Goes(a, [me EXCEPT !.todo = @ \ {v},
                                !.parts = IF M!Live(v) THEN Append(@, v) ELSE @])
    BY <1>4 DEF M!ListView
  <2> DEFINE m == [me EXCEPT !.todo = @ \ {v},
                             !.parts = IF M!Live(v) THEN Append(@, v) ELSE @]
  <2>2. M!Goes(a, m) BY <2>1
  <2>3. /\ DOMAIN m = Fields /\ m.pc = "list" /\ m.todo = me.todo \ {v}
        /\ m.parts = IF M!Live(v) THEN Append(me.parts, v) ELSE me.parts
        /\ m.tool = me.tool /\ m.views = me.views /\ m.always = me.always /\ m.blank = me.blank
    BY <1>0, <1>1 DEF Shape, Fields
  <2> HIDE DEF m
  <2>4. Shape(m) BY <1>1, <2>3 DEF Shape
  <2>5. \A w \in me.always : M!Live(w) /\ w \in Views BY <1>1 DEF UnderWay, Shape
  <2>6. m.parts \in Seq(Views) /\ m.always \subseteq Listed(m) \cup m.todo
    <3>1. CASE v \in me.always
      <4>1. m.parts = Append(me.parts, v) BY <2>3, <2>5, <3>1
      <4>2. me.parts \in Seq(Views) /\ v \in Views BY <1>2, <2>5, <3>1
      <4> DEFINE n == Len(me.parts)
      <4>3. /\ m.parts \in Seq(Views) /\ n \in Nat /\ DOMAIN me.parts = 1 .. n
            /\ DOMAIN m.parts = 1 .. (n + 1) /\ m.parts[n + 1] = v
            /\ \A i \in 1 .. n : m.parts[i] = me.parts[i]
        BY <4>1, <4>2
      <4> HIDE DEF n
      <4>4. v \in Listed(m) BY <4>3 DEF Listed
      <4>5. Listed(me) \subseteq Listed(m) BY <4>3 DEF Listed
      <4> QED BY <1>2, <2>3, <4>3, <4>4, <4>5
    <3>2. CASE v \notin me.always
      <4>1. Listed(me) \subseteq Listed(m) BY <1>2, <2>3 DEF Listed
      <4>2. m.parts \in Seq(Views) BY <1>1, <1>2, <2>3, <2>1 DEF Shape
      <4> QED BY <1>2, <2>3, <4>1, <4>2, <3>2
    <3> QED BY <3>1, <3>2
  <2>7. UnderWay(m) BY <1>1, <1>2, <2>3, <2>6 DEF UnderWay, Opened
  <2>8. AgentOK(m) BY <2>3, <2>4, <2>7 DEF AgentOK
  <2> QED BY <1>0, <2>2, <2>8, OneAgent
<1> QED BY <1>3, <1>4

\* A view tool that has found its views opens the first of them.
LEMMA CheckKeeps == ASSUME McpInv, NEW a \in Agents, M!Check(a) PROVE McpInv'
<1> DEFINE me == call[a]
<1>0. me.pc = "check" /\ M!Server BY DEF M!Check
<1>1. Shape(me) /\ UnderWay(me) BY <1>0, WhileUnderWay
<1>2. /\ me.tool \in M!AllTools /\ me.tool \in M!ViewTools /\ me.parts = <<>>
      /\ M!Selector(me.tool) \subseteq me.given
  BY <1>0, <1>1 DEF Shape, UnderWay
<1>3. me.tool \notin {"status", "views"} BY <1>2 DEF M!ViewTools, M!SymbolTools, M!AggregateTools
<1>4. me.tool \in M!Tools(writes) BY <1>2, ToolFacts
<1>5. 1 \in 1 .. Len(me.views) /\ (me.tool = "diff" => 2 \in 1 .. Len(me.views))
  <2>1. PICK v \in Views, w \in Views : me.views = M!Opens(me.tool, v, w) BY <1>1 DEF Shape
  <2> DEFINE n == Len(me.views)
  <2>2. me.views \in Seq(Views) BY <2>1, OpensFacts
  <2>3. n >= 1 /\ (me.tool = "diff" => n = 2) BY <1>2, <2>1, OpensFacts
  <2>4. n \in Nat BY <2>2
  <2> HIDE DEF n
  <2>5. 1 \in 1 .. n /\ (me.tool = "diff" => 2 \in 1 .. n) BY <2>3, <2>4
  <2> QED BY <2>5 DEF n
<1>6. CASE M!Ends(a, "unknown_view") BY <1>0, <1>3, <1>4, <1>6, EndsKeeps
<1>7. CASE /\ ~(M!RankingArg(me.tool) \subseteq me.given)
           /\ M!Ends(a, "bad_arguments")
  <2>1. me.given # M!Required(me.tool) BY <1>2, <1>7, ToolFacts
  <2> QED BY <1>0, <1>3, <1>4, <1>7, <2>1, EndsKeeps
<1>8. ASSUME me.tool = "diff", M!Goes(a, [me EXCEPT !.next = 2]) PROVE McpInv'
  <2> DEFINE m == [me EXCEPT !.next = 2]
  <2>1. M!Goes(a, m) BY <1>8
  <2>2. /\ DOMAIN m = Fields /\ m.pc = "check" /\ m.next = 2 /\ m.todo = me.todo
        /\ m.tool = me.tool /\ m.given = me.given /\ m.views = me.views
        /\ m.parts = me.parts /\ m.always = me.always /\ m.blank = me.blank
    BY <1>0, <1>1 DEF Shape, Fields
  <2> HIDE DEF m
  <2>3. Shape(m) BY <1>1, <2>2 DEF Shape
  <2>4. UnderWay(m) BY <1>1, <1>2, <1>5, <1>8, <2>2 DEF UnderWay, Opened
  <2>5. AgentOK(m) BY <2>2, <2>3, <2>4 DEF AgentOK
  <2> QED BY <1>0, <2>1, <2>5, OneAgent
<1>9. ASSUME M!Goes(a, [me EXCEPT !.pc = "query", !.next = 1]) PROVE McpInv'
  <2> DEFINE m == [me EXCEPT !.pc = "query", !.next = 1]
  <2>1. M!Goes(a, m) BY <1>9
  <2>2. /\ DOMAIN m = Fields /\ m.pc = "query" /\ m.next = 1 /\ m.todo = me.todo
        /\ m.tool = me.tool /\ m.given = me.given /\ m.views = me.views
        /\ m.parts = me.parts /\ m.always = me.always /\ m.blank = me.blank
    BY <1>1 DEF Shape, Fields
  <2> HIDE DEF m
  <2>3. Shape(m) BY <1>1, <2>2 DEF Shape
  <2>4. m.parts \in Seq(Nat) /\ Len(m.parts) = 0 BY <1>2, <2>2
  <2>5. PartsOK(m) BY <2>4 DEF PartsOK
  <2>6. UnderWay(m) BY <1>1, <1>2, <1>5, <2>2, <2>4, <2>5 DEF UnderWay, Opened
  <2>7. AgentOK(m) BY <2>2, <2>3, <2>6 DEF AgentOK
  <2> QED BY <1>0, <2>1, <2>7, OneAgent
<1> QED BY <1>6, <1>7, <1>8, <1>9 DEF M!Check

\* A query opens its view anew, and the answer ends with the last of them.
LEMMA QueryKeeps == ASSUME McpInv, NEW a \in Agents, M!Query(a) PROVE McpInv'
<1> DEFINE me == call[a]
           v == me.views[me.next]
           read == M!View(v, me.next)
<1>0. me.pc = "query" /\ M!Server BY DEF M!Query
<1>1. Shape(me) /\ UnderWay(me) BY <1>0, WhileUnderWay
<1>2. /\ me.tool \in M!AllTools /\ me.tool \in M!ViewTools /\ me.parts \in Seq(Nat)
      /\ M!Selector(me.tool) \subseteq me.given /\ me.next \in 1 .. Len(me.views)
      /\ Len(me.parts) = me.next - 1 /\ PartsOK(me)
  BY <1>0, <1>1 DEF Shape, UnderWay
<1>3. me.tool \notin {"status", "views"} BY <1>2 DEF M!ViewTools, M!SymbolTools, M!AggregateTools
<1>4. me.tool \in M!Tools(writes) BY <1>2, ToolFacts
<1>5. me.views \in Seq(Views)
  <2>1. PICK x \in Views, y \in Views : me.views = M!Opens(me.tool, x, y) BY <1>1 DEF Shape
  <2> QED BY <2>1, OpensFacts
<1>6. v \in Views /\ v \in Opened(me) BY <1>2, <1>5 DEF Opened
<1>7. /\ read = M!View(v, 1) /\ (read # None => read \in Nat)
      /\ read = M!Blank => rooted /\ db[v] = M!Blank
  BY <1>6, ViewFacts DEF McpInv
<1>8. read = M!Blank => v \in me.blank BY <1>1, <1>6, <1>7 DEF UnderWay
<1>9. CASE read = None
  <2>1. M!Ends(a, "not_found") BY <1>9 DEF M!Query
  <2> QED BY <1>0, <1>3, <1>4, <2>1, EndsKeeps
<1>10. CASE read # None
  <2> DEFINE parts == Append(me.parts, read)
             m == IF me.next = Len(me.views)
                  THEN [me EXCEPT !.pc = "done", !.result = "answer", !.parts = parts]
                  ELSE [me EXCEPT !.next = @ + 1, !.parts = parts]
  <2>1. M!Goes(a, m) BY <1>10 DEF M!Query
  <2>2. /\ DOMAIN m = Fields /\ m.parts = parts /\ m.todo = me.todo
        /\ m.tool = me.tool /\ m.given = me.given /\ m.views = me.views
        /\ m.touched = me.touched /\ m.always = me.always /\ m.blank = me.blank
        /\ \/ m.pc = "done" /\ m.result = "answer"
           \/ m.pc = "query" /\ m.next = me.next + 1 /\ me.next # Len(me.views)
    BY <1>0, <1>1 DEF Shape, Fields
  <2> HIDE DEF m
  <2>3. Shape(m) BY <1>1, <2>2 DEF Shape
  <2>4. /\ m.parts \in Seq(Nat) /\ Len(m.parts) = me.next /\ m.parts[me.next] = read
        /\ \A i \in 1 .. (me.next - 1) : m.parts[i] = me.parts[i]
    BY <1>2, <1>7, <1>10, <2>2
  <2>5. PartsOK(m)
    <3> SUFFICES ASSUME NEW i \in 1 .. me.next
                 PROVE  /\ m.parts[i] = M!Blank => rooted /\ m.views[i] \in m.blank
                        /\ m.views[i] \notin m.touched => m.parts[i] = M!View(m.views[i], 1)
      BY <2>4 DEF PartsOK
    <3>1. CASE i = me.next BY <1>7, <1>8, <2>2, <2>4, <3>1
    <3>2. CASE i # me.next
      <4>1. i \in 1 .. (me.next - 1) BY <1>2, <3>2
      <4> QED BY <1>2, <2>2, <2>4, <4>1 DEF PartsOK
    <3> QED BY <3>1, <3>2
  <2>6. CASE m.pc = "done"
    <3>1. m.result = "answer" BY <2>2, <2>6
    <3>2. DOMAIN m.parts = 1 .. Len(m.parts) BY <2>4
    <3>3. /\ \A i \in DOMAIN m.parts : m.parts[i] = M!Blank => rooted /\ m.views[i] \in m.blank
          /\ \A i, j \in DOMAIN m.parts :
                m.views[i] = m.views[j] /\ m.views[i] \notin m.touched => m.parts[i] = m.parts[j]
      BY <2>5, <3>2 DEF PartsOK
    <3>4. Ended(m) BY <1>3, <1>4, <2>2, <2>4, <3>1, <3>3 DEF Ended
    <3>5. AgentOK(m) BY <2>3, <2>6, <3>4 DEF AgentOK
    <3> QED BY <1>0, <2>1, <3>5, OneAgent
  <2>7. CASE m.pc = "query"
    <3>1. m.next \in 1 .. Len(m.views) /\ Len(m.parts) = m.next - 1
      <4> DEFINE n == Len(me.views)
                 k == me.next
      <4>1. n \in Nat /\ k \in 1 .. n BY <1>2, <1>5
      <4>2. k # n /\ m.next = k + 1 /\ m.views = me.views /\ Len(m.parts) = k
        BY <2>2, <2>4, <2>7
      <4> HIDE DEF k, n
      <4>3. k + 1 \in 1 .. n /\ k = (k + 1) - 1 BY <4>1, <4>2
      <4> QED BY <4>2, <4>3 DEF n
    <3>2. UnderWay(m) BY <1>1, <1>2, <2>2, <2>4, <2>5, <2>7, <3>1 DEF UnderWay, Opened
    <3>3. AgentOK(m) BY <2>3, <2>7, <3>2 DEF AgentOK
    <3> QED BY <1>0, <2>1, <3>3, OneAgent
  <2> QED BY <2>2, <2>6, <2>7
<1> QED BY <1>9, <1>10

\* The record tools end at once and read no view.
LEMMA RecordToolsKeep ==
    ASSUME McpInv, NEW a \in Agents,
           \/ M!RefuseRecord(a) \/ M!RecordRead(a) \/ M!RecordDelete(a)
           \/ \E update \in BOOLEAN, kind \in {"Topic", "MemoryTier"}, body \in ToolBodies :
                 M!RecordPut(a, update, kind, body)
    PROVE  McpInv'
<1> DEFINE me == call[a]
           RecordTools == {"record_get", "record_list"} \cup M!WriteTools
<1>1. /\ me.pc = "sent" /\ me.tool \in RecordTools /\ M!Server
      /\ \/ /\ me.tool \in M!WriteTools /\ ~writes /\ M!Ends(a, "unknown_tool")
         \/ /\ ~(M!RecordArgs(me.tool) \subseteq me.given) /\ M!Ends(a, "bad_arguments")
            /\ me.tool \in M!WriteTools => writes
         \/ /\ me.tool \in M!WriteTools => writes
            /\ \E result \in {"answer", "no_record", "committed", "conflict", "error", "deleted"} :
                  M!Ends(a, result)
  <2>1. CASE M!RefuseRecord(a) BY <2>1 DEF M!RefuseRecord
  <2>2. CASE M!RecordRead(a) BY <2>2 DEF M!RecordRead, M!RecordCall, M!WriteTools
  <2>3. CASE M!RecordDelete(a) BY <2>3 DEF M!RecordDelete, M!RecordCall, M!WriteTools
  <2>4. ASSUME NEW update \in BOOLEAN, NEW kind \in {"Topic", "MemoryTier"}, NEW body \in ToolBodies,
               M!RecordPut(a, update, kind, body)
        PROVE  <1>1!:
    BY <2>4 DEF M!RecordPut, M!RecordCall, M!WriteTools
  <2> QED BY <2>1, <2>2, <2>3, <2>4
<1>2. Shape(me) BY <1>1, WhileUnderWay
<1>3. me.tool \in M!AllTools BY <1>2 DEF Shape
<1>4. me.tool \notin {"status", "views"} \cup M!ViewTools
  BY <1>1 DEF M!ViewTools, M!SymbolTools, M!AggregateTools, M!WriteTools
<1>5. me.tool \in M!Tools(writes) <=> (me.tool \in M!WriteTools => writes) BY <1>1, <1>3, ToolFacts
<1>6. CASE me.tool \in M!WriteTools /\ ~writes /\ M!Ends(a, "unknown_tool")
  BY <1>1, <1>4, <1>5, <1>6, EndsKeeps
<1>7. CASE /\ ~(M!RecordArgs(me.tool) \subseteq me.given) /\ M!Ends(a, "bad_arguments")
           /\ me.tool \in M!WriteTools => writes
  <2>1. me.given # M!Required(me.tool) BY <1>1, <1>3, <1>7, ToolFacts
  <2> QED BY <1>1, <1>4, <1>5, <1>7, <2>1, EndsKeeps
<1>8. ASSUME me.tool \in M!WriteTools => writes,
             NEW result \in {"answer", "no_record", "committed", "conflict", "error", "deleted"},
             M!Ends(a, result)
      PROVE  McpInv'
  BY <1>1, <1>4, <1>5, <1>8, EndsKeeps
<1> QED BY <1>1, <1>6, <1>7, <1>8

\* The other clients: a call under way hears of every view that changed.
LEMMA OthersKeep ==
    ASSUME McpInv, NEW touched, M!Others(touched), ViewsOK',
           \A v \in Views \ touched : M!View(v, 1)' = M!View(v, 1)
    PROVE  McpInv'
<1>0. AgentsOK /\ UNCHANGED <<writes, rooted>> BY DEF McpInv, M!Others
<1> DEFINE Now(v) == IF rooted' /\ db'[v] # None THEN db'[v]
                     ELSE IF manifest'[v] # None /\ manifest'[v].live THEN manifest'[v].version
                     ELSE None
<1>v. \A v \in Views \ touched : Now(v) = M!View(v, 1)
  BY DEF M!View, M!LoadManifest, M!Live
<1>1. call' = [d \in Agents |-> call'[d]] BY <1>0 DEF M!Others
<1>2. ASSUME NEW d \in Agents PROVE AgentOK(call[d])'
  <2>0. AgentOK(call[d]) BY <1>0 DEF AgentsOK
  <2>1. CASE call[d].pc \in {"idle", "done"}
    <3>1. call'[d] = call[d] BY <2>1 DEF M!Others
    <3>2. call[d] = M!Idle \/ (Shape(call[d]) /\ Ended(call[d]) /\ call[d].pc = "done")
      BY <2>0, <2>1 DEF AgentOK, M!Idle
    <3>3. Shape(call[d]) => Shape(call[d])' BY <3>1 DEF Shape
    <3>4. Ended(call[d]) => Ended(call[d])' BY <1>0, <3>1 DEF Ended, Listed
    <3> QED BY <3>1, <3>2, <3>3, <3>4 DEF AgentOK
  <2>2. CASE call[d].pc \notin {"idle", "done"}
    <3> DEFINE me == call[d]
               m == call'[d]
    <3>1. /\ Shape(me) /\ UnderWay(me) /\ me.pc \in {"sent", "list", "check", "query"}
      BY <2>0, <2>2 DEF AgentOK, M!Idle
    <3>2. m = [me EXCEPT !.touched = @ \cup (touched \cap M!ToSet(me.views)),
                         !.always = {v \in @ : manifest'[v] # None /\ manifest'[v].live},
                         !.blank = @ \cup {v \in M!ToSet(me.views) : db'[v] = M!Blank}]
      BY <2>2, Zenon DEF M!Others
    <3>3. /\ DOMAIN m = Fields /\ m.pc = me.pc /\ m.tool = me.tool /\ m.given = me.given
          /\ m.views = me.views /\ m.next = me.next /\ m.parts = me.parts /\ m.todo = me.todo
          /\ m.touched = me.touched \cup (touched \cap Opened(me))
          /\ m.always = {v \in me.always : manifest'[v] # None /\ manifest'[v].live}
          /\ m.blank = me.blank \cup {v \in Opened(me) : db'[v] = M!Blank}
      BY <3>1, <3>2 DEF Shape, Fields, Opened, M!ToSet
    <3> HIDE DEF m
    <3>4. Shape(m) BY <3>1, <3>3 DEF Shape
    <3>5. Shape(call[d])' BY <3>4 DEF Shape, m
    <3>6. ASSUME me.pc = "query" PROVE PartsOK(call[d])'
      <4>1. me.views \in Seq(Views)
        <5>1. PICK x \in Views, y \in Views : me.views = M!Opens(me.tool, x, y)
          BY <3>1 DEF Shape
        <5> QED BY <5>1, OpensFacts
      <4>2. /\ me.parts \in Seq(Nat) /\ Len(me.parts) = me.next - 1 /\ PartsOK(me)
            /\ me.next \in 1 .. Len(me.views)
        BY <3>1, <3>6 DEF UnderWay
      <4> SUFFICES ASSUME NEW i \in 1 .. Len(m.parts)
                   PROVE  /\ m.parts[i] = M!Blank => rooted /\ m.views[i] \in m.blank
                          /\ m.views[i] \notin m.touched => m.parts[i] = Now(m.views[i])
        BY <1>0 DEF PartsOK, m, M!View, M!LoadManifest, M!Live
      <4> HIDE DEF Now
      <4>3. me.views[i] \in Views /\ me.views[i] \in Opened(me)
        BY <3>3, <4>1, <4>2 DEF Opened
      <4>4. me.parts[i] = M!Blank => rooted /\ me.views[i] \in me.blank
        BY <3>3, <4>2 DEF PartsOK
      <4>5. ASSUME m.views[i] \notin m.touched PROVE m.parts[i] = Now(m.views[i])
        <5>1. me.views[i] \notin me.touched /\ me.views[i] \in Views \ touched
          BY <3>3, <4>3, <4>5
        <5>2. me.parts[i] = M!View(me.views[i], 1) BY <3>3, <4>2, <5>1 DEF PartsOK
        <5> QED BY <1>v, <3>3, <5>1, <5>2
      <4> QED BY <3>3, <4>4, <4>5
    <3>7. UnderWay(call[d])' BY <3>1, <3>3, <3>6 DEF UnderWay, Opened, Listed, M!Live, m
    <3> QED BY <3>1, <3>3, <3>5, <3>7 DEF AgentOK, m
  <2> QED BY <2>1, <2>2
<1> QED BY <1>1, <1>2 DEF McpInv, AgentsOK

\* Each of their steps changes no view but the one it says.
LEMMA OtherClientsKeep == ASSUME McpInv, M!OthersNext PROVE McpInv'
<1> USE DEF M!View, M!LoadManifest, M!Live
<1>0. ViewsOK BY DEF McpInv
<1>1. ASSUME NEW v \in Views, M!IndexOpens(v) PROVE McpInv'
  <2>1. ViewsOK' BY <1>0, <1>1 DEF ViewsOK, M!IndexOpens, M!Others, M!Blank
  <2>2. \A w \in Views \ {v} : M!View(w, 1)' = M!View(w, 1)
    BY <1>0, <1>1 DEF ViewsOK, M!IndexOpens, M!Others
  <2>3. M!Others({v}) BY <1>1 DEF M!IndexOpens
  <2> QED BY <2>1, <2>2, <2>3, OthersKeep
<1>2. ASSUME NEW v \in Views, M!IndexCommits(v) PROVE McpInv'
  <2> DEFINE committed == [version |-> IF manifest[v] = None THEN 1 ELSE manifest[v].version + 1,
                           live |-> TRUE]
  <2>1. committed \in Manifests BY <1>0, <1>2 DEF ViewsOK, Manifests
  <2>2. manifest' = [manifest EXCEPT ![v] = committed] BY <1>2 DEF M!IndexCommits
  <2> HIDE DEF committed
  <2>3. ViewsOK' BY <1>0, <1>2, <2>1, <2>2 DEF ViewsOK, M!IndexCommits, M!Others
  <2>4. \A w \in Views \ {v} : M!View(w, 1)' = M!View(w, 1)
    BY <1>0, <1>2, <2>2 DEF ViewsOK, M!IndexCommits, M!Others
  <2>5. M!Others({v}) BY <1>2 DEF M!IndexCommits
  <2> QED BY <2>3, <2>4, <2>5, OthersKeep
<1>3. ASSUME NEW v \in Views, M!IndexApplies(v) PROVE McpInv'
  <2>1. manifest[v].version \in Nat BY <1>0, <1>3 DEF ViewsOK, Manifests, M!IndexApplies
  <2>2. ViewsOK' BY <1>0, <1>3, <2>1 DEF ViewsOK, M!IndexApplies, M!Others
  <2>3. \A w \in Views \ {v} : M!View(w, 1)' = M!View(w, 1)
    BY <1>0, <1>3 DEF ViewsOK, M!IndexApplies, M!Others
  <2>4. M!Others({v}) BY <1>3 DEF M!IndexApplies
  <2> QED BY <2>2, <2>3, <2>4, OthersKeep
<1>4. ASSUME NEW v \in Views, M!IndexDies(v) PROVE McpInv'
  <2>1. M!Others({}) /\ UNCHANGED <<manifest, db, rooted, writes>>
    BY <1>4 DEF M!IndexDies, M!Others
  <2>2. ViewsOK' /\ \A w \in Views \ {} : M!View(w, 1)' = M!View(w, 1) BY <1>0, <2>1 DEF ViewsOK
  <2> QED BY <2>1, <2>2, OthersKeep
<1>5. ASSUME NEW v \in Views, M!DeleteOrRestore(v) PROVE McpInv'
  <2> DEFINE turned == [manifest[v] EXCEPT !.live = ~@]
  <2>0. manifest[v] \in Manifests BY <1>0, <1>5 DEF ViewsOK, M!DeleteOrRestore
  <2>1. turned \in Manifests BY <2>0 DEF Manifests
  <2>2. manifest' = [manifest EXCEPT ![v] = turned] BY <1>5 DEF M!DeleteOrRestore
  <2> HIDE DEF turned
  <2>3. ViewsOK' BY <1>0, <1>5, <2>1, <2>2 DEF ViewsOK, M!DeleteOrRestore, M!Others
  <2>4. \A w \in Views \ {v} : M!View(w, 1)' = M!View(w, 1)
    BY <1>0, <1>5, <2>2 DEF ViewsOK, M!DeleteOrRestore, M!Others
  <2>5. M!Others({v}) BY <1>5 DEF M!DeleteOrRestore
  <2> QED BY <2>3, <2>4, <2>5, OthersKeep
<1>6. ASSUME NEW body \in ToolBodies, M!EditRecord(body) PROVE McpInv'
  <2>1. M!Others({}) /\ UNCHANGED <<manifest, db, rooted, writes>>
    BY <1>6 DEF M!EditRecord, M!Others
  <2>2. ViewsOK' /\ \A w \in Views \ {} : M!View(w, 1)' = M!View(w, 1) BY <1>0, <2>1 DEF ViewsOK
  <2> QED BY <2>1, <2>2, OthersKeep
<1> QED BY <1>1, <1>2, <1>3, <1>4, <1>5, <1>6 DEF M!OthersNext

\* Every step of the agents and of everyone else keeps it.
LEMMA McpStep == McpInv /\ [M!Next]_mcpVars => McpInv'
<1> SUFFICES ASSUME McpInv, [M!Next]_mcpVars PROVE McpInv' OBVIOUS
<1>1. ASSUME NEW a \in Agents, M!AgentNext(a) PROVE McpInv'
  <2>1. ASSUME NEW tool \in M!AllTools, NEW view \in Views,
               NEW other \in IF tool = "diff" THEN Views ELSE {view},
               NEW given \in M!Requests(tool), M!Ask(a, tool, given, view, other)
        PROVE  McpInv'
    <3>1. other \in Views OBVIOUS
    <3> QED BY <2>1, <3>1, McpAskKeeps
  <2> QED BY <1>1, <2>1, DispatchKeeps, ListViewKeeps, CheckKeeps, QueryKeeps, RecordToolsKeep
          DEF M!AgentNext
<1>2. CASE M!OthersNext BY <1>2, OtherClientsKeep
<1>3. CASE UNCHANGED mcpVars
  <2>1. UNCHANGED <<manifest, db, rooted, writes, call>> BY <1>3 DEF mcpVars
  <2>2. ViewsOK' BY <2>1 DEF McpInv, ViewsOK
  <2>3. \A d \in Agents : AgentOK(call'[d]) BY <2>1 DEF McpInv, AgentsOK
  <2>4. \A d \in Agents : AgentOK(call[d])' BY <2>1, <2>3, SameViews
  <2> QED BY <2>1, <2>2, <2>4 DEF McpInv, AgentsOK
<1> QED BY <1>1, <1>2, <1>3 DEF M!Next

\* For any agents, views and tools: an agent's empty answer is of a view that is there, the
\* parts of an answer are of one version unless the view changed meanwhile, a listing leaves
\* out no view that was there throughout, and a tool is unknown exactly when it is not offered
\* (dispatch, graph_views, view_exists, view of gonzalo-mcp and Service).
THEOREM AgentsAreToldTheTruth == M!Spec => []ViewAnswersHold
<1>1. M!Init /\ [][M!Next]_mcpVars => []McpInv BY McpInit, McpStep, PTL
<1>2. McpInv => ViewAnswersHold BY McpHolds
<1> QED BY <1>1, <1>2, PTL DEF M!Spec, M!vars, mcpVars
=============================================================================
