-------------------------------- MODULE Sync --------------------------------
(***************************************************************************)
(* sync: reconciling two stores, key by key, while local writers change     *)
(* them and another sync may run between them (gonzalo-core: sync.rs).  A   *)
(* pass lists both stores, then for each key reads both records, decides    *)
(* from their ancestor chains, and writes with put_raw conditioned on what  *)
(* it read.  A write that loses its race marks the key raced, and the pass  *)
(* runs again, at most MaxPasses times.  Every store call is one step.      *)
(***************************************************************************)
EXTENDS Records

CONSTANTS Keys,
          Sites,             \* the stores
          Syncs,             \* the sync runs
          Side,              \* sync -> [a, b], the two sites it reconciles
          WriterSites,       \* the sites with local writers
          PurgeSites,        \* the sites where tombstones are purged
          Rerun,             \* whether a finished sync is run again
          Kinds,             \* the kinds local writers create
          FreshBodies,       \* the bodies they create
          EditsOf(_),        \* the bodies they may put in place of one
          Caps,              \* site -> its ancestor cap
          HasAncestry,       \* whether sync is given an ancestry store
          AppendOnlyMerge(_, _),
          StructuredMerge(_, _, _),  \* the merged body, or None
          MaxPasses,         \* MAX_SYNC_PASSES
          MaxCounter,        \* bound: no write beyond this revision counter
          MaxDisturbances    \* bound: local writes and aborted syncs

ASSUME SyncAssumption ==
    /\ Side \in [Syncs -> [a : Sites, b : Sites]]
    /\ \A s \in Syncs : Side[s].a # Side[s].b
    /\ None \notin Syncs
    /\ None \notin [record : Record, expected : Revision \cup {None}]
    /\ WriterSites \subseteq Sites
    /\ PurgeSites \subseteq Sites
    /\ Rerun \in BOOLEAN
    /\ Kinds \subseteq LiveKinds
    /\ FreshBodies \subseteq Bodies
    /\ Caps \in [Sites -> Nat \ {0}]
    /\ HasAncestry \in BOOLEAN
    /\ MaxPasses \in Nat \ {0}
    /\ MaxCounter \in Nat
    /\ MaxDisturbances \in Nat

VARIABLES stores,        \* site -> key -> slot
          run,           \* sync -> where it is
          touched,       \* history: the keys another writer changed in its pass
          disturbances   \* how many local writes and aborts there were

vars == <<stores, run, touched, disturbances>>

(***************************************************************************)
(* How two records of a key relate, and what sync does about it             *)
(***************************************************************************)

\* Mutant: the higher counter is ahead, whatever the chains say.
RelateByCounter(a, b) == CASE a.revision = b.revision -> "InSync"
                           [] a.revision.counter > b.revision.counter -> "AAhead"
                           [] a.revision.counter < b.revision.counter -> "BAhead"
                           [] OTHER -> "Diverged"

Relate(a, b) == CASE a.revision = b.revision -> "InSync"
                  [] a.revision # b.revision /\ b.revision \in a.ancestors -> "AAhead"
                  [] /\ a.revision # b.revision /\ b.revision \notin a.ancestors
                     /\ a.revision \in b.ancestors -> "BAhead"
                  [] OTHER -> "Diverged"

\* Mutant: side A's body wins in every class.
MergeTakesOurs(class, base, ours, theirs) == ours

MergeBodies(class, base, ours, theirs) ==
    CASE class = "AppendOnly" -> AppendOnlyMerge(ours, theirs)
      [] class = "Structured" -> StructuredMerge(base, ours, theirs)
      [] class = "Opaque"     -> None
      [] class = "Derived"    -> ours

\* The possible merge bases: the shared parent's body if the ancestry store has
\* it, and the empty body, which sync falls back to when it does not.
AncestryBases(a, b) ==
    {EmptyBody} \cup {body \in Bodies : /\ HasAncestry
                                        /\ a.parent # None
                                        /\ a.parent = b.parent
                                        /\ ContentHash[body] = a.parent.hash}

LosslessCap(a, b) == Cardinality(a.ancestors) + Cardinality(b.ancestors) + 2

\* A decision: what goes to each side, if anything, and the key's report entry.
Put(rec, over) == [record |-> rec, expected |-> IF over = None THEN None ELSE over.revision]
Decision(to_a, to_b, outcome) == [a |-> to_a, b |-> to_b, outcome |-> outcome]
ToBoth(rec, a, b) == Decision(Put(rec, a), Put(rec, b), "merged")

Reconcile(a, b, base) ==
    LET cap  == LosslessCap(a, b)
        body == MergeBodies(MergeClass(a.kind), base, a.body, b.body)
    IN  IF IsTombstone(a) /\ IsTombstone(b) THEN ToBoth(TombstoneWinner(a, b, cap), a, b)
        ELSE IF IsTombstone(a) \/ IsTombstone(b) \/ body = None
             THEN Decision(None, None, "conflict")
        ELSE ToBoth(ReconciledRecord(a, b, body, cap), a, b)

Decide(a, b, base) ==
    CASE a = None /\ b = None -> Decision(None, None, "none")
      [] a # None /\ b = None -> Decision(None, Put(a, None), "copied_to_b")
      [] a = None /\ b # None -> Decision(Put(b, None), None, "copied_to_a")
      [] a # None /\ b # None ->
            CASE Relate(a, b) = "InSync"   -> Decision(None, None, "none")
              [] Relate(a, b) = "AAhead"   -> Decision(None, Put(a, b), "fast_forwarded_to_b")
              [] Relate(a, b) = "BAhead"   -> Decision(Put(b, a), None, "fast_forwarded_to_a")
              [] Relate(a, b) = "Diverged" -> Reconcile(a, b, base)

(***************************************************************************)
(* State                                                                   *)
(***************************************************************************)

Outcomes == {"none", "copied_to_a", "copied_to_b", "fast_forwarded_to_a",
             "fast_forwarded_to_b", "merged", "conflict", "raced"}

NoPlan == Decision(None, None, "none")
NoReport == [k \in Keys |-> "none"]

Start == [pc |-> "list_a", pass |-> 1, keys |-> {}, key |-> None, seen_a |-> None,
          plan |-> NoPlan, landed |-> TRUE, report |-> NoReport]

Raced(s) == {k \in Keys : run[s].report[k] = "raced"}
Conflicts(s) == {k \in Keys : run[s].report[k] = "conflict"}

Init == /\ stores = [site \in Sites |-> [k \in Keys |-> None]]
        /\ run = [s \in Syncs |-> Start]
        /\ touched = [s \in Syncs |-> {}]
        /\ disturbances = 0

\* Carry out a planner's decision at a site on behalf of writer w.
Execute(w, site, k, plan) ==
    /\ plan.outcome = "Write" => plan.record.revision.counter <= MaxCounter
    /\ stores' = [stores EXCEPT ![site][k] = Apply(stores[site][k], plan)]
    /\ touched' = [s \in Syncs |->
                      IF s # w /\ site \in {Side[s].a, Side[s].b} /\ stores' # stores
                      THEN touched[s] \cup {k} ELSE touched[s]]

(***************************************************************************)
(* Local writers and failures                                              *)
(***************************************************************************)

Disturb == /\ disturbances < MaxDisturbances
           /\ disturbances' = disturbances + 1

LocalStep(site, k, plan) == /\ plan.outcome \in {"Write", "Remove"}
                            /\ Disturb
                            /\ Execute(None, site, k, plan)
                            /\ UNCHANGED run

LocalCreate(site, k, kind, body) ==
    LocalStep(site, k, PlanPut(stores[site][k], CreateRecord(kind, body), None, Caps[site]))

LocalEdit(site, k, body) ==
    LET old == stores[site][k] IN
    LocalStep(site, k, PlanPut(old, UpdateRecord(old, body), old.revision, Caps[site]))

LocalDelete(site, k) ==
    LocalStep(site, k, PlanDelete(stores[site][k], None, 0, Caps[site]))

LocalPurge(site, k) ==
    LET old == stores[site][k] IN
    /\ old # None
    /\ IsTombstone(old)
    /\ LocalStep(site, k, PlanPurge(old, old.revision))

\* A store error ends the run where it is; it is started again later.
Abort(s) == /\ run[s].pc # "done"
            /\ Disturb
            /\ run' = [run EXCEPT ![s] = Start]
            /\ UNCHANGED <<stores, touched>>

(***************************************************************************)
(* A sync run                                                              *)
(***************************************************************************)

Present(site) == {k \in Keys : stores[site][k] # None}

\* A pass starts with an empty report.
ListA(s) ==
    /\ run[s].pc = "list_a"
    /\ run' = [run EXCEPT ![s] = [@ EXCEPT !.pc = "list_b", !.report = NoReport,
                                           !.keys = Present(Side[s].a)]]
    /\ touched' = [touched EXCEPT ![s] = {}]
    /\ UNCHANGED <<stores, disturbances>>

\* Mutant: B's keys replace A's.
ListBForgetsA(s) ==
    /\ run[s].pc = "list_b"
    /\ run' = [run EXCEPT ![s] = [@ EXCEPT !.pc = "next", !.keys = Present(Side[s].b)]]
    /\ UNCHANGED <<stores, touched, disturbances>>

ListB(s) ==
    /\ run[s].pc = "list_b"
    /\ run' = [run EXCEPT ![s] = [@ EXCEPT !.pc = "next",
                                           !.keys = run[s].keys \cup Present(Side[s].b)]]
    /\ UNCHANGED <<stores, touched, disturbances>>

ReadA(s, k) ==
    /\ run[s].pc = "next"
    /\ k \in run[s].keys
    /\ run' = [run EXCEPT ![s] = [@ EXCEPT !.pc = "read_b", !.key = k,
                                           !.keys = run[s].keys \ {k},
                                           !.seen_a = stores[Side[s].a][k]]]
    /\ UNCHANGED <<stores, touched, disturbances>>

\* Read the other side and decide; with nothing to write the key is done.
ReadB(s) ==
    LET r == run[s]
        b == stores[Side[s].b][r.key]
        bases == IF r.seen_a = None \/ b = None THEN {EmptyBody}
                 ELSE AncestryBases(r.seen_a, b)
    IN  /\ r.pc = "read_b"
        /\ \E base \in bases :
              LET d == Decide(r.seen_a, b, base) IN
              run' = [run EXCEPT ![s] =
                         IF d.a = None /\ d.b = None
                         THEN [r EXCEPT !.pc = "next", !.seen_a = None,
                                        !.report[r.key] = d.outcome]
                         ELSE [r EXCEPT !.pc = "write", !.seen_a = None,
                                        !.plan = d, !.landed = TRUE]]
        /\ UNCHANGED <<stores, touched, disturbances>>

\* copy and overwrite: put_raw to side a, then to side b.
WriteSide(s, side) ==
    LET r      == run[s]
        site   == Side[s][side]
        put    == r.plan[side]
        result == PlanPutRaw(stores[site][r.key], put.record, put.expected, Caps[site])
        landed == r.landed /\ result.outcome = "Write"
        last   == side = "b" \/ r.plan.b = None
    IN  /\ r.pc = "write"
        /\ put # None
        /\ side = "b" => r.plan.a = None
        /\ Execute(s, site, r.key, result)
        /\ run' = [run EXCEPT ![s] =
                      IF last
                      THEN [r EXCEPT !.pc = "next", !.plan = NoPlan, !.landed = TRUE,
                                     !.report[r.key] = IF landed THEN r.plan.outcome
                                                       ELSE "raced"]
                      ELSE [r EXCEPT !.plan[side] = None, !.landed = landed]]
        /\ UNCHANGED disturbances

\* A clean pass ends the run, and so does the last one allowed.
EndPass(s) ==
    /\ run[s].pc = "next"
    /\ run[s].keys = {}
    /\ run' = [run EXCEPT ![s] =
                  IF Raced(s) = {} \/ run[s].pass = MaxPasses
                  THEN [@ EXCEPT !.pc = "done", !.key = None]
                  ELSE [@ EXCEPT !.pc = "list_a", !.key = None, !.pass = run[s].pass + 1]]
    /\ UNCHANGED <<stores, touched, disturbances>>

\* The caller runs sync again.
Again(s) == /\ Rerun
            /\ run[s].pc = "done"
            /\ run' = [run EXCEPT ![s] = Start]
            /\ UNCHANGED <<stores, touched, disturbances>>

(***************************************************************************)
(* Specification                                                           *)
(***************************************************************************)

LocalNext ==
    \E site \in WriterSites, k \in Keys :
        \/ \E kind \in Kinds, body \in FreshBodies : LocalCreate(site, k, kind, body)
        \/ /\ IsLive(stores[site][k])
           /\ \E body \in EditsOf(stores[site][k].body) : LocalEdit(site, k, body)
        \/ LocalDelete(site, k)
        \/ site \in PurgeSites /\ LocalPurge(site, k)

SyncNext(s) ==
    \/ ListA(s)
    \/ ListB(s)
    \/ \E k \in Keys : ReadA(s, k)
    \/ ReadB(s)
    \/ \E side \in {"a", "b"} : WriteSide(s, side)
    \/ EndPass(s)
    \/ Again(s)

Next == LocalNext \/ \E s \in Syncs : SyncNext(s) \/ Abort(s)

Spec == Init /\ [][Next]_vars

\* sync is a loop of awaited calls that return, and is run again as long as it is
\* needed; nothing makes a local writer write.
FairSpec == Spec /\ \A s \in Syncs : WF_vars(SyncNext(s))

(***************************************************************************)
(* Properties                                                              *)
(***************************************************************************)

Plans == [record : Record, expected : Revision \cup {None}] \cup {None}

\* Every variable holds what the code's types allow.
TypeOK ==
    /\ stores \in [Sites -> [Keys -> Slot]]
    /\ run \in [Syncs -> [pc : {"list_a", "list_b", "next", "read_b", "write", "done"},
                          pass : 1..MaxPasses, keys : SUBSET Keys,
                          key : Keys \cup {None}, seen_a : Slot,
                          plan : [a : Plans, b : Plans, outcome : Outcomes],
                          landed : BOOLEAN, report : [Keys -> Outcomes]]]
    /\ touched \in [Syncs -> SUBSET Keys]
    /\ disturbances \in 0..MaxDisturbances

\* The two slots show a consumer the same.
Agree(a, b) == /\ IsLive(a) = IsLive(b)
               /\ IsLive(a) => a.revision = b.revision /\ a.body = b.body

\* After a run that reports neither conflicts nor unconverged keys, the stores
\* agree on every key nobody else wrote during its last pass, however many local
\* writes, failed runs and other syncs came before (sync's contract).
CleanRunAgrees ==
    \A s \in Syncs :
        run[s].pc = "done" /\ Raced(s) = {} =>
            \A k \in Keys \ (touched[s] \cup Conflicts(s)) :
                Agree(stores[Side[s].a][k], stores[Side[s].b][k])

\* A write loses its race only on a key another writer changed in this very pass:
\* "a store that settles converges within one extra pass" (MAX_SYNC_PASSES).
RacedWasTouched == \A s \in Syncs : Raced(s) \subseteq touched[s]

\* Sync overwrites only what it supersedes: the record it replaces, read a while
\* ago, is an ancestor of the one it writes or that very revision.  So a delete
\* is never undone by a record that did not know of it, nor an edit lost to one.
OverwritesOnlyAncestors ==
    [][\A s \in Syncs, side \in {"a", "b"} :
          LET put == run[s].plan[side]
              old == stores[Side[s][side]][run[s].key]
          IN  (put # None /\ run'[s].plan[side] = None /\ run'[s].pc # "list_a"
               /\ old # None /\ stores' # stores)
              => old.revision \in Lineage(put.record)]_vars

\* At every site a key's history moves forward, whoever writes: a replaced record
\* gives way to a higher counter, or to itself with a fuller chain.
HistoryMovesForward ==
    [][\A site \in Sites, k \in Keys :
          LET old == stores[site][k]
              new == stores'[site][k]
          IN  old # None /\ new # None /\ new # old
              => \/ new.revision.counter > old.revision.counter
                 \/ new.revision = old.revision]_stores

\* Every record, stored or about to be, has its chain behind it and its body's
\* hash in its revision.
StoresWellFormed ==
    /\ \A site \in Sites, k \in Keys : WellFormed(stores[site][k])
    /\ \A s \in Syncs : /\ WellFormed(run[s].seen_a)
                        /\ \A side \in {"a", "b"} :
                              run[s].plan[side] # None => WellFormed(run[s].plan[side].record)

\* The two sites of s differ on k in a way only a caller can resolve.
NeedsCaller(s, k) ==
    LET a == stores[Side[s].a][k]
        b == stores[Side[s].b][k]
    IN  /\ a # None /\ b # None
        /\ Relate(a, b) = "Diverged"
        /\ \E base \in AncestryBases(a, b) : Reconcile(a, b, base).outcome = "conflict"

\* Once local writers stop, the sites of every sync come to agree for good on
\* every key that does not need the caller.
EventuallyAgrees ==
    \A s \in Syncs :
        <>[](\A k \in Keys : \/ Agree(stores[Side[s].a][k], stores[Side[s].b][k])
                             \/ NeedsCaller(s, k))

\* No history is broken by replication: chains stay behind their records, only what is
\* superseded is overwritten, and every key moves forward.
KeepsHistory == [](TypeOK /\ StoresWellFormed) /\ OverwritesOnlyAncestors /\ HistoryMovesForward

\* Replication neither breaks a history nor reports what is not so: clean means that the
\* stores agree, unconverged that somebody else was writing.
SyncIsSound == KeepsHistory /\ [](CleanRunAgrees /\ RacedWasTouched)
=============================================================================
