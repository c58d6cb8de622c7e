-------------------------------- MODULE Soak --------------------------------
(***************************************************************************)
(* The soak harness (gonzalo-soak: dispatch.rs, workload.rs, oracle.rs).    *)
(* Writers send conditional writes through a dispatcher that goes on to the  *)
(* next replica when one fails, so a write whose answer was lost is sent     *)
(* again; the oracle then judges the run by the recorded results and a      *)
(* final read.  The replicas serve one bucket, here one planner step per     *)
(* call.  The keys are one contended key, one lifecycle key and a unique     *)
(* key for each writer.                                                    *)
(***************************************************************************)
EXTENDS StoreCalls, Sequences, SequencesExt

CONSTANTS Writers,
          Replicas,         \* how many there are
          OpsPerWriter, LifePerWriter,
          MaxRetries,       \* max_conflict_retries
          Cap,
          MaxFaults         \* bound: calls a replica fails

VARIABLES store,            \* key -> its slot
          me,               \* writer, or the seed -> where it is
          ops,              \* the results of the contended stream: op id -> result
          life,             \* the lifecycle records
          acked, deleted,   \* the writers whose unique key was acknowledged, deleted
          unanswered,       \* the writers whose unique delete no replica answered
          ids,              \* the next op id and lifecycle id
          faults

vars == <<store, me, ops, life, acked, deleted, unanswered, ids, faults>>

SoakKeys == {"shared", "life"} \cup Writers
Idle(pc) == [pc |-> pc, round |-> 1, id |-> 0, op |-> None, seen |-> None,
             tries |-> 0, retries |-> 0]

\* The seed runs before any writer is spawned.
Init == /\ store = [k \in SoakKeys |-> None]
        /\ me = [w \in Writers \cup {"seed"} |->
                    IF w = "seed" THEN [Idle("seed_get") EXCEPT !.op = "Recreate"] ELSE Idle("waits")]
        /\ ops = <<>> /\ life = {} /\ acked = {} /\ deleted = {} /\ unanswered = {}
        /\ ids = [op |-> 1, life |-> 1] /\ faults = 0

(***************************************************************************)
(* What a writer asks the dispatcher for                                   *)
(***************************************************************************)

\* Mutant: the id goes in again when the read shows it is already there.
AppendAgain(members, id) == Append(members, id)

\* rmw_append's set: an id that a lost answer has already put there is not repeated.
Members(members, id) == IF id \in ToSet(members) THEN members ELSE Append(members, id)

KeyOf(w) == CASE me[w].pc \in {"rmw_get", "rmw_put"} -> "shared"
              [] me[w].pc \in {"create", "unique_get", "unique_delete"} -> w
              [] OTHER -> "life"

BodyOf(w) == CASE me[w].pc = "rmw_put" ->
                     Members(IF me[w].seen = None THEN <<>> ELSE me[w].seen.body, me[w].id)
               [] me[w].pc = "create" -> <<0>>
               [] OTHER -> <<me[w].id>>

CallOf(w) == [op   |-> IF me[w].pc = "unique_delete" \/ (me[w].pc = "life_write" /\ me[w].op = "Delete")
                       THEN "delete" ELSE "put",
              seen |-> IF me[w].pc = "create" THEN None ELSE me[w].seen,
              body |-> BodyOf(w)]

Gets == {"rmw_get", "life_get", "unique_get", "seed_get"}
Raw == {"evidence"}
Writes == {"rmw_put", "life_write", "create", "unique_delete"}

PlanOf(w) == PlanFor(CallOf(w), store[KeyOf(w)], Cap)

\* A read's answer: the consumer's view, or the raw one.
Answer(w) == LET slot == store[KeyOf(w)]
             IN  IF me[w].pc \in Raw \/ IsLive(slot) THEN slot ELSE None

(***************************************************************************)
(* The streams: where a writer goes with a result.  Each leaves faults.     *)
(***************************************************************************)

Goes(w, state) == me' = [me EXCEPT ![w] = state]
Keep == UNCHANGED <<ops, life, acked, deleted, unanswered, ids>>

\* writer: a round is a contended op and a lifecycle op; the unique keys come last.
Enter(round) ==
    CASE round <= OpsPerWriter -> [Idle("round") EXCEPT !.round = round]
      [] round > OpsPerWriter /\ round <= LifePerWriter -> [Idle("life") EXCEPT !.round = round]
      [] OTHER -> Idle("create")
NextRound(w) == Goes(w, Enter(me[w].round + 1))

StartRound(w) ==
    /\ me[w].pc = "round"
    /\ Goes(w, [me[w] EXCEPT !.pc = "rmw_get", !.id = ids.op])
    /\ ids' = [ids EXCEPT !.op = @ + 1]
    /\ UNCHANGED <<store, ops, life, acked, deleted, unanswered, faults>>

StartLife(w) ==
    /\ me[w].pc = "life"
    /\ \E op \in {"Edit", "Delete", "Recreate"} :
          Goes(w, [Idle("life_get") EXCEPT !.round = me[w].round, !.id = ids.life, !.op = op])
    /\ ids' = [ids EXCEPT !.life = @ + 1]
    /\ UNCHANGED <<store, ops, life, acked, deleted, unanswered, faults>>

RmwEnds(w, result) ==
    /\ ops' = Append(ops, [id |-> me[w].id, result |-> result])
    /\ IF me[w].round <= LifePerWriter THEN Goes(w, [me[w] EXCEPT !.pc = "life", !.tries = 0])
       ELSE NextRound(w)
    /\ UNCHANGED <<life, acked, deleted, unanswered, ids>>

RmwPut(w, outcome) ==
    CASE outcome = "Write" -> RmwEnds(w, "Committed")
      [] outcome = "Conflict" /\ me[w].retries < MaxRetries ->
            Goes(w, [me[w] EXCEPT !.pc = "rmw_get", !.retries = @ + 1, !.tries = 0]) /\ Keep
      [] outcome = "Conflict" /\ me[w].retries = MaxRetries -> RmwEnds(w, "Conflict")
      [] OTHER -> RmwEnds(w, "Failed")

Base(w) == IF me[w].op = "Recreate" \/ me[w].seen = None THEN None ELSE me[w].seen.revision

\* The seed goes on from its recreation to an edit, and from its edit to a delete on
\* the record it had read before the edit.
AfterLife(w, result) ==
    IF w # "seed" THEN NextRound(w) /\ UNCHANGED ids
    ELSE CASE me[w].op = "Recreate" /\ result = "Committed" ->
                 Goes(w, [me[w] EXCEPT !.pc = "seed_get", !.op = "Edit", !.tries = 0]) /\ UNCHANGED ids
           [] me[w].op = "Edit" ->
                 /\ Goes(w, [me[w] EXCEPT !.pc = "life_write", !.op = "Delete", !.id = ids.life, !.tries = 0])
                 /\ ids' = [ids EXCEPT !.life = @ + 1]
           [] OTHER -> Goes(w, Idle("done")) /\ UNCHANGED ids

LifeEnds(w, result, wrote) ==
    /\ life' = life \cup {[id |-> me[w].id, op |-> me[w].op, result |-> result,
                           base |-> Base(w), wrote |-> wrote]}
    /\ AfterLife(w, result)
    /\ UNCHANGED <<ops, acked, deleted, unanswered>>

LifeRead(w, seen) ==
    IF (me[w].op = "Recreate") = (seen = None)
    THEN Goes(w, [me[w] EXCEPT !.pc = "life_write", !.seen = seen, !.tries = 0]) /\ Keep
    ELSE LifeEnds(w, "Skipped", None)

\* delete_write_evidence: whether the tombstone now there was written on the base.
Evidence(w, slot) ==
    IF slot = None \/ IsLive(slot) THEN None ELSE slot.parent = Base(w)

LifeWrite(w, outcome) ==
    CASE me[w].op = "Delete" /\ outcome \in {"Write", "Noop"} ->
            Goes(w, [me[w] EXCEPT !.pc = "evidence", !.tries = 0]) /\ Keep
      [] me[w].op # "Delete" /\ outcome = "Write" -> LifeEnds(w, "Committed", None)
      [] outcome \in {"Conflict", "NotFound"} -> LifeEnds(w, "Conflict", None)
      [] OTHER -> LifeEnds(w, "Failed", None)

\* seed_delete_conflict's reads: the first leads to a recreation where life-0 is not
\* live, and either to the edit of what was read.
SeedRead(seen) ==
    LET s == me["seed"]
        goOn == s.op = "Recreate" \/ seen # None
    IN  /\ Goes("seed", IF goOn THEN [s EXCEPT !.pc = "life_write", !.seen = seen, !.id = ids.life,
                                               !.op = IF seen = None THEN @ ELSE "Edit", !.tries = 0]
                        ELSE Idle("done"))
        /\ ids' = IF goOn THEN [ids EXCEPT !.life = @ + 1] ELSE ids
        /\ UNCHANGED <<ops, life, acked, deleted, unanswered>>

Finish(w) == Goes(w, Idle("done"))

CreateEnds(w, committed) ==
    /\ acked' = IF committed THEN acked \cup {w} ELSE acked
    /\ IF committed THEN Goes(w, Idle("unique_get")) ELSE Finish(w)
    /\ UNCHANGED <<ops, life, deleted, unanswered, ids>>

DeleteEnds(w, done) ==
    /\ deleted' = IF done THEN deleted \cup {w} ELSE deleted
    /\ Finish(w)
    /\ UNCHANGED <<ops, life, acked, unanswered, ids>>

DeleteUnanswered(w) ==
    /\ unanswered' = unanswered \cup {w}
    /\ Finish(w)
    /\ UNCHANGED <<ops, life, acked, deleted, ids>>

\* What an answer, or no answer from any replica, leads to.
OnRead(w, seen) ==
    CASE me[w].pc = "rmw_get"    -> Goes(w, [me[w] EXCEPT !.pc = "rmw_put", !.seen = seen, !.tries = 0]) /\ Keep
      [] me[w].pc = "life_get"   -> LifeRead(w, seen)
      [] me[w].pc = "seed_get"   -> SeedRead(seen)
      [] me[w].pc = "evidence"   -> LifeEnds(w, "Committed", Evidence(w, seen))
      [] me[w].pc = "unique_get" -> IF seen = None THEN DeleteEnds(w, FALSE)
                                    ELSE Goes(w, [me[w] EXCEPT !.pc = "unique_delete", !.seen = seen, !.tries = 0]) /\ Keep

OnWrite(w, outcome) ==
    CASE me[w].pc = "rmw_put"       -> RmwPut(w, outcome)
      [] me[w].pc = "life_write"    -> LifeWrite(w, outcome)
      [] me[w].pc = "create"        -> CreateEnds(w, outcome = "Write")
      [] me[w].pc = "unique_delete" -> DeleteEnds(w, outcome \in {"Write", "Noop"})

OnError(w) ==
    CASE me[w].pc \in {"rmw_get", "rmw_put"} -> RmwEnds(w, "Failed")
      [] me[w].pc \in {"life_get", "life_write"} -> LifeEnds(w, "Failed", None)
      [] me[w].pc = "evidence"      -> LifeEnds(w, "Committed", None)
      [] me[w].pc = "seed_get"      -> Finish(w) /\ Keep
      [] me[w].pc = "create"        -> CreateEnds(w, FALSE)
      [] me[w].pc = "unique_get"    -> DeleteEnds(w, FALSE)
      [] me[w].pc = "unique_delete" -> DeleteUnanswered(w)

(***************************************************************************)
(* with_failover                                                           *)
(***************************************************************************)

ReadCall(w) ==
    /\ me[w].pc \in Gets \cup Raw
    /\ OnRead(w, Answer(w))
    /\ UNCHANGED <<store, faults>>

WriteCall(w) ==
    /\ me[w].pc \in Writes
    /\ store' = [store EXCEPT ![KeyOf(w)] = Apply(@, PlanOf(w))]
    /\ OnWrite(w, PlanOf(w).outcome)
    /\ UNCHANGED faults

\* A replica fails, before or after it has carried the call out; the next one is
\* asked the same, until all have failed.
Fail(w) ==
    /\ me[w].pc \in Gets \cup Raw \cup Writes
    /\ faults < MaxFaults /\ faults' = faults + 1
    /\ \/ UNCHANGED store
       \/ me[w].pc \in Writes /\ store' = [store EXCEPT ![KeyOf(w)] = Apply(@, PlanOf(w))]
    /\ IF me[w].tries + 1 < Replicas THEN Goes(w, [me[w] EXCEPT !.tries = @ + 1]) /\ Keep
       ELSE OnError(w)

Spawn == /\ me["seed"].pc = "done"
         /\ \E w \in Writers : me[w].pc = "waits"
         /\ me' = [w \in DOMAIN me |-> IF w = "seed" THEN me[w] ELSE Enter(1)]
         /\ UNCHANGED <<store, ops, life, acked, deleted, unanswered, ids, faults>>

Step(w) == StartRound(w) \/ StartLife(w) \/ ReadCall(w) \/ WriteCall(w) \/ Fail(w)

Next == Spawn \/ \E w \in Writers \cup {"seed"} : Step(w)

Spec == Init /\ [][Next]_vars

(***************************************************************************)
(* check: the oracle, on the reads after the writers have stopped and every  *)
(* replica is live again                                                   *)
(***************************************************************************)

Done == \A w \in Writers : me[w].pc = "done"
Final(key) == IF IsLive(store[key]) THEN store[key].body ELSE <<>>
CommittedIds == {o.id : o \in {p \in ToSet(ops) : p.result = "Committed"}}

LostUpdate == CommittedIds \ ToSet(Final("shared")) # {}
DuplicateUpdate == Cardinality(ToSet(Final("shared"))) < Len(Final("shared"))
UniqueWriteLost == \E w \in acked \ deleted : ~IsLive(store[w])
AckedDeleteLost == \E w \in deleted : store[w] = None \/ IsLive(store[w])

\* Two edits, or an edit and a delete known to have written, committed on one base.
StaleBaseCommitted ==
    \E x, y \in {r \in life : r.result = "Committed" /\ r.base # None} :
        /\ x.id # y.id /\ x.base = y.base
        /\ x.op = "Edit"
        /\ \/ y.op = "Edit"
           \/ y.op = "Delete" /\ y.wrote = TRUE

LifecycleKeyVanished ==
    store["life"] = None /\ \E r \in life : r.result = "Committed"

Alarm == \/ LostUpdate \/ DuplicateUpdate \/ UniqueWriteLost \/ AckedDeleteLost
         \/ StaleBaseCommitted \/ LifecycleKeyVanished

(***************************************************************************)
(* Properties                                                              *)
(***************************************************************************)

\* The oracle raises no alarm over a store that plans every write correctly, however
\* the writers interleave and whichever answers are lost to failing replicas: a
\* resent write is never counted as a lost, repeated or stale one.  The one thing it
\* cannot tell is a unique key's delete that every replica failed to answer.
OracleIsSilent == Done /\ unanswered = {} => ~Alarm
=============================================================================
