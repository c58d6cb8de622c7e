---------------------------- MODULE ParsePoolProofs ----------------------------
(***************************************************************************)
(* Proofs about the pool of parse workers: for any number of calls, slots    *)
(* and faults, a parse returns the graph of its own source, and reports a    *)
(* dead worker or a garbled answer only after it lost two workers.           *)
(***************************************************************************)
EXTENDS ParsePool, TLAPS

(***************************************************************************)
(* The inductive invariant                                                 *)
(***************************************************************************)

Worker == [state : {"running", "hung", "dead"}, inbox : Seq(Callers),
           outbox : Seq(Callers \cup {"garbled"})]
Call == [pc : {"out", "spawn", "send", "read", "done"}, idx : Slots \cup {None}, tries : {0, 1},
         result : {None, "Ok", "Spawn", "WorkerDied", "Protocol", "Timeout"},
         graph : Callers \cup {None, "garbled"}]

TypeOK ==
    /\ next \in Nat /\ faults \in Nat
    /\ slot \in [Slots -> Worker \cup {None}]
    /\ queue \in [Slots -> Seq(Callers)]
    /\ call \in [Callers -> Call]

\* The calls that are past the lock: those that use a worker, or try a second one.
Uses(me) == me.pc \in {"send", "read"}
Retries(me) == me.pc = "spawn" /\ me.tries = 1
Holding(me) == Uses(me) \/ Retries(me)
Reads(me, i) == me.pc = "read" /\ me.idx = i
Lost(w) == w.state = "dead" \/ (w.outbox # <<>> /\ Head(w.outbox) = "garbled")

\* Nothing is asked of a worker and nothing answered; or one request of c is under way,
\* answered, answered by garbage, or lost with the worker.
Quiet(w) == w.inbox = <<>> /\ w.outbox = <<>>
Serves(w, c) == \/ w.inbox = <<c>> /\ w.outbox = <<>>
                \/ w.inbox = <<>> /\ w.outbox \in {<<c>>, <<"garbled">>}
                \/ Quiet(w) /\ w.state = "dead"

OutIsFresh == \A c \in Callers : /\ call[c].pc = "out" => call[c].tries = 0
                                 /\ call[c].pc # "out" => call[c].idx \in Slots
HoldersAreFirst ==
    \A c \in Callers : Holding(call[c]) =>
        queue[call[c].idx] # <<>> /\ Head(queue[call[c].idx]) = c
UsersHaveWorkers == \A c \in Callers : Uses(call[c]) => slot[call[c].idx] # None
RetriesStartAnew == \A c \in Callers : Retries(call[c]) => slot[call[c].idx] = None

\* The worker of a slot answers the one call that reads from it, and no other.
WorkersAreClean ==
    \A i \in Slots : slot[i] # None =>
        /\ (\A c \in Callers : ~Reads(call[c], i)) => Quiet(slot[i])
        /\ \A c \in Callers : Reads(call[c], i) => Serves(slot[i], c)

\* Every worker that is lost took a fault of its own.
LossesCost ==
    /\ \A i \in Slots : slot[i] # None /\ Lost(slot[i]) => faults >= 1
    /\ \A c \in Callers : Holding(call[c]) /\ call[c].tries = 1 => faults >= 1
    /\ \A c \in Callers : Uses(call[c]) /\ call[c].tries = 1 /\ Lost(slot[call[c].idx]) => faults >= 2

IndInv == /\ TypeOK /\ OutIsFresh /\ HoldersAreFirst /\ UsersHaveWorkers /\ RetriesStartAnew
          /\ WorkersAreClean /\ LossesCost /\ ParsesAreTrue

(***************************************************************************)
(* Lemmas                                                                  *)
(***************************************************************************)

\* What one request and one answer leave in a pipe.
LEMMA OneLine ==
    ASSUME NEW S, NEW x \in S
    PROVE  /\ Append(<<>>, x) = <<x>> /\ Tail(<<x>>) = <<>> /\ Head(<<x>>) = x
           /\ <<x>> # <<>> /\ <<x>> \in Seq(S) /\ <<>> \in Seq(S)
<1>1. <<x>> \in Seq(S) /\ <<>> \in Seq(S) /\ Head(<<x>>) = x /\ <<x>> # <<>>
  OBVIOUS
<1>2. Append(<<>>, x) = <<x>>
  OBVIOUS
<1>3. Tail(<<x>>) = <<>>
  OBVIOUS
<1> QED
  BY <1>1, <1>2, <1>3

\* An empty pipe.
LEMMA NoLine == <<>> \in Seq(Callers) /\ <<>> \in Seq(Callers \cup {"garbled"})
  OBVIOUS

\* At most one call is past the lock of a slot.
LEMMA OneHolder ==
    ASSUME HoldersAreFirst, NEW i, NEW c \in Callers, Head(queue[i]) = c,
           NEW d \in Callers, Holding(call[d]), call[d].idx = i
    PROVE  d = c
  BY DEF HoldersAreFirst

\* A call that holds its slot moves: its own record, its worker and its queue change, and
\* what it says of itself is enough.
LEMMA CallStep ==
    ASSUME IndInv, NEW c \in Callers, NEW i \in Slots, call[c].idx = i, call[c].pc # "out",
           queue[i] # <<>>, Head(queue[i]) = c,
           NEW me \in Call, me.idx = i, me.pc # "out",
           NEW w \in Worker \cup {None}, NEW q \in Seq(Callers),
           call' = [call EXCEPT ![c] = me], slot' = [slot EXCEPT ![i] = w],
           queue' = [queue EXCEPT ![i] = q], next' = next,
           faults' \in Nat, faults' >= faults,
           Holding(me) => q # <<>> /\ Head(q) = c,
           Uses(me) => w # None, Retries(me) => w = None,
           w # None => (IF me.pc = "read" THEN Serves(w, c) ELSE Quiet(w)),
           w # None /\ Lost(w) => faults' >= 1,
           Holding(me) /\ me.tries = 1 => faults' >= 1,
           Uses(me) /\ me.tries = 1 /\ Lost(w) => faults' >= 2,
           me.result = "Ok" => me.graph = c,
           me.result \in {"WorkerDied", "Protocol"} => faults' >= 2
    PROVE  IndInv'
<1> USE DEF IndInv
<1>1. TypeOK'
  BY DEF TypeOK
<1>2. /\ \A d \in Callers : call'[d] = IF d = c THEN me ELSE call[d]
      /\ \A j \in Slots : /\ slot'[j] = (IF j = i THEN w ELSE slot[j])
                          /\ queue'[j] = (IF j = i THEN q ELSE queue[j])
  BY DEF TypeOK
<1>3. \A d \in Callers : Holding(call[d]) /\ d # c => call[d].idx \in Slots /\ call[d].idx # i
  BY OneHolder DEF OutIsFresh, Holding, Uses, Retries
<1>4. OutIsFresh'
  BY <1>2 DEF OutIsFresh
<1>5. HoldersAreFirst'
  BY <1>2, <1>3 DEF HoldersAreFirst
<1>6. UsersHaveWorkers' /\ RetriesStartAnew'
  BY <1>2, <1>3 DEF UsersHaveWorkers, RetriesStartAnew, Holding
<1>7. WorkersAreClean'
  <2> SUFFICES ASSUME NEW j \in Slots, slot'[j] # None
               PROVE  /\ (\A d \in Callers : ~Reads(call'[d], j)) => Quiet(slot'[j])
                      /\ \A d \in Callers : Reads(call'[d], j) => Serves(slot'[j], d)
    BY DEF WorkersAreClean, Reads, Quiet, Serves
  <2>1. CASE j = i
    <3>1. \A d \in Callers : Reads(call'[d], i) => d = c
      BY <1>2, <1>3 DEF Reads, Holding, Uses
    <3>2. Reads(call'[c], i) <=> me.pc = "read"
      BY <1>2 DEF Reads
    <3> QED
      BY <1>2, <2>1, <3>1, <3>2
  <2>2. CASE j # i
    <3>1. \A d \in Callers : Reads(call'[d], j) <=> Reads(call[d], j)
      BY <1>2, <2>2 DEF Reads
    <3> QED
      BY <1>2, <2>2, <3>1 DEF WorkersAreClean
  <2> QED
    BY <2>1, <2>2
<1>8. LossesCost'
  <2>1. faults \in Nat
    BY DEF TypeOK
  <2>2. \A j \in Slots : slot'[j] # None /\ Lost(slot'[j]) => faults' >= 1
    BY <1>2, <2>1 DEF LossesCost
  <2>3. \A d \in Callers : Holding(call'[d]) /\ call'[d].tries = 1 => faults' >= 1
    BY <1>2, <2>1 DEF LossesCost
  <2>4. \A d \in Callers : Uses(call'[d]) /\ call'[d].tries = 1 /\ Lost(slot'[call'[d].idx])
                               => faults' >= 2
    BY <1>2, <1>3, <2>1 DEF LossesCost, Holding
  <2> QED
    BY <2>2, <2>3, <2>4 DEF LossesCost, Lost, Holding, Uses, Retries
<1>9. ParsesAreTrue'
  <2>1. faults \in Nat
    BY DEF TypeOK
  <2> QED
    BY <1>2, <2>1 DEF ParsesAreTrue, AnswersOwnRequest, OneDeathIsSurvived
<1> QED
  BY <1>1, <1>4, <1>5, <1>6, <1>7, <1>8, <1>9

\* A worker moves: it serves whom it served, and is lost only by a fault.
LEMMA WorkerStep ==
    ASSUME IndInv, NEW i \in Slots, NEW w \in Worker, w # None, slot[i] # None,
           slot' = [slot EXCEPT ![i] = w], UNCHANGED <<next, queue, call>>,
           faults' \in Nat, faults' >= faults,
           Quiet(slot[i]) => Quiet(w),
           \A c \in Callers : Serves(slot[i], c) => Serves(w, c),
           Lost(w) => Lost(slot[i]) \/ faults' = faults + 1
    PROVE  IndInv'
<1> USE DEF IndInv
<1>1. TypeOK'
  BY DEF TypeOK
<1>2. /\ \A j \in Slots : slot'[j] = IF j = i THEN w ELSE slot[j]
      /\ call' = call /\ queue' = queue /\ faults \in Nat
  BY DEF TypeOK
<1>3. OutIsFresh' /\ HoldersAreFirst'
  BY <1>2 DEF OutIsFresh, HoldersAreFirst, Holding, Uses, Retries
<1>4. \A c \in Callers : Uses(call[c]) \/ Retries(call[c]) => call[c].idx \in Slots
  BY DEF OutIsFresh, Uses, Retries
<1>5. UsersHaveWorkers' /\ RetriesStartAnew'
  BY <1>2, <1>4 DEF UsersHaveWorkers, RetriesStartAnew, Uses, Retries
<1>6. WorkersAreClean'
  <2> SUFFICES ASSUME NEW j \in Slots, slot'[j] # None
               PROVE  /\ (\A d \in Callers : ~Reads(call[d], j)) => Quiet(slot'[j])
                      /\ \A d \in Callers : Reads(call[d], j) => Serves(slot'[j], d)
    BY <1>2 DEF WorkersAreClean, Reads, Quiet, Serves
  <2> QED
    BY <1>2 DEF WorkersAreClean
<1>7. LossesCost'
  <2>2. \A j \in Slots : slot'[j] # None /\ Lost(slot'[j]) => faults' >= 1
    BY <1>2 DEF LossesCost
  <2>3. \A d \in Callers : Holding(call[d]) /\ call[d].tries = 1 => faults' >= 1
    BY <1>2 DEF LossesCost
  <2>4. \A d \in Callers : Uses(call[d]) /\ call[d].tries = 1 /\ Lost(slot'[call[d].idx])
                               => faults' >= 2
    <3> SUFFICES ASSUME NEW d \in Callers, Uses(call[d]), call[d].tries = 1,
                        Lost(slot'[call[d].idx])
                 PROVE  faults' >= 2
      OBVIOUS
    <3>1. faults >= 1
      BY DEF LossesCost, Holding
    <3>2. CASE call[d].idx = i
      BY <1>2, <3>1, <3>2 DEF LossesCost
    <3>3. CASE call[d].idx # i
      BY <1>2, <1>4, <3>3 DEF LossesCost
    <3> QED
      BY <3>2, <3>3
  <2> QED
    BY <1>2, <2>2, <2>3, <2>4 DEF LossesCost, Lost, Holding, Uses, Retries
<1>8. ParsesAreTrue'
  BY <1>2 DEF ParsesAreTrue, AnswersOwnRequest, OneDeathIsSurvived
<1> QED
  BY <1>1, <1>3, <1>5, <1>6, <1>7, <1>8

\* A call returns: it lets go of its slot and keeps its answer.
LEMMA ReturnStep ==
    ASSUME PoolAssumption, IndInv, NEW c \in Callers, call[c].pc \notin {"out", "done"},
           queue[call[c].idx] # <<>>, Head(queue[call[c].idx]) = c,
           NEW result \in {"Ok", "Spawn", "WorkerDied", "Protocol", "Timeout"},
           NEW graph \in Callers \cup {None}, Return(c, result, graph),
           NEW w \in Worker \cup {None}, slot' = [slot EXCEPT ![call[c].idx] = w],
           w # None => Quiet(w) /\ (Lost(w) => faults' >= 1),
           next' = next, faults' \in Nat, faults' >= faults,
           result = "Ok" => graph = c,
           result \in {"WorkerDied", "Protocol"} => faults' >= 2
    PROVE  IndInv'
<1> DEFINE me == [call[c] EXCEPT !.pc = "done", !.result = result, !.graph = graph]
           i == call[c].idx
<1>1. call[c] \in Call /\ i \in Slots /\ queue \in [Slots -> Seq(Callers)]
      /\ call \in [Callers -> Call]
  BY DEF IndInv, TypeOK, OutIsFresh
<1>2. me \in Call
  BY <1>1 DEF Call
<1>3. me.pc = "done" /\ me.idx = i /\ me.result = result /\ me.graph = graph
  BY <1>1 DEF Call
<1>4. call' = [call EXCEPT ![c] = me]
  BY <1>1 DEF Return, Call
<1>5. queue' = [queue EXCEPT ![i] = Tail(queue[i])] /\ Tail(queue[i]) \in Seq(Callers)
  BY <1>1 DEF Return
<1> HIDE DEF me
<1> QED
  BY <1>1, <1>2, <1>3, <1>4, <1>5, CallStep DEF Holding, Uses, Retries

\* A worker is lost: a second one is tried, or the call reports it.
LEMMA DiedStep ==
    ASSUME PoolAssumption, IndInv, NEW c \in Callers, Uses(call[c]),
           Lost(slot[call[c].idx]), NEW error \in {"WorkerDied", "Protocol"},
           Died(c, error), UNCHANGED <<next, faults>>
    PROVE  IndInv'
<1> DEFINE i == call[c].idx
<1>1. /\ call[c] \in Call /\ i \in Slots /\ queue \in [Slots -> Seq(Callers)]
      /\ call \in [Callers -> Call] /\ faults \in Nat
  BY DEF IndInv, TypeOK, OutIsFresh, Uses
<1>2. queue[i] # <<>> /\ Head(queue[i]) = c /\ slot[i] # None
  BY DEF IndInv, HoldersAreFirst, UsersHaveWorkers, Holding
<1>3. faults >= 1 /\ (call[c].tries = 1 => faults >= 2)
  BY <1>1, <1>2 DEF IndInv, LossesCost
<1>4. /\ faults' = faults /\ next' = next /\ faults' \in Nat /\ faults' >= faults
      /\ faults' >= 1 /\ (call[c].tries = 1 => faults' >= 2) /\ None \in Worker \cup {None}
  BY <1>1, <1>3
<1>5. CASE call[c].tries = 0
  <2> DEFINE me == [call[c] EXCEPT !.pc = "spawn", !.tries = 1]
  <2>1. me \in Call
    BY <1>1 DEF Call
  <2>2. /\ me.pc = "spawn" /\ me.tries = 1 /\ me.idx = i
        /\ me.result = call[c].result /\ me.graph = call[c].graph
    BY <1>1 DEF Call
  <2>3. call' = [call EXCEPT ![c] = me]
    BY <1>1, <1>5 DEF Died, Call
  <2>4. queue' = [queue EXCEPT ![i] = queue[i]] /\ slot' = [slot EXCEPT ![i] = None]
    BY <1>1, <1>5 DEF Died
  <2>5. /\ me.result = "Ok" => me.graph = c
        /\ me.result \in {"WorkerDied", "Protocol"} => faults >= 2
    BY <2>2 DEF IndInv, ParsesAreTrue, AnswersOwnRequest, OneDeathIsSurvived
  <2> HIDE DEF me
  <2> QED
    BY <1>4, <1>1, <1>2, <2>1, <2>2, <2>3, <2>4, <2>5, CallStep DEF Holding, Uses, Retries
<1>6. CASE call[c].tries # 0
  <2>1. call[c].tries = 1
    BY <1>1, <1>6 DEF Call
  <2> QED
    <3>1. Return(c, error, None) /\ slot' = [slot EXCEPT ![i] = None]
      BY <1>6 DEF Died
    <3>2. call[c].pc \notin {"out", "done"}
      BY DEF Uses
    <3> QED
      BY <1>4, <1>1, <1>2, <2>1, <3>1, <3>2, ReturnStep
<1> QED
  BY <1>5, <1>6

\* The pool starts with no worker and no call.
LEMMA InitInv == PoolAssumption /\ Init => IndInv
<1> SUFFICES ASSUME PoolAssumption, Init PROVE IndInv
  OBVIOUS
<1>1. 0 \in Nat /\ Waiting \in Call /\ \A c \in Callers : call[c] = Waiting
  BY DEF Init, Waiting, Call
<1>2. TypeOK
  BY <1>1 DEF Init, TypeOK
<1>3. \A c \in Callers : /\ call[c].pc = "out" /\ call[c].tries = 0
                         /\ call[c].result = None
  BY <1>1 DEF Waiting
<1>4. \A i \in Slots : slot[i] = None
  BY DEF Init
<1> QED
  BY <1>2, <1>3, <1>4 DEF IndInv, OutIsFresh, HoldersAreFirst, UsersHaveWorkers, RetriesStartAnew,
     WorkersAreClean, LossesCost, ParsesAreTrue, AnswersOwnRequest, OneDeathIsSurvived,
     Holding, Uses, Retries, PoolAssumption

\* parse picks a slot and waits for its lock: the holder stays the first.
LEMMA EnterStep ==
    ASSUME PoolAssumption, IndInv, NEW c \in Callers, Enter(c)
    PROVE  IndInv'
<1> DEFINE i == next % (IF Size > 1 THEN Size ELSE 1)
           me == [call[c] EXCEPT !.pc = "spawn", !.idx = i]
<1> USE DEF IndInv
<1>1. i \in Slots
  BY DEF TypeOK, Slots, PoolAssumption
<1>2. /\ call[c] \in Call /\ call[c].pc = "out" /\ call[c].tries = 0
      /\ queue \in [Slots -> Seq(Callers)] /\ call \in [Callers -> Call]
  BY DEF TypeOK, OutIsFresh, Enter
<1>3. me \in Call
  BY <1>1, <1>2 DEF Call
<1>4. /\ me.pc = "spawn" /\ me.tries = 0 /\ me.idx = i
      /\ me.result = call[c].result /\ me.graph = call[c].graph
  BY <1>2 DEF Call
<1>5. call' = [call EXCEPT ![c] = me] /\ queue' = [queue EXCEPT ![i] = Append(queue[i], c)]
  BY <1>1, <1>2 DEF Enter, Call
<1> HIDE DEF me, i
<1>6. /\ \A d \in Callers : call'[d] = IF d = c THEN me ELSE call[d]
      /\ slot' = slot /\ faults' = faults /\ next' = next + 1
  BY <1>1, <1>2, <1>5 DEF Enter
<1>7. \A j \in Slots : queue[j] # <<>> => queue'[j] # <<>> /\ Head(queue'[j]) = Head(queue[j])
  <2>1. \A s \in Seq(Callers) : s # <<>> => Append(s, c) # <<>> /\ Head(Append(s, c)) = Head(s)
    OBVIOUS
  <2>2. \A j \in Slots : queue'[j] = IF j = i THEN Append(queue[j], c) ELSE queue[j]
    BY <1>1, <1>2, <1>5
  <2>3. \A j \in Slots : queue[j] \in Seq(Callers)
    BY <1>2
  <2> QED
    BY <2>1, <2>2, <2>3
<1>8. TypeOK'
  BY <1>1, <1>2, <1>3, <1>5, <1>6 DEF TypeOK
<1>9. ~Holding(me) /\ ~Holding(call[c]) /\ \A j : ~Reads(me, j) /\ ~Reads(call[c], j)
  BY <1>2, <1>4 DEF Holding, Uses, Retries, Reads
<1>10. OutIsFresh'
  BY <1>1, <1>2, <1>4, <1>6 DEF OutIsFresh
<1>11. HoldersAreFirst'
  BY <1>6, <1>7, <1>9 DEF HoldersAreFirst, OutIsFresh, Holding, Uses, Retries
<1>12. UsersHaveWorkers' /\ RetriesStartAnew'
  BY <1>6, <1>9 DEF UsersHaveWorkers, RetriesStartAnew, Holding
<1>13. WorkersAreClean'
  <2>1. \A d \in Callers, j \in Slots : Reads(call'[d], j) <=> Reads(call[d], j)
    BY <1>6, <1>9
  <2> QED
    BY <1>6, <2>1 DEF WorkersAreClean, Reads
<1>14. LossesCost'
  BY <1>6, <1>9 DEF LossesCost, Holding
<1>15. ParsesAreTrue'
  BY <1>4, <1>6 DEF ParsesAreTrue, AnswersOwnRequest, OneDeathIsSurvived
<1> QED
  BY <1>8, <1>10, <1>11, <1>12, <1>13, <1>14, <1>15

\* The loop's first half: the worker that is there is quiet, and a new one is.
LEMMA SpawnStep ==
    ASSUME PoolAssumption, IndInv, NEW c \in Callers, Spawn(c)
    PROVE  IndInv'
<1> DEFINE i == call[c].idx
<1>1. /\ call[c] \in Call /\ i \in Slots /\ queue \in [Slots -> Seq(Callers)]
      /\ call \in [Callers -> Call] /\ faults \in Nat /\ slot \in [Slots -> Worker \cup {None}]
      /\ call[c].pc = "spawn" /\ queue[i] # <<>> /\ Head(queue[i]) = c
  BY DEF IndInv, TypeOK, OutIsFresh, Spawn, Holds
<1>2. CASE /\ slot' = [slot EXCEPT ![i] = IF @ = None THEN Fresh ELSE @]
           /\ call' = [call EXCEPT ![c].pc = "send"]
           /\ UNCHANGED <<next, queue, faults>>
  <2> DEFINE me == [call[c] EXCEPT !.pc = "send"]
             w == IF slot[i] = None THEN Fresh ELSE slot[i]
  <2>1. me \in Call
    BY <1>1 DEF Call
  <2>2. /\ me.pc = "send" /\ me.tries = call[c].tries /\ me.idx = i
        /\ me.result = call[c].result /\ me.graph = call[c].graph
    BY <1>1 DEF Call
  <2>3. Fresh \in Worker /\ Fresh # None /\ Quiet(Fresh) /\ ~Lost(Fresh)
    <3>1. Fresh \in Worker
      BY NoLine DEF Fresh, Worker
    <3>2. Fresh # None
      BY <3>1 DEF Worker, PoolAssumption
    <3>3. Quiet(Fresh) /\ ~Lost(Fresh)
      BY DEF Fresh, Quiet, Lost
    <3> QED
      BY <3>1, <3>2, <3>3
  <2>4. slot[i] # None => Quiet(slot[i]) /\ (Lost(slot[i]) => faults >= 1)
    <3>1. ASSUME NEW d \in Callers, Reads(call[d], i) PROVE FALSE
      BY <1>1, <3>1, OneHolder DEF IndInv, Reads, Holding, Uses
    <3> QED
      BY <1>1, <3>1 DEF IndInv, WorkersAreClean, LossesCost
  <2>5. w \in Worker \cup {None} /\ w # None /\ Quiet(w) /\ (Lost(w) => faults >= 1)
    BY <1>1, <2>3, <2>4
  <2>6. me.tries = 1 => w = Fresh /\ faults >= 1
    BY <1>1, <2>2 DEF IndInv, RetriesStartAnew, LossesCost, Holding, Retries
  <2>7. /\ me.result = "Ok" => me.graph = c
        /\ me.result \in {"WorkerDied", "Protocol"} => faults >= 2
    BY <2>2 DEF IndInv, ParsesAreTrue, AnswersOwnRequest, OneDeathIsSurvived
  <2>8. /\ call' = [call EXCEPT ![c] = me] /\ slot' = [slot EXCEPT ![i] = w]
        /\ queue' = [queue EXCEPT ![i] = queue[i]] /\ queue[i] \in Seq(Callers)
        /\ next' = next /\ faults' = faults /\ faults' \in Nat /\ faults' >= faults
    BY <1>1, <1>2
  <2> HIDE DEF me, w
  <2> QED
    BY <1>1, <2>1, <2>2, <2>3, <2>5, <2>6, <2>7, <2>8, CallStep DEF Holding, Uses, Retries
<1>3. CASE /\ slot[i] = None /\ faults < MaxFaults
           /\ Return(c, "Spawn", None) /\ faults' = faults + 1
           /\ UNCHANGED <<next, slot>>
  <2>1. /\ slot' = [slot EXCEPT ![i] = None] /\ None \in Worker \cup {None}
        /\ next' = next /\ faults' \in Nat /\ faults' >= faults
    BY <1>1, <1>3
  <2>2. /\ call[c].pc \notin {"out", "done"} /\ queue[i] # <<>> /\ Head(queue[i]) = c
        /\ Return(c, "Spawn", None) /\ None \in Callers \cup {None}
    BY <1>1, <1>3
  <2> QED
    BY ONLY PoolAssumption, IndInv, <2>1, <2>2, ReturnStep
<1> QED
  BY <1>2, <1>3 DEF Spawn

\* roundtrip writes the request to a quiet worker, or finds it dead.
LEMMA SendStep ==
    ASSUME PoolAssumption, IndInv, NEW c \in Callers, Send(c)
    PROVE  IndInv'
<1> DEFINE i == call[c].idx
<1>1. /\ call[c] \in Call /\ i \in Slots /\ queue \in [Slots -> Seq(Callers)]
      /\ call \in [Callers -> Call] /\ faults \in Nat /\ slot \in [Slots -> Worker \cup {None}]
      /\ call[c].pc = "send" /\ Uses(call[c]) /\ Holding(call[c])
  BY DEF IndInv, TypeOK, OutIsFresh, Send, Uses, Holding
<1>2. queue[i] # <<>> /\ Head(queue[i]) = c /\ slot[i] # None /\ slot[i] \in Worker
  BY <1>1 DEF IndInv, HoldersAreFirst, UsersHaveWorkers
<1>3. CASE /\ slot[i].state # "dead"
           /\ slot' = [slot EXCEPT ![i].inbox = Append(@, c)]
           /\ call' = [call EXCEPT ![c].pc = "read"]
           /\ UNCHANGED queue
  <2> DEFINE me == [call[c] EXCEPT !.pc = "read"]
             w == [slot[i] EXCEPT !.inbox = <<c>>]
  <2>1. me \in Call
    BY <1>1 DEF Call
  <2>2. /\ me.pc = "read" /\ me.tries = call[c].tries /\ me.idx = i
        /\ me.result = call[c].result /\ me.graph = call[c].graph
    BY <1>1 DEF Call
  <2>3. Quiet(slot[i])
    <3>1. ASSUME NEW d \in Callers, Reads(call[d], i) PROVE FALSE
      BY <1>1, <1>2, <3>1, OneHolder DEF IndInv, Reads, Holding, Uses
    <3> QED
      BY <1>1, <1>2, <3>1 DEF IndInv, WorkersAreClean
  <2>4. w \in Worker
    BY <1>2, OneLine DEF Worker
  <2>5. w # None
    BY <2>4 DEF Worker, PoolAssumption
  <2>6. w.inbox = <<c>> /\ w.outbox = <<>> /\ w.state = slot[i].state
    BY <1>2, <2>3 DEF Worker, Quiet
  <2>7. Serves(w, c) /\ ~Lost(w)
    BY <1>3, <2>6 DEF Serves, Lost
  <2>8. me.tries = 1 => faults >= 1
    BY <1>1, <2>2 DEF IndInv, LossesCost
  <2>9. /\ me.result = "Ok" => me.graph = c
        /\ me.result \in {"WorkerDied", "Protocol"} => faults >= 2
    BY <2>2 DEF IndInv, ParsesAreTrue, AnswersOwnRequest, OneDeathIsSurvived
  <2>10. slot' = [slot EXCEPT ![i] = w]
    BY <1>1, <1>3, <2>3, OneLine DEF Quiet
  <2>11. /\ call' = [call EXCEPT ![c] = me]
         /\ queue' = [queue EXCEPT ![i] = queue[i]] /\ queue[i] \in Seq(Callers)
         /\ next' = next /\ faults' = faults /\ faults' \in Nat /\ faults' >= faults
    BY <1>1, <1>3 DEF Send
  <2> HIDE DEF me, w
  <2> QED
    BY <1>1, <1>2, <2>1, <2>2, <2>4, <2>5, <2>7, <2>8, <2>9, <2>10, <2>11, CallStep
    DEF Holding, Uses, Retries
<1>4. CASE slot[i].state = "dead" /\ Died(c, "WorkerDied")
  <2>1. Lost(slot[i]) /\ UNCHANGED <<next, faults>>
    BY <1>4 DEF Lost, Send
  <2> QED
    BY <1>1, <1>4, <2>1, DiedStep
<1> QED
  BY <1>3, <1>4 DEF Send

\* roundtrip reads one line: the answer to its own request, or the end of the worker.
LEMMA ReadStep ==
    ASSUME PoolAssumption, IndInv, NEW c \in Callers, Read(c)
    PROVE  IndInv'
<1> DEFINE i == call[c].idx
<1>1. /\ call[c] \in Call /\ i \in Slots /\ faults \in Nat
      /\ slot \in [Slots -> Worker \cup {None}]
      /\ call[c].pc = "read" /\ Uses(call[c]) /\ Holding(call[c]) /\ Reads(call[c], i)
      /\ UNCHANGED <<next, faults>>
  BY DEF IndInv, TypeOK, OutIsFresh, Read, Uses, Holding, Reads
<1>2. queue[i] # <<>> /\ Head(queue[i]) = c /\ slot[i] # None /\ slot[i] \in Worker
  BY <1>1 DEF IndInv, HoldersAreFirst, UsersHaveWorkers
<1>3. Serves(slot[i], c)
  BY <1>1, <1>2 DEF IndInv, WorkersAreClean
<1>4. CASE /\ slot[i].outbox # <<>> /\ Head(slot[i].outbox) # "garbled"
           /\ slot' = [slot EXCEPT ![i].outbox = Tail(@)]
           /\ Return(c, "Ok", Head(slot[i].outbox))
  <2> DEFINE w == [slot[i] EXCEPT !.outbox = <<>>]
  <2>1. slot[i].inbox = <<>> /\ slot[i].outbox = <<c>>
    BY <1>3, <1>4 DEF Serves, Quiet
  <2>2. Head(slot[i].outbox) = c /\ Tail(slot[i].outbox) = <<>>
    BY <2>1, OneLine
  <2>3. w \in Worker /\ slot' = [slot EXCEPT ![i] = w]
    BY <1>1, <1>2, <1>4, <2>2, NoLine DEF Worker
  <2>4. w.inbox = <<>> /\ w.outbox = <<>> /\ w.state = slot[i].state
    BY <1>2, <2>1 DEF Worker
  <2>5. Quiet(w) /\ (Lost(w) => faults >= 1)
    <3>1. Lost(w) => Lost(slot[i])
      BY <2>4 DEF Lost
    <3> QED
      BY <1>1, <1>2, <2>4, <3>1 DEF Quiet, IndInv, LossesCost
  <2>6. next' = next /\ faults' = faults /\ faults' \in Nat /\ faults' >= faults
    BY <1>1
  <2>7. Return(c, "Ok", c)
    BY <1>4, <2>2
  <2>8. call[c].pc \notin {"out", "done"} /\ c \in Callers \cup {None}
    BY <1>1
  <2> HIDE DEF w
  <2> QED
    BY <1>2, <2>3, <2>5, <2>6, <2>7, <2>8, ReturnStep
<1>5. CASE /\ slot[i].outbox # <<>> /\ Head(slot[i].outbox) = "garbled"
           /\ Died(c, "Protocol")
  <2>1. Lost(slot[i])
    BY <1>5 DEF Lost
  <2> QED
    BY <1>1, <1>5, <2>1, DiedStep
<1>6. CASE slot[i].outbox = <<>> /\ slot[i].state = "dead" /\ Died(c, "WorkerDied")
  <2>1. Lost(slot[i])
    BY <1>6 DEF Lost
  <2> QED
    BY <1>1, <1>6, <2>1, DiedStep
<1> QED
  BY <1>4, <1>5, <1>6 DEF Read

\* The time is up: the worker goes, whatever it still owes.
LEMMA TimeoutStep ==
    ASSUME PoolAssumption, IndInv, NEW c \in Callers, Timeout(c)
    PROVE  IndInv'
<1>1. /\ faults \in Nat /\ call[c].pc = "read"
      /\ queue[call[c].idx] # <<>> /\ Head(queue[call[c].idx]) = c
  BY DEF IndInv, TypeOK, HoldersAreFirst, Holding, Uses, Timeout
<1>2. /\ slot' = [slot EXCEPT ![call[c].idx] = None] /\ None \in Worker \cup {None}
      /\ Return(c, "Timeout", None)
      /\ next' = next /\ faults' = faults /\ faults' \in Nat /\ faults' >= faults
  BY <1>1 DEF Timeout
<1> QED
  BY <1>1, <1>2, ReturnStep

\* The worker answers the one request it was sent.
LEMMA WorkStep ==
    ASSUME PoolAssumption, IndInv, NEW i \in Slots, Work(i)
    PROVE  IndInv'
<1>1. /\ slot \in [Slots -> Worker \cup {None}] /\ faults \in Nat
      /\ slot[i] # None /\ slot[i] \in Worker /\ slot[i].state = "running"
      /\ slot[i].inbox # <<>>
  BY DEF IndInv, TypeOK, Work, Alive
<1>2. PICK d \in Callers : Reads(call[d], i)
  BY <1>1 DEF IndInv, WorkersAreClean, Quiet
<1>3. slot[i].inbox = <<d>> /\ slot[i].outbox = <<>>
  BY <1>1, <1>2 DEF IndInv, WorkersAreClean, Serves, Quiet
<1> DEFINE w == [slot[i] EXCEPT !.inbox = <<>>, !.outbox = <<d>>]
<1>4. w \in Worker
  BY <1>1, OneLine DEF Worker
<1>5. w # None
  BY <1>4 DEF Worker, PoolAssumption
<1>6. w.inbox = <<>> /\ w.outbox = <<d>> /\ w.state = "running"
  BY <1>1 DEF Worker
<1>7. slot' = [slot EXCEPT ![i] = w]
  BY <1>1, <1>3, OneLine DEF Work, Worker
<1> HIDE DEF w
<1>8. ~Quiet(slot[i]) /\ ~Lost(w)
  <2>1. Head(<<d>>) = d /\ d # "garbled"
    BY OneLine DEF PoolAssumption
  <2> QED
    BY <1>1, <1>6, <2>1 DEF Quiet, Lost
<1>9. \A c \in Callers : Serves(slot[i], c) => Serves(w, c)
  <2> SUFFICES ASSUME NEW c \in Callers, Serves(slot[i], c) PROVE Serves(w, c)
    OBVIOUS
  <2>1. slot[i].inbox = <<c>>
    BY <1>1 DEF Serves, Quiet
  <2>2. c = d
    BY <1>3, <2>1, OneLine
  <2> QED
    BY <1>6, <2>2 DEF Serves
<1>10. UNCHANGED <<next, queue, call>> /\ faults' \in Nat /\ faults' >= faults
  BY <1>1 DEF Work
<1> QED
  BY <1>1, <1>4, <1>5, <1>7, <1>8, <1>9, <1>10, WorkerStep

\* The worker dies, hangs or garbles its answer: a fault of its own.
LEMMA FailStep ==
    ASSUME PoolAssumption, IndInv, NEW i \in Slots, Fail(i)
    PROVE  IndInv'
<1>1. /\ slot \in [Slots -> Worker \cup {None}] /\ faults \in Nat
      /\ slot[i] # None /\ slot[i] \in Worker /\ slot[i].state = "running"
  BY DEF IndInv, TypeOK, Fail, Alive
<1>2. UNCHANGED <<next, queue, call>> /\ faults' = faults + 1 /\ faults' \in Nat /\ faults' >= faults
  BY <1>1 DEF Fail
<1>3. CASE slot' = [slot EXCEPT ![i].state = "dead", ![i].inbox = <<>>]
  <2> DEFINE w == [slot[i] EXCEPT !.state = "dead", !.inbox = <<>>]
  <2>1. w \in Worker
    BY <1>1, NoLine DEF Worker
  <2>2. w # None
    BY <2>1 DEF Worker, PoolAssumption
  <2>3. w.inbox = <<>> /\ w.outbox = slot[i].outbox /\ w.state = "dead"
    BY <1>1 DEF Worker
  <2>4. slot' = [slot EXCEPT ![i] = w]
    BY <1>1, <1>3 DEF Worker
  <2> HIDE DEF w
  <2>5. /\ Quiet(slot[i]) => Quiet(w)
        /\ \A c \in Callers : Serves(slot[i], c) => Serves(w, c)
    BY <2>3 DEF Quiet, Serves
  <2> QED
    BY <1>1, <1>2, <2>1, <2>2, <2>4, <2>5, WorkerStep
<1>4. CASE slot' = [slot EXCEPT ![i].state = "hung"]
  <2> DEFINE w == [slot[i] EXCEPT !.state = "hung"]
  <2>1. w \in Worker
    BY <1>1 DEF Worker
  <2>2. w # None
    BY <2>1 DEF Worker, PoolAssumption
  <2>3. w.inbox = slot[i].inbox /\ w.outbox = slot[i].outbox /\ w.state = "hung"
    BY <1>1 DEF Worker
  <2>4. slot' = [slot EXCEPT ![i] = w]
    BY <1>1, <1>4 DEF Worker
  <2> HIDE DEF w
  <2>5. /\ Quiet(slot[i]) => Quiet(w)
        /\ \A c \in Callers : Serves(slot[i], c) => Serves(w, c)
    BY <1>1, <2>3 DEF Quiet, Serves
  <2> QED
    BY <1>1, <1>2, <2>1, <2>2, <2>4, <2>5, WorkerStep
<1>5. CASE /\ slot[i].inbox # <<>>
           /\ slot' = [slot EXCEPT ![i].inbox = Tail(@), ![i].outbox = Append(@, "garbled")]
  <2>1. PICK d \in Callers : Reads(call[d], i)
    BY <1>1, <1>5 DEF IndInv, WorkersAreClean, Quiet
  <2>2. slot[i].inbox = <<d>> /\ slot[i].outbox = <<>>
    BY <1>1, <1>5, <2>1 DEF IndInv, WorkersAreClean, Serves, Quiet
  <2> DEFINE w == [slot[i] EXCEPT !.inbox = <<>>, !.outbox = <<"garbled">>]
  <2>3. w \in Worker
    <3>1. <<"garbled">> \in Seq(Callers \cup {"garbled"}) /\ <<>> \in Seq(Callers)
      BY OneLine
    <3> QED
      BY <1>1, <3>1 DEF Worker
  <2>4. w # None
    BY <2>3 DEF Worker, PoolAssumption
  <2>5. w.inbox = <<>> /\ w.outbox = <<"garbled">>
    BY <1>1 DEF Worker
  <2>6. slot' = [slot EXCEPT ![i] = w]
    BY <1>1, <1>5, <2>2, OneLine DEF Worker
  <2> HIDE DEF w
  <2>7. ~Quiet(slot[i]) /\ \A c \in Callers : Serves(w, c)
    BY <1>5, <2>5 DEF Quiet, Serves
  <2> QED
    BY <1>1, <1>2, <2>3, <2>4, <2>6, <2>7, WorkerStep
<1> QED
  BY <1>3, <1>4, <1>5 DEF Fail

\* Every step of the calls and of the workers keeps the invariant.
LEMMA NextInv == PoolAssumption /\ IndInv /\ [Next]_vars => IndInv'
<1> SUFFICES ASSUME PoolAssumption, IndInv, [Next]_vars PROVE IndInv'
  OBVIOUS
<1>1. ASSUME NEW c \in Callers, CallNext(c) PROVE IndInv'
  BY <1>1, EnterStep, SpawnStep, SendStep, ReadStep, TimeoutStep DEF CallNext
<1>2. ASSUME NEW i \in Slots, Work(i) \/ Fail(i) PROVE IndInv'
  BY <1>2, WorkStep, FailStep
<1>3. CASE UNCHANGED vars
  BY <1>3 DEF vars, IndInv, TypeOK, OutIsFresh, HoldersAreFirst, UsersHaveWorkers,
     RetriesStartAnew, WorkersAreClean, LossesCost, ParsesAreTrue, AnswersOwnRequest,
     OneDeathIsSurvived, Holding, Uses, Retries, Reads, Lost, Quiet, Serves
<1> QED
  BY <1>1, <1>2, <1>3 DEF Next

(***************************************************************************)
(* Theorems                                                                *)
(***************************************************************************)

\* The inductive invariant: one call at most is past a slot's lock, and the worker of a slot
\* owes nothing but the line that call waits for (ParserPool::parse, the slot's Mutex).
THEOREM PoolInvariant ==
    ASSUME PoolAssumption
    PROVE  Spec => []IndInv
<1>1. Init => IndInv
  BY InitInv
<1>2. IndInv /\ [Next]_vars => IndInv'
  BY NextInv
<1> QED
  BY <1>1, <1>2, PTL DEF Spec

\* For any number of calls, slots and faults, a parse that succeeds returns the graph of its
\* own source, and one that reports a dead worker or a garbled answer lost two of them.
THEOREM ParsesStayTrue ==
    ASSUME PoolAssumption
    PROVE  Spec => []ParsesAreTrue
<1>1. IndInv => ParsesAreTrue
  BY DEF IndInv
<1> QED
  BY <1>1, PoolInvariant, PTL

=============================================================================
