------------------------------ MODULE ParsePool ------------------------------
(***************************************************************************)
(* The pool of parse workers: ParserPool (gonzalo-parse: lib.rs) and the    *)
(* worker process it drives (bin/gonzalo-parse-worker.rs).  A worker        *)
(* answers one line per request line, so the pipe itself says nothing about *)
(* which request a line answers: the pool may only reuse a worker whose     *)
(* every request has been answered.  Workers crash, hang, garble an answer  *)
(* or die between two parses.                                              *)
(***************************************************************************)
EXTENDS Integers, Sequences

CONSTANTS None,
          Callers,          \* the parse calls, each made once
          Size,             \* the number of slots asked for
          MaxFaults         \* bound: crashes, hangs, garbled lines, failed spawns

VARIABLES next,             \* the round-robin counter
          slot,             \* slot -> None or a worker process
          queue,            \* slot -> the callers at its lock, the holder first
          call,             \* caller -> where it is, and its result
          faults

vars == <<next, slot, queue, call, faults>>

\* A call is told from a garbled line, and the absence of an answer from an answer.
PoolAssumption ==
    /\ Size \in Nat
    /\ "garbled" \notin Callers
    /\ None \notin {"Ok", "Spawn", "WorkerDied", "Protocol", "Timeout"}
    /\ None \notin [state : {"running", "hung", "dead"}, inbox : Seq(Callers),
                     outbox : Seq(Callers \cup {"garbled"})]

Slots == 0 .. (IF Size > 1 THEN Size ELSE 1) - 1

\* A worker process: running, hung or dead, the requests it has not taken up and the
\* lines its parent has not read.  A request is named after the caller that sent it,
\* and so is the answer.
Fresh == [state |-> "running", inbox |-> <<>>, outbox |-> <<>>]
Waiting == [pc |-> "out", idx |-> None, tries |-> 0, result |-> None, graph |-> None]

Init == /\ next = 0 /\ slot = [i \in Slots |-> None] /\ queue = [i \in Slots |-> <<>>]
        /\ call = [c \in Callers |-> Waiting] /\ faults = 0

Holds(c) == call[c].pc # "out" /\ queue[call[c].idx] # <<>> /\ Head(queue[call[c].idx]) = c

(***************************************************************************)
(* ParserPool::parse                                                       *)
(***************************************************************************)

\* A slot is picked in turn and its lock waited for; the lock is fair.
Enter(c) ==
    /\ call[c].pc = "out"
    /\ LET i == next % (IF Size > 1 THEN Size ELSE 1)
       IN  /\ call' = [call EXCEPT ![c].pc = "spawn", ![c].idx = i]
           /\ queue' = [queue EXCEPT ![i] = Append(@, c)]
    /\ next' = next + 1
    /\ UNCHANGED <<slot, faults>>

\* The call returns, and lets go of its slot.
Return(c, result, graph) ==
    /\ call' = [call EXCEPT ![c].pc = "done", ![c].result = result, ![c].graph = graph]
    /\ queue' = [queue EXCEPT ![call[c].idx] = Tail(@)]

\* The loop's first half: a worker is there or is spawned, or spawning it fails.
Spawn(c) ==
    /\ call[c].pc = "spawn" /\ Holds(c)
    /\ LET i == call[c].idx IN
       \/ /\ slot' = [slot EXCEPT ![i] = IF @ = None THEN Fresh ELSE @]
          /\ call' = [call EXCEPT ![c].pc = "send"]
          /\ UNCHANGED <<next, queue, faults>>
       \/ /\ slot[i] = None /\ faults < MaxFaults
          /\ Return(c, "Spawn", None) /\ faults' = faults + 1
          /\ UNCHANGED <<next, slot>>

\* The worker is dropped, and with it killed; a second one is tried.
Died(c, error) ==
    /\ slot' = [slot EXCEPT ![call[c].idx] = None]
    /\ IF call[c].tries = 0
       THEN /\ call' = [call EXCEPT ![c].pc = "spawn", ![c].tries = 1]
            /\ UNCHANGED queue
       ELSE Return(c, error, None)

\* roundtrip: the request is written; a dead worker's pipe is broken.
Send(c) ==
    /\ call[c].pc = "send"
    /\ LET i == call[c].idx IN
       \/ /\ slot[i].state # "dead"
          /\ slot' = [slot EXCEPT ![i].inbox = Append(@, c)]
          /\ call' = [call EXCEPT ![c].pc = "read"]
          /\ UNCHANGED queue
       \/ slot[i].state = "dead" /\ Died(c, "WorkerDied")
    /\ UNCHANGED <<next, faults>>

\* roundtrip: one line is read.  A garbled line is an error like a death, and so is the
\* end of a dead worker's output.
Read(c) ==
    /\ call[c].pc = "read"
    /\ LET i == call[c].idx
           w == slot[i]
       IN  \/ /\ w.outbox # <<>> /\ Head(w.outbox) # "garbled"
              /\ slot' = [slot EXCEPT ![i].outbox = Tail(@)]
              /\ Return(c, "Ok", Head(w.outbox))
           \/ /\ w.outbox # <<>> /\ Head(w.outbox) = "garbled"
              /\ Died(c, "Protocol")
           \/ /\ w.outbox = <<>> /\ w.state = "dead"
              /\ Died(c, "WorkerDied")
    /\ UNCHANGED <<next, faults>>

\* Mutant: the worker that overran its time is left in the slot.
TimeoutKeeping(c) ==
    /\ call[c].pc = "read" /\ slot[call[c].idx].outbox = <<>>
    /\ slot[call[c].idx].state # "dead"
    /\ Return(c, "Timeout", None)
    /\ UNCHANGED <<next, slot, faults>>

\* Mutant: a call waits for its worker for ever.
NoTimeout(c) == call[c].pc = "read" /\ UNCHANGED vars

\* The time is up before a line arrived: the worker is dropped, and not tried again.  The
\* clock is not modelled: a parse that would have answered may be cut off too.
Timeout(c) ==
    /\ call[c].pc = "read" /\ slot[call[c].idx].outbox = <<>>
    /\ slot[call[c].idx].state # "dead"
    /\ slot' = [slot EXCEPT ![call[c].idx] = None]
    /\ Return(c, "Timeout", None)
    /\ UNCHANGED <<next, faults>>

(***************************************************************************)
(* The worker process                                                      *)
(***************************************************************************)

Alive(i) == slot[i] # None /\ slot[i].state = "running"

\* One request is taken up and answered by one line.
Work(i) ==
    /\ Alive(i) /\ slot[i].inbox # <<>>
    /\ slot' = [slot EXCEPT ![i].inbox = Tail(@), ![i].outbox = Append(@, Head(slot[i].inbox))]
    /\ UNCHANGED <<next, queue, call, faults>>

\* The grammar aborts, loops for ever or writes on the answers' pipe; or the process is
\* killed while it idles.  A worker that dies after it answered leaves its line behind.
Fail(i) ==
    /\ Alive(i) /\ faults < MaxFaults /\ faults' = faults + 1
    /\ \/ slot' = [slot EXCEPT ![i].state = "dead", ![i].inbox = <<>>]
       \/ slot' = [slot EXCEPT ![i].state = "hung"]
       \/ /\ slot[i].inbox # <<>>
          /\ slot' = [slot EXCEPT ![i].inbox = Tail(@), ![i].outbox = Append(@, "garbled")]
    /\ UNCHANGED <<next, queue, call>>

Finished == \A c \in Callers : call[c].pc = "done"

CallNext(c) == Enter(c) \/ Spawn(c) \/ Send(c) \/ Read(c) \/ Timeout(c)

Next ==
    \/ \E c \in Callers : CallNext(c)
    \/ \E i \in Slots : Work(i) \/ Fail(i)
    \/ Finished /\ UNCHANGED vars

Spec == Init /\ [][Next]_vars

\* The calls go on and tokio's timer fires.  A worker need not do anything.
FairSpec == Spec /\ \A c \in Callers : WF_vars(CallNext(c))

(***************************************************************************)
(* Properties                                                              *)
(***************************************************************************)

\* A parse returns the graph of its own source: no worker whose earlier request is still
\* unanswered is ever used again (parse drops it on every path but success).
AnswersOwnRequest ==
    \A c \in Callers : call[c].result = "Ok" => call[c].graph = c

\* "An unlucky crash doesn't fail a good parse": a call reports a dead worker or a garbled
\* answer only after it lost two workers, which takes two faults.
OneDeathIsSurvived ==
    \A c \in Callers : call[c].result \in {"WorkerDied", "Protocol"} => faults >= 2

\* Once calls are made they all return, whatever the workers do: a hang is bounded by the
\* timeout and a slot is never left locked.
EveryParseReturns == (\E c \in Callers : call[c].pc # "out") ~> Finished

\* What a parse returns is true: the graph of its own source, since no worker whose earlier
\* request is still unanswered is ever used again; or an error that took two dead workers,
\* as "an unlucky crash doesn't fail a good parse" (ParserPool::parse).
ParsesAreTrue == AnswersOwnRequest /\ OneDeathIsSurvived
=============================================================================
