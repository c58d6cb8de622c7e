------------------------------ MODULE S3Store ------------------------------
(***************************************************************************)
(* The object-store substrate (gonzalo-store-s3).  There is no lock: every *)
(* mutation reads the object and its ETag, plans against exactly that       *)
(* record, and writes on condition of that ETag; a lost race is planned     *)
(* again, at most MaxAttempts times.  Deleting touches a second object, the *)
(* marker beside the record, which lets list tell the deleted keys of a      *)
(* flagged collection without reading them (ADR 0025).  One step is one     *)
(* request to the object store.                                             *)
(*                                                                         *)
(* An ETag is the object's content: a record with the stamp of the call     *)
(* that wrote it (its timestamps and author), or a marker's revision.       *)
(***************************************************************************)
EXTENDS StoreCalls

CONSTANTS Keys,          \* the keys of one collection
          Writers,       \* clients that put, delete, purge and replicate
          Listers,       \* clients that list the collection
          NewBodies,     \* the bodies writers put
          Legacy,        \* whether the collection predates markers
          Cap,           \* the ancestor cap
          MaxAttempts,   \* MAX_WRITE_ATTEMPTS
          MaxOps,        \* bound: calls made by writers
          MaxListings,   \* bound: listings started
          MaxFaults      \* bound: lost answers, busy answers and failures

\* What the constants are; the modules that instantiate this one assume it.
S3Assumption ==
    /\ NewBodies \subseteq Bodies
    /\ Legacy \in BOOLEAN
    /\ Cap \in Nat
    /\ MaxAttempts \in Nat \ {0}
    /\ None \notin [record : Record, stamp : Nat] \cup {"Conflict", "NotFound", "Rejected"}

VARIABLES object,    \* key -> the record object, or None
          marker,    \* key -> the revision its marker names, or None
          flag,      \* whether the collection carries the marked flag
          writer,    \* writer -> its call
          lister,    \* lister -> its listing
          watch,     \* history: what was live, always and ever, since it began
          ops, listings, faults

vars == <<object, marker, flag, writer, lister, watch, ops, listings, faults>>

Object(rec, stamp) == [record |-> rec, stamp |-> stamp]
RecordOf(obj) == IF obj = None THEN None ELSE obj.record
LiveKeys(objects) == {k \in Keys : IsLive(RecordOf(objects[k]))}

NoCall == [pc |-> "idle", op |-> None, key |-> None, seen |-> None, body |-> EmptyBody,
           stamp |-> 0, etag |-> None, send |-> None, pending |-> None,
           attempt |-> 1, answer |-> None]
NoListing == [pc |-> "idle", todo |-> {}, key |-> None, records |-> {}, markers |-> <<>>,
              marked |-> FALSE, upgrading |-> FALSE, live |-> <<>>, out |-> {}]

LegacyTombstone(body) == Object(TombstoneOf(CreateRecord("Topic", body), 0, Cap), 0)

Init == /\ object \in [Keys -> {None} \cup {LegacyTombstone(b) : b \in IF Legacy THEN NewBodies ELSE {}}]
        /\ marker = [k \in Keys |-> None]
        /\ flag = ~Legacy
        /\ writer = [w \in Writers |-> NoCall]
        /\ lister = [l \in Listers |-> NoListing]
        /\ watch = [l \in Listers |-> [always |-> {}, ever |-> {}]]
        /\ ops = 0 /\ listings = 0 /\ faults = 0

(***************************************************************************)
(* write_planned                                                           *)
(***************************************************************************)

\* A call begins: a create, an edit, a delete (of anything or of the revision
\* read), a purge of the tombstone read, or a tombstone replicated by sync.
Call(w, k, op, seen, body) ==
    /\ writer[w].pc = "idle"
    /\ ops < MaxOps
    /\ seen \in {None, RecordOf(object[k])}
    /\ Sensible(op, seen)
    /\ ops' = ops + 1
    /\ writer' = [writer EXCEPT
                     ![w] = [NoCall EXCEPT !.pc = "read", !.op = op, !.key = k, !.seen = seen,
                                           !.body = body, !.stamp = ops + 1]]
    /\ UNCHANGED <<object, marker, flag, lister, watch, listings, faults>>

Answered(call, answer) ==
    [call EXCEPT !.pc = "idle", !.answer = answer, !.seen = None, !.etag = None,
                 !.send = None, !.pending = None, !.attempt = 1]

\* retry_on_lost_race.
Retried(call, pending) ==
    IF call.attempt = MaxAttempts THEN Answered(call, "Lost")
    ELSE [call EXCEPT !.pc = "read", !.attempt = @ + 1, !.pending = pending,
                      !.etag = None, !.send = None]

\* Mutant: the next attempt does not recognise its own write.
NeverLanded(call, obj) == FALSE

OwnWriteLanded(call, obj) ==
    call.pending # None /\ obj = Object(call.pending, call.stamp)

\* Mutant: the tombstone goes first and its marker never follows.
AttemptWithoutMarker(w) ==
    LET call == writer[w]
        plan == PlanFor(call, RecordOf(object[call.key]), Cap)
    IN  /\ call.pc = "read"
        /\ writer' = [writer EXCEPT
              ![w] = IF plan.outcome = "Write"
                     THEN [call EXCEPT !.pc = "put", !.etag = object[call.key],
                                       !.send = plan.record, !.pending = None]
                     ELSE Answered(call, plan.outcome)]
        /\ UNCHANGED <<object, marker, flag, lister, watch, ops, listings, faults>>

\* One attempt: read the object, look for our own write, plan.
Attempt(w) ==
    LET call == writer[w]
        obj  == object[call.key]
        plan == PlanFor(call, RecordOf(obj), Cap)
        planned == [call EXCEPT !.etag = obj, !.send = plan.record, !.pending = None]
    IN  /\ call.pc = "read"
        /\ writer' = [writer EXCEPT
              ![w] = CASE OwnWriteLanded(call, obj) -> Answered(call, "Written")
                       [] ~OwnWriteLanded(call, obj) /\ plan.outcome = "Write" ->
                            [planned EXCEPT !.pc = IF IsTombstone(plan.record)
                                                   THEN "marker" ELSE "put"]
                       [] ~OwnWriteLanded(call, obj) /\ plan.outcome = "Remove" ->
                            [planned EXCEPT !.pc = "remove"]
                       [] OTHER -> Answered(call, plan.outcome)]
        /\ UNCHANGED <<object, marker, flag, lister, watch, ops, listings, faults>>

\* put_marker, before the tombstone and without condition.
PutMarker(w) ==
    /\ writer[w].pc = "marker"
    /\ marker' = [marker EXCEPT ![writer[w].key] = writer[w].send.revision]
    /\ writer' = [writer EXCEPT ![w].pc = "put"]
    /\ UNCHANGED <<object, flag, lister, watch, ops, listings, faults>>

\* How the object store answers a conditional request it could apply: plainly;
\* not at all, so that the SDK's retry is told 412; busy, without applying it;
\* or not at all, for good.
Responses == {"ok", "retried", "busy", "failed"}

\* Mutant: the write goes out without its precondition.
Unconditional(call, obj) == TRUE

\* precondition: If-Match on the ETag read, If-None-Match on an absent object.
Matches(call, obj) == obj = call.etag

\* put_record_if and delete_record_if_match.
Conditional(w, pc, new, pending, response) ==
    LET call    == writer[w]
        applied == Matches(call, object[call.key]) /\ response # "busy"
    IN  /\ call.pc = pc
        /\ response # "ok" => Matches(call, object[call.key]) /\ faults < MaxFaults
        /\ faults' = faults + IF response = "ok" THEN 0 ELSE 1
        /\ object' = IF applied THEN [object EXCEPT ![call.key] = new] ELSE object
        /\ writer' = [writer EXCEPT
              ![w] = CASE applied /\ response = "ok"      -> Answered(call, "Written")
                       [] applied /\ response = "retried" -> Retried(call, pending)
                       [] applied /\ response = "failed"  -> Answered(call, "Error")
                       [] ~applied                        -> Retried(call, pending)]
        /\ watch' = [l \in Listers |->
                        [always |-> watch[l].always \cap LiveKeys(object'),
                         ever   |-> watch[l].ever \cup LiveKeys(object')]]
        /\ UNCHANGED <<marker, flag, lister, ops, listings>>

PutRecord(w, response) ==
    Conditional(w, "put", Object(writer[w].send, writer[w].stamp), writer[w].send, response)

RemoveRecord(w, response) == Conditional(w, "remove", None, None, response)

\* A request fails without effect, or the client dies: the call ends there.
Fail(w) ==
    /\ writer[w].pc # "idle"
    /\ faults < MaxFaults
    /\ faults' = faults + 1
    /\ writer' = [writer EXCEPT ![w] = Answered(@, "Error")]
    /\ UNCHANGED <<object, marker, flag, lister, watch, ops, listings>>

(***************************************************************************)
(* list                                                                    *)
(***************************************************************************)

\* A listing's own steps change nothing a writer holds.
Listing(l, new) ==
    /\ lister' = [lister EXCEPT ![l] = new]
    /\ UNCHANGED <<object, writer, ops, faults>>

BeginList(l) ==
    /\ lister[l].pc = "idle"
    /\ listings < MaxListings
    /\ listings' = listings + 1
    /\ watch' = [watch EXCEPT ![l] = [always |-> LiveKeys(object), ever |-> LiveKeys(object)]]
    /\ Listing(l, [NoListing EXCEPT !.pc = "list", !.todo = Keys, !.upgrading = ~flag,
                                    !.markers = [k \in Keys |-> None],
                                    !.live = [k \in Keys |-> [is |-> "unread", revision |-> None]]])
    /\ UNCHANGED <<marker, flag>>

\* list_objects: a key's record and its marker may be on two pages.
ListRecord(l, k) ==
    /\ lister[l].pc = "list"
    /\ k \in lister[l].todo
    /\ Listing(l, [lister[l] EXCEPT !.pc = "list_marker", !.todo = @ \ {k}, !.key = k,
                                    !.records = IF object[k] = None THEN @ ELSE @ \cup {k}])
    /\ UNCHANGED <<marker, flag, watch, listings>>

ListMarker(l) ==
    LET k == lister[l].key IN
    /\ lister[l].pc = "list_marker"
    /\ Listing(l, [lister[l] EXCEPT !.pc = "list", !.key = None, !.markers[k] = marker[k]])
    /\ UNCHANGED <<marker, flag, watch, listings>>

\* Mutant: the absence of a marker is trusted in every collection.
TrustUnmarked(l) ==
    LET run == lister[l] IN
    /\ run.pc = "list" /\ run.todo = {}
    /\ Listing(l, [run EXCEPT !.pc = "read", !.marked = TRUE,
                              !.todo = {k \in run.records : run.markers[k] # None}])
    /\ UNCHANGED <<marker, flag, watch, listings>>

\* collection_marked: which keys are to be read.  A collection with no records
\* and no markers is not visited.
CheckFlag(l) ==
    LET run  == lister[l]
        seen == {k \in Keys : run.markers[k] # None}
    IN  /\ run.pc = "list" /\ run.todo = {}
        /\ Listing(l, IF run.records \cup seen = {} THEN [run EXCEPT !.pc = "done"]
                      ELSE [run EXCEPT !.pc = "read", !.marked = flag,
                                       !.todo = IF flag THEN run.records \cap seen
                                                ELSE run.records])
        /\ UNCHANGED <<marker, flag, watch, listings>>

\* What a read said of a key, with the revision of a tombstone.
Liveness(is, revision) == [is |-> is, revision |-> revision]

\* read_liveness, in any order.
ReadLiveness(l, k) ==
    LET run  == lister[l]
        slot == RecordOf(object[k])
    IN  /\ run.pc = "read" /\ k \in run.todo
        /\ Listing(l, [run EXCEPT !.todo = @ \ {k},
                                  !.live[k] = IF slot = None THEN Liveness("Absent", None)
                                              ELSE IF IsLive(slot) THEN Liveness("Live", None)
                                              ELSE Liveness("Tombstoned", slot.revision)])
        /\ UNCHANGED <<marker, flag, watch, listings>>

ReadDone(l) ==
    LET run == lister[l] IN
    /\ run.pc = "read" /\ run.todo = {}
    /\ Listing(l, [run EXCEPT !.pc = "resolve", !.todo = {k \in Keys : k \in run.records
                                                             \/ run.markers[k] # None}])
    /\ UNCHANGED <<marker, flag, watch, listings>>

\* delete_marker_if_match: nothing happens to a marker that has changed.
DeleteMarkerIfMatch(k, etag) ==
    marker' = IF etag # None /\ marker[k] = etag THEN [marker EXCEPT ![k] = None] ELSE marker

\* One key: report it if it is live, put a missing marker, and remove a marker
\* that is stale or an orphan.
Resolve(l, k) ==
    LET run     == lister[l]
        state   == IF k \in run.records THEN run.live[k].is ELSE "Absent"
        reports == state \in {"unread", "Live"}
    IN  /\ run.pc = "resolve" /\ k \in run.todo
        /\ CASE state = "unread"             -> UNCHANGED marker
             [] state \in {"Live", "Absent"} -> DeleteMarkerIfMatch(k, run.markers[k])
             [] state = "Tombstoned"         ->
                   marker' = IF run.markers[k] = None
                             THEN [marker EXCEPT ![k] = run.live[k].revision] ELSE marker
        /\ Listing(l, [run EXCEPT !.todo = @ \ {k}, !.out = IF reports THEN @ \cup {k} ELSE @])
        /\ UNCHANGED <<flag, watch, listings>>

\* mark_collection, after a pass that read every key.
MarkCollection(l) ==
    /\ lister[l].pc = "resolve" /\ lister[l].todo = {}
    /\ flag' = (flag \/ ~lister[l].marked)
    /\ Listing(l, [lister[l] EXCEPT !.pc = "done"])
    /\ UNCHANGED <<marker, watch, listings>>

\* list returns and its caller moves on; or a request fails and it returns nothing.
EndList(l) ==
    /\ lister[l].pc # "idle"
    /\ watch' = [watch EXCEPT ![l] = [always |-> {}, ever |-> {}]]
    /\ Listing(l, NoListing)
    /\ UNCHANGED <<marker, flag, listings>>

(***************************************************************************)
(* Specification                                                           *)
(***************************************************************************)

WriterNext(w) ==
    \/ \E k \in Keys, op \in WriteOps, body \in NewBodies :
          \E seen \in {None, RecordOf(object[k])} : Call(w, k, op, seen, body)
    \/ Attempt(w)
    \/ PutMarker(w)
    \/ \E response \in Responses : PutRecord(w, response)
    \/ \E response \in Responses : RemoveRecord(w, response)
    \/ Fail(w)

ListerNext(l) ==
    \/ BeginList(l)
    \/ \E k \in Keys : ListRecord(l, k)
    \/ ListMarker(l)
    \/ CheckFlag(l)
    \/ \E k \in Keys : ReadLiveness(l, k)
    \/ ReadDone(l)
    \/ \E k \in Keys : Resolve(l, k)
    \/ MarkCollection(l)
    \/ EndList(l)

Next == \/ \E w \in Writers : WriterNext(w)
        \/ \E l \in Listers : ListerNext(l)

Spec == Init /\ [][Next]_vars

(***************************************************************************)
(* Properties                                                              *)
(***************************************************************************)

Calls == [pc : {"idle", "read", "marker", "put", "remove"},
          op : {None, "put", "put_raw", "delete", "purge"}, key : Keys \cup {None},
          seen : Slot, body : Bodies, stamp : Nat,
          etag : [record : Record, stamp : Nat] \cup {None}, send : Slot, pending : Slot,
          attempt : 1..MaxAttempts,
          answer : {None, "Written", "Noop", "Conflict", "NotFound", "Rejected", "Lost", "Error"}]

\* Every variable of the store and its writers holds what the code's types allow.
TypeOK == /\ object \in [Keys -> [record : Record, stamp : Nat] \cup {None}]
          /\ marker \in [Keys -> Revision \cup {None}]
          /\ flag \in BOOLEAN
          /\ writer \in [Writers -> Calls]

PlannedStep ==
    \A k \in Keys :
       object'[k] # object[k] =>
          \E w \in Writers :
             /\ writer[w].key = k
             /\ writer[w].pc # "idle"
             /\ LET slot == RecordOf(object[k])
                IN  RecordOf(object'[k]) = Apply(slot, PlanFor(writer[w], slot, Cap))

\* "The planner therefore always decides against the true current record, as it
\* does under the fs and git stores' locks": whatever changes an object is the
\* planners' answer, to some call in flight, for the very record it replaces,
\* however long ago that was read and however often the call was tried again.
EachWriteIsPlanned == [][PlannedStep]_vars

Shown == [k \in Keys |-> RecordOf(object[k])]
Contract == INSTANCE StoreContract WITH records <- Shown, volatile <- [k \in Keys |-> {}]

\* "All substrates behave identically" (ADR 0021): what the objects hold changes only as
\* the store contract allows, in one request, and nothing takes it back.
ImplementsContract == Contract!Spec

\* A call that is refused has not written what the store holds: a write that
\* applied and lost its answer is recognised as its own (own_write_landed).
NoFalseRefusal ==
    \A w \in Writers :
        (writer[w].pc = "idle" /\ writer[w].answer \in {"Conflict", "NotFound", "Rejected"})
        => object[writer[w].key] = None \/ object[writer[w].key].stamp # writer[w].stamp

\* "a tombstone implies a marker" (ADR 0025): in a flagged collection no deleted
\* key is without its marker, or list would report it as live.
TombstoneMarked ==
    flag => \A k \in Keys :
               RecordOf(object[k]) # None /\ ~IsLive(RecordOf(object[k])) => marker[k] # None

\* A key that is live for the whole of a listing is in it, whatever markers old
\* deletes, crashes and other listings have left.
LiveKeysListed ==
    \A l \in Listers : lister[l].pc = "done" => watch[l].always \subseteq lister[l].out

\* A listing that finds the collection unflagged, as an upgrade does, reports only
\* keys that were live at some moment of it ("without any window in which a
\* deleted record could reappear in a listing", ADR 0025).
UpgradeListsOnlyLive ==
    \A l \in Listers :
        lister[l].pc = "done" /\ lister[l].upgrading => lister[l].out \subseteq watch[l].ever

\* A listing is right about every key that did not change while it ran.
ListingsAreExact == LiveKeysListed /\ UpgradeListsOnlyLive
=============================================================================
