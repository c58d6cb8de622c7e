------------------------------- MODULE Daemon -------------------------------
(***************************************************************************)
(* The daemon and its client store (gonzalo-server, gonzalo-store-server).  *)
(* A client sends a call over HTTP or gRPC with its bearer token; the       *)
(* daemon authenticates, authorizes against the namespace, stamps           *)
(* authorship, runs the store's operation and answers with a status; the    *)
(* client reads a result back out of the status.  A connection may break    *)
(* before or after the call is carried out, the backing store may be        *)
(* unreachable, and the daemon may predate the replication surface.         *)
(***************************************************************************)
EXTENDS StoreCalls

CONSTANTS Namespace,         \* of the one record the calls are about
          Blobs,             \* the blobs they are about
          Registry,          \* token -> [read, write], the principals file
          Clients,
          NewBodies,
          Claims,            \* the authors callers name
          Cap,
          MaxCalls,          \* bound: calls sent
          MaxFaults          \* bound: broken connections and store outages

\* None is an absence, neither a reason nor a token.
DaemonAssumption == /\ NewBodies \subseteq Bodies
                    /\ Cap \in Nat
                    /\ None \notin {"Unauthenticated", "Forbidden"} \cup DOMAIN Registry

VARIABLES version,  \* "new", or "old": no replication surface and no HasBlob
          mode,     \* Auth: "Enabled", or "Disabled" (open)
          up,       \* whether the backing store answers
          record, author, blobs,  \* the backing store: record, its meta.author, blobs
          call,     \* client -> its call
          known,    \* client -> the record it last read, and replicates
          calls, faults

vars == <<version, mode, up, record, author, blobs, call, known, calls, faults>>

Tokens == DOMAIN Registry
RawOps == {"get_raw", "list_raw", "put_raw", "purge"}
PutOps == {"put", "put_raw"}
BlobOps == {"put_blob", "get_blob", "has_blob", "delete_blob", "list_blobs"}

Res(tag, val) == [tag |-> tag, val |-> val]
Idle == [at |-> "idle"]

\* The record may have been written, read by clients and deleted before.
Init == /\ version \in {"new", "old"}
        /\ mode \in {"Enabled", "Disabled"}
        /\ up = TRUE
        /\ \E live \in {CreateRecord("Topic", body) : body \in NewBodies} :
              /\ record \in {None, live, TombstoneOf(live, 0, Cap)}
              /\ known \in [Clients -> {None, live}]
        /\ author = None /\ blobs \in {{}, Blobs}
        /\ call = [c \in Clients |-> Idle]
        /\ calls = 0 /\ faults = 0

(***************************************************************************)
(* Principals                                                              *)
(***************************************************************************)

\* authenticate: the open mode's implicit admin, the token's principal, or none.
Principal(token) ==
    IF mode = "Disabled" THEN [name |-> None, read |-> {"*"}, write |-> {"*"}]
    ELSE IF token \in Tokens
         THEN [name |-> token, read |-> Registry[token].read, write |-> Registry[token].write]
         ELSE None

Allows(scopes, namespace) == scopes \cap {"*", namespace} # {}
IsAdmin(p) == "*" \in p.read /\ "*" \in p.write

\* A non-admin is stamped as itself; an admin or open mode may name the deleter.
DeleteAuthor(p, claimed) ==
    IF ~IsAdmin(p) THEN p.name ELSE IF claimed # None THEN claimed ELSE p.name

\* Why a call is turned away before the service sees it, or None.
Denied(req) ==
    LET p         == Principal(req.token)
        namespace == IF req.op \in BlobOps THEN "_blobs"
                     ELSE IF req.op \in {"list", "list_raw"} /\ ~req.scoped THEN "*"
                     ELSE Namespace
        writes    == req.op \in {"put", "delete", "put_blob", "delete_blob"}
    IN  IF p = None THEN "Unauthenticated"
        ELSE IF req.op \in {"put_raw", "purge"}
             THEN IF IsAdmin(p) THEN None ELSE "Forbidden"
        ELSE IF Allows(IF writes THEN p.write ELSE p.read, namespace) THEN None ELSE "Forbidden"

\* A daemon without the route: gRPC has no HasBlob either, HTTP answers HEAD
\* from the blob's GET.
Unserved(req) == version = "old" /\ (req.op \in RawOps \/ (req.op = "has_blob" /\ req.via = "grpc"))

(***************************************************************************)
(* The service over the backing store                                      *)
(***************************************************************************)

\* What a plan answers the caller.
PlanResult(op, plan) ==
    CASE plan.outcome = "Write"    -> IF op \in PutOps THEN Res("Committed", plan.record.revision)
                                      ELSE Res("Deleted", None)
      [] plan.outcome \in {"Remove", "Noop"} -> Res("Deleted", None)
      [] plan.outcome = "Conflict" -> Res("Conflict", record)
      [] plan.outcome = "NotFound" -> Res("NotFound", None)
      [] plan.outcome = "Rejected" -> Res("Invalid", None)

Found(slot) == IF slot = None THEN Res("Absent", None) ELSE Res("Found", slot)

\* The reads.
Reads == {"get", "get_raw", "list", "list_raw"}
BlobReads == {"list_blobs", "get_blob", "has_blob"}

ReadResult(op) ==
    CASE op = "get"       -> Found(IF IsLive(record) THEN record ELSE None)
      [] op = "get_raw"   -> Found(record)
      [] op = "list"      -> Res("Listed", IsLive(record))
      [] op = "list_raw"  -> Res("Listed", record # None)

ReadBlobResult(op, blob) ==
    IF op = "list_blobs" THEN Res("Listed", blobs)
    ELSE Found(IF blob \in blobs THEN blob ELSE None)

(***************************************************************************)
(* The wire                                                                *)
(***************************************************************************)

Succeeded == {"Found", "Absent", "Listed", "Committed", "Deleted", "Stored"}

\* The HTTP status of a result: put_outcome_response, delete_outcome_response and
\* the read handlers.
HttpStatus(op, res) ==
    CASE res.tag = "Absent"          -> IF op = "get_raw" THEN 200 ELSE 404
      [] res.tag \in Succeeded \ {"Absent"} -> 200
      [] res.tag = "Conflict"        -> 409
      [] res.tag = "NotFound"        -> IF op \in PutOps THEN 412 ELSE 500
      [] res.tag = "Invalid"         -> 400
      [] res.tag = "Unauthenticated" -> 401
      [] res.tag = "Forbidden"       -> 403
      [] res.tag = "Unserved"        -> 404
      [] res.tag = "Failed"          -> 500

\* Mutant: every error of the store is opaque over gRPC.
GrpcOpaque(op, res) ==
    CASE res.tag \in Succeeded \cup {"Conflict"} -> "Ok"
      [] res.tag = "Unserved" -> "Unimplemented"
      [] OTHER -> "Internal"

\* The gRPC code: put_error, purge_error, and internal for everything else.
GrpcCode(op, res) ==
    CASE res.tag \in Succeeded \cup {"Conflict"} -> "Ok"
      [] res.tag = "NotFound"        -> IF op \in PutOps THEN "FailedPrecondition" ELSE "Internal"
      [] res.tag = "Invalid"         -> IF op = "delete" THEN "Internal" ELSE "InvalidArgument"
      [] res.tag = "Unauthenticated" -> "Unauthenticated"
      [] res.tag = "Forbidden"       -> "PermissionDenied"
      [] res.tag = "Unserved"        -> "Unimplemented"
      [] res.tag = "Failed"          -> "Internal"

NoBody == Res("none", None)

Wire(via, op, res) ==
    [status |-> IF via = "http" THEN HttpStatus(op, res) ELSE GrpcCode(op, res),
     body   |-> IF res.tag \in Succeeded \cup {"Conflict"} THEN res ELSE NoBody]

Backend == Res("Backend", None)
Upgrade == Res("Upgrade", None)

\* The client's reading of an HTTP answer: the classify_* functions.
DecodeHttp(op, wire) ==
    CASE wire.status \in {200, 409} /\ wire.body # NoBody -> wire.body
      [] wire.status = 404 /\ op \in RawOps -> Upgrade
      [] wire.status = 404 /\ op \in {"get", "get_blob", "has_blob"} -> Res("Absent", None)
      [] wire.status = 412 /\ op \in PutOps -> Res("NotFound", None)
      [] wire.status = 400 /\ op \in PutOps -> Res("Invalid", None)
      [] OTHER -> Backend

\* Its reading of a gRPC answer: the decode_* and *_status functions.
DecodeGrpc(op, wire) ==
    CASE wire.status = "Ok" -> wire.body
      [] wire.status = "Unimplemented" /\ op \in RawOps -> Upgrade
      [] wire.status = "FailedPrecondition" /\ op \in PutOps -> Res("NotFound", None)
      [] wire.status = "InvalidArgument" /\ op \in PutOps -> Res("Invalid", None)
      [] OTHER -> Backend

Decode(via, op, wire) == IF via = "http" THEN DecodeHttp(op, wire) ELSE DecodeGrpc(op, wire)

(***************************************************************************)
(* Calls                                                                   *)
(***************************************************************************)

\* Mutant: against an old daemon the client falls back to the consumer routes.
FallBack(op) == IF version = "old"
                THEN CASE op = "get_raw" -> "get" [] op = "put_raw" -> "put" [] OTHER -> op
                ELSE op

\* The operation a call of the Store trait asks the daemon for: its own, always.
RouteOf(op) == op

Request(op, via, token, seen, body, claimed, blob, scoped, replica) ==
    [op |-> RouteOf(op), via |-> via, token |-> token, seen |-> seen, body |-> body,
     claimed |-> claimed, blob |-> blob, scoped |-> scoped, replica |-> replica]

Send(c, req) ==
    /\ call[c] = Idle
    /\ calls < MaxCalls
    /\ calls' = calls + 1
    /\ call' = [call EXCEPT ![c] = [at |-> "sent", req |-> req]]
    /\ UNCHANGED <<version, mode, up, record, author, blobs, known, faults>>

\* A caller reads, or writes on what it last read.
Ask(c, op, via, token, body, claimed, scoped) ==
    LET seen == IF op \in WriteOps THEN known[c] ELSE None IN
    /\ op \in WriteOps => Sensible(op, seen)
    /\ Send(c, Request(op, via, token, seen, body, claimed, None, scoped, FALSE))

AskBlob(c, op, via, token, blob) ==
    Send(c, Request(op, via, token, None, None, None, blob, TRUE, FALSE))

\* sync's first pass at a key it holds: read it raw, and create it where it is
\* absent.
Replicate(c, via, token) ==
    /\ IsLive(known[c])
    /\ Send(c, Request("get_raw", via, token, known[c], None, None, None, TRUE, TRUE))

Reply(c, res) ==
    call' = [call EXCEPT ![c] = [at |-> "answered", req |-> call[c].req, result |-> res,
                                 wire |-> Wire(call[c].req.via, call[c].req.op, res)]]

\* The record a put carries; replication sends what it holds, verbatim.
PlanOf(req) ==
    IF req.replica
    THEN IF req.op = "put_raw" THEN PlanPutRaw(record, req.seen, None, Cap)
         ELSE PlanPut(record, req.seen, None, Cap)
    ELSE PlanFor(req, record, Cap)

\* Mutant: any authenticated writer may name the deleter.
AuthorClaimed(req, p) ==
    IF req.claimed # None THEN req.claimed ELSE IF p.name = None THEN author ELSE p.name

AuthorOf(req, p) ==
    IF req.op = "delete" THEN LET by == DeleteAuthor(p, req.claimed) IN IF by = None THEN author ELSE by
    ELSE IF req.op = "put" /\ p.name # None THEN p.name
    ELSE req.claimed

\* A call that never reaches the store, or finds it unreachable.
Refuse(c) ==
    LET req == call[c].req
        why == IF Unserved(req) THEN "Unserved" ELSE IF Denied(req) # None THEN Denied(req)
               ELSE IF ~up THEN "Failed" ELSE None
    IN  /\ call[c].at = "sent"
        /\ why # None
        /\ Reply(c, Res(why, None))
        /\ UNCHANGED <<version, mode, up, record, author, blobs, known, calls, faults>>

Admitted(c) == /\ call[c].at = "sent" /\ up
               /\ ~Unserved(call[c].req) /\ Denied(call[c].req) = None

ServeRead(c) ==
    /\ Admitted(c)
    /\ call[c].req.op \in Reads
    /\ Reply(c, ReadResult(call[c].req.op))
    /\ UNCHANGED <<version, mode, up, record, author, blobs, known, calls, faults>>

ServeBlobRead(c) ==
    /\ Admitted(c)
    /\ call[c].req.op \in BlobReads
    /\ Reply(c, ReadBlobResult(call[c].req.op, call[c].req.blob))
    /\ UNCHANGED <<version, mode, up, record, author, blobs, known, calls, faults>>

ServeBlob(c) ==
    /\ Admitted(c)
    /\ call[c].req.op \in {"put_blob", "delete_blob"}
    /\ blobs' = IF call[c].req.op = "put_blob" THEN blobs \cup {call[c].req.blob}
                ELSE blobs \ {call[c].req.blob}
    /\ Reply(c, Res("Stored", call[c].req.blob))
    /\ UNCHANGED <<version, mode, up, record, author, known, calls, faults>>

Carry(c) ==
    LET req  == call[c].req
        plan == PlanOf(req)
    IN  /\ record' = Apply(record, plan)
        /\ author' = IF plan.outcome = "Write" THEN AuthorOf(req, Principal(req.token)) ELSE author
        /\ Reply(c, PlanResult(req.op, plan))
        /\ UNCHANGED <<version, mode, up, blobs, known, calls, faults>>

ServeWrite(c) ==
    /\ Admitted(c)
    /\ call[c].req.op \in PutOps \cup {"delete"}
    /\ Carry(c)

\* Service::purge: a live record at the revision named is refused, on a read of
\* its own.
CheckPurge(c) ==
    LET req == call[c].req IN
    /\ Admitted(c)
    /\ req.op = "purge"
    /\ IF IsLive(record) /\ record.revision = req.seen.revision
       THEN Reply(c, Res("Invalid", None))
       ELSE call' = [call EXCEPT ![c].at = "checked"]
    /\ UNCHANGED <<version, mode, up, record, author, blobs, known, calls, faults>>

ServePurge(c) == call[c].at = "checked" /\ up /\ Carry(c)

(***************************************************************************)
(* Answers                                                                 *)
(***************************************************************************)

Answer(c) == Decode(call[c].req.via, call[c].req.op, call[c].wire)

\* The client keeps what it read; a replica whose key is absent goes on to put_raw.
Receive(c) ==
    LET req == call[c].req
        goOn == req.replica /\ Answer(c) = Res("Absent", None)
    IN  /\ call[c].at = "answered"
        /\ known' = [known EXCEPT ![c] = CASE Answer(c).tag = "Found" /\ req.op \in {"get", "get_raw"}
                                                 -> Answer(c).val
                                           [] Answer(c).tag = "Absent" /\ ~req.replica
                                              /\ req.op \in {"get", "get_raw"} -> None
                                           [] OTHER -> @]
        /\ call' = [call EXCEPT
              ![c] = IF goOn THEN [at |-> "sent", req |-> [req EXCEPT !.op = RouteOf("put_raw")]]
                     ELSE Idle]
        /\ UNCHANGED <<version, mode, up, record, author, blobs, calls, faults>>

\* The connection breaks: the client sees an error whether or not the daemon has
\* carried the call out, and sends nothing again.
Break(c) ==
    /\ call[c].at \in {"sent", "answered"}
    /\ faults < MaxFaults
    /\ faults' = faults + 1
    /\ call' = [call EXCEPT ![c] = Idle]
    /\ UNCHANGED <<version, mode, up, record, author, blobs, known, calls>>

\* Another process writes to the same store, under a name of its own.
Elsewhere(op, body) ==
    LET plan == PlanFor([op |-> op, seen |-> record, body |-> body], record, Cap) IN
    /\ calls < MaxCalls /\ up
    /\ Sensible(op, record)
    /\ plan.outcome \in {"Write", "Remove"}
    /\ calls' = calls + 1
    /\ record' = Apply(record, plan)
    /\ author' = None
    /\ UNCHANGED <<version, mode, up, blobs, call, known, faults>>

Outage == /\ faults < MaxFaults
          /\ faults' = faults + 1
          /\ up' = FALSE
          /\ UNCHANGED <<version, mode, record, author, blobs, call, known, calls>>

Recover == /\ ~up
           /\ up' = TRUE
           /\ UNCHANGED <<version, mode, record, author, blobs, call, known, calls, faults>>

\* The daemon is upgraded while clients hold what they read from the old one.
UpgradeDaemon == /\ version = "old"
                 /\ version' = "new"
                 /\ UNCHANGED <<mode, up, record, author, blobs, call, known, calls, faults>>

Next ==
    \/ \E c \in Clients, via \in {"http", "grpc"}, token \in Tokens \cup {None} :
          \/ \E op \in {"get", "get_raw", "purge"} : Ask(c, op, via, token, None, None, TRUE)
          \/ \E op \in {"list", "list_raw"}, scoped \in BOOLEAN :
                Ask(c, op, via, token, None, None, scoped)
          \/ \E body \in NewBodies, claimed \in Claims :
                Ask(c, "put", via, token, body, claimed, TRUE)
          \/ \E claimed \in Claims \cup {None} :
                Ask(c, "delete", via, token, None, claimed, TRUE)
          \/ \E op \in BlobOps, blob \in Blobs : AskBlob(c, op, via, token, blob)
          \/ Replicate(c, via, token)
    \/ \E c \in Clients : \/ Refuse(c) \/ ServeRead(c) \/ ServeBlobRead(c) \/ ServeBlob(c)
                          \/ ServeWrite(c) \/ CheckPurge(c) \/ ServePurge(c) \/ Receive(c) \/ Break(c)
    \/ \E op \in {"put", "delete", "purge"}, body \in NewBodies : Elsewhere(op, body)
    \/ Outage \/ Recover \/ UpgradeDaemon

Spec == Init /\ [][Next]_vars

(***************************************************************************)
(* Properties                                                              *)
(***************************************************************************)

\* An answer says what happened: a client is told of a record, an absence, a
\* commit, a conflict or a deletion only when that is what the store answered;
\* NotFound and Invalid only when the store was left alone for that reason; and
\* never that a key it may not see is absent (#147, #299, gonzalo#203).
AnswersTrue ==
    \A c \in Clients : call[c].at = "answered" =>
        \/ Answer(c) = call[c].result
        \/ Answer(c) = Backend /\ call[c].result.tag \notin Succeeded \cup {"Conflict", "NotFound"}
        \/ Answer(c) = Upgrade /\ call[c].result.tag = "Unserved"

\* A caller cannot tell the transports apart: the other one would have given the
\* same answer.  The presence check of a daemon that predates it is the documented
\* exception (DAEMON_PREDATES_BLOB_PRESENCE).
TransportsAgree ==
    \A c \in Clients :
        call[c].at = "answered" /\ <<call[c].req.op, call[c].result.tag>> # <<"has_blob", "Unserved">> =>
        \A via \in {"http", "grpc"} :
            Decode(via, call[c].req.op, Wire(via, call[c].req.op, call[c].result)) = Answer(c)

\* A principal's name on a record is true: with tokens, a record comes to carry the
\* name of a principal only by a write of its own, or by an admin's replication or
\* delete on its behalf (ADR 0015, delete_author).
AuthorUnforgeable ==
    [][mode = "Enabled" /\ author' # author /\ author' # None
       => \E c \in Clients :
             /\ call'[c] # call[c]
             /\ \/ call[c].req.token = author'
                \/ IsAdmin(Principal(call[c].req.token))
                   /\ call[c].req.op \in {"delete", "put_raw"}]_vars

\* Replicating through a daemon never brings a deleted record back, be it one
\* without the replication routes (DAEMON_PREDATES_REPLICATION): a replica's write
\* never replaces a tombstone that knows of it by a live record.
NoResurrection ==
    [][\A c \in Clients :
          /\ call[c].at = "sent" /\ call[c].req.replica
          /\ record # None /\ IsTombstone(record)
          /\ call[c].req.seen.revision \in record.ancestors
          /\ call'[c] # call[c]
          => ~IsLive(record')]_vars

\* A client is told what the store said, in the same words over either transport.
AnswersHold == AnswersTrue /\ TransportsAgree
=============================================================================
