------------------------------- MODULE Served -------------------------------
(***************************************************************************)
(* A record store and the two servers before one: what the daemon promises  *)
(* its clients and the MCP server its agents, stated beside what RecordStore *)
(* promises the sessions of one process.  The servers' stores hold one       *)
(* record, with a cap of its own.                                           *)
(***************************************************************************)
EXTENDS RecordStore

CONSTANTS Namespace, Blobs, Registry, Clients, NewBodies, Claims,  \* of Daemon
          ServedCap, MaxCalls, MaxFaults,
          Agents, Views, ToolBodies, MaxToolCalls, MaxChanges      \* of Mcp

VARIABLES version, mode, up, record, author, blobs, request, known, requests, faults,  \* of Daemon
          writes, rooted, manifest, db, indexing, memo, call, shown, calls, changes     \* of Mcp

D == INSTANCE Daemon WITH Cap <- ServedCap, call <- request, calls <- requests

M == INSTANCE Mcp WITH
        Bodies <- ToolBodies, Cap <- ServedCap, MaxCalls <- MaxToolCalls, slot <- memo, seen <- shown

mcpVars == <<writes, rooted, manifest, db, indexing, memo, call, shown, calls, changes>>
daemonVars == <<version, mode, up, record, author, blobs, request, known, requests, faults>>

\* A principal's name on a record is true: with tokens, a record comes to carry the
\* name of a principal only by a write of its own, or by an admin's replication or
\* delete on its behalf (ADR 0015, delete_author).
AuthorUnforgeable == D!AuthorUnforgeable

\* Replicating through a daemon never brings a deleted record back, be it one
\* without the replication routes (DAEMON_PREDATES_REPLICATION): a replica's write
\* never replaces a tombstone that knows of it by a live record.
NoResurrection == D!NoResurrection

\* An answer says what happened: a client is told of a record, an absence, a
\* commit, a conflict or a deletion only when that is what the store answered;
\* NotFound and Invalid only when the store was left alone for that reason; and
\* never that a key it may not see is absent (#147, #299, gonzalo#203).  The other
\* transport would have given the same answer, but for the presence check of a daemon
\* that predates it (DAEMON_PREDATES_BLOB_PRESENCE).
AnswersHold == D!AnswersHold

\* What an agent is told of the views is so: an empty answer is of a view that is
\* there, the parts of an answer are of one version, discovery leaves no view out, and
\* the tools it is offered are served (dispatch, view_exists, view, graph_views).
ViewAnswersHold == M!ViewAnswersHold
=============================================================================
