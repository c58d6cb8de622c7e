---------------------------- MODULE StoreClients ----------------------------
(***************************************************************************)
(* Two clients of a store side by side: the garbage collection of BlobGc and *)
(* the imports of Tickets, with what the imports promise.                   *)
(***************************************************************************)
EXTENDS BlobGc

CONSTANTS Boards, Configs, Items, Categories, Lower, PageSize, MaxChanges   \* of Tickets

VARIABLES conn, remote, order, store, sync, wrote, changes                 \* of Tickets

T == INSTANCE Tickets

ticketVars == <<conn, remote, order, store, sync, wrote, changes>>

\* A state that was set, and that set_state reported as set, reads back as what was
\* asked for as far as the provider can say it: done is not read as live nor live as
\* done, and done and canceled are told apart wherever the workflow can.
WriteBackReads == T!WriteBackReads

\* An import that ends well has mirrored every item nobody else touched while it ran,
\* whatever the imports of other connections did; where pages are numbers, which an
\* update shifts, it has if nothing at all was touched.
QuietSyncMirrors == T!QuietSyncMirrors
=============================================================================
