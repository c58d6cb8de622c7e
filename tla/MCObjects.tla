----------------------------- MODULE MCObjects -----------------------------
(***************************************************************************)
(* Small instances of the object store, side by side: `part' is chosen at    *)
(* the start and only that instance moves.  "write" is S3Store with two      *)
(* writers on one key of a flagged collection that nobody lists; "list" has  *)
(* a listing beside a writer in a collection that predates markers.          *)
(***************************************************************************)
EXTENDS S3Store

CONSTANTS nil, x, y, k1, k2, w1, l1

MCBodies == {nil, x, y}
MCHash == [b \in MCBodies |-> CASE b = nil -> 1 [] b = x -> 2 [] b = y -> 3]

VARIABLES part,                                                       \* the instance that moves
          objects, markers, upgraded, client, listing, seen,          \* "list"
          calls, lists, losses

L == INSTANCE S3Store WITH
        Keys <- {k1, k2}, Writers <- {w1}, Listers <- {l1}, NewBodies <- {x}, Legacy <- TRUE,
        MaxOps <- 2, MaxListings <- 2, MaxFaults <- 1,
        object <- objects, marker <- markers, flag <- upgraded, writer <- client,
        lister <- listing, watch <- seen, ops <- calls, listings <- lists, faults <- losses

ASSUME InstancesAssumption == S3Assumption /\ L!S3Assumption

listVars == <<objects, markers, upgraded, client, listing, seen, calls, lists, losses>>

MCInit == /\ Init /\ L!Init
          /\ \/ part = "write" /\ \A k \in {k1, k2} : objects[k] = None
             \/ part = "list"

MCNext == /\ UNCHANGED part
          /\ \/ part = "write" /\ Next   /\ UNCHANGED listVars
             \/ part = "list"  /\ L!Next /\ UNCHANGED vars

MCSpec == MCInit /\ [][MCNext]_<<vars, part, listVars>>

\* A key that is live for the whole of a listing is in it, whatever markers old
\* deletes, crashes and other listings have left; and one that finds the collection
\* unflagged, as an upgrade does, reports only keys that were live at some moment of it
\* ("without any window in which a deleted record could reappear in a listing", ADR 0025).
UpgradesListExactly == L!ListingsAreExact
=============================================================================
