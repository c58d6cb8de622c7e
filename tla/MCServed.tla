------------------------------ MODULE MCServed ------------------------------
(***************************************************************************)
(* Small instances of a store and of the two servers before one, side by    *)
(* side: `part' is chosen at the start and only that instance moves.        *)
(* "store" is RecordStore; "mcp" is Mcp with one agent, two views and the   *)
(* index runs beside them; "daemon" is Daemon with an admin and a principal *)
(* that writes the namespace and only reads blobs.                          *)
(***************************************************************************)
EXTENDS MCRecordStore, Served

TwoBodies == {nil, text}
Principals == [t \in {"root", "ann"} |->
    IF t = "root" THEN [read |-> {"*"}, write |-> {"*"}]
    ELSE [read |-> {"ns", "_blobs"}, write |-> {"ns"}]]

ServedSymmetry == SessionSymmetry \cup Permutations(Views)

VARIABLES part  \* the instance that moves

ASSUME DaemonInstance == D!DaemonAssumption

NoMcp == ~writes /\ ~rooted /\ \A v \in Views : manifest[v] = None
NoDaemon == version = "new" /\ mode = "Enabled" /\ record = None /\ blobs = {}
            /\ \A c \in Clients : known[c] = None

MCInit == /\ Init /\ M!Init /\ D!Init
          /\ \/ part = "store"  /\ NoMcp /\ NoDaemon
             \/ part = "mcp"    /\ NoDaemon
             \/ part = "daemon" /\ NoMcp

MCNext == /\ UNCHANGED part
          /\ \/ part = "store"  /\ Next   /\ UNCHANGED <<mcpVars, daemonVars>>
             \/ part = "mcp"    /\ M!Next /\ UNCHANGED <<vars, daemonVars>>
             \/ part = "daemon" /\ D!Next /\ UNCHANGED <<vars, mcpVars>>

MCSpec == MCInit /\ [][MCNext]_<<vars, part, mcpVars, daemonVars>>
=============================================================================
