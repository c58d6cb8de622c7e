----------------------------- MODULE MCFsStore -----------------------------
(***************************************************************************)
(* Small instances of what every backend shares and of the one on a         *)
(* filesystem, side by side: `part' is chosen at the start and only that    *)
(* instance moves.  "fs" is FsStore on one record and one blob; "suite" the *)
(* calls of the conformance suite; "keys" the names a key is stored under;  *)
(* "bodies" the merges of diverged bodies.                                  *)
(***************************************************************************)
EXTENDS FsStore, TLC

CONSTANTS nil, ref

MCBodies == {nil, ref}
MCHash == [b \in MCBodies |-> IF b = nil THEN 1 ELSE 2]
ProcSymmetry == Permutations(Procs)

VARIABLES part,                                                    \* the instance that moves
          slot, times, clock, blobs, last, held, chain, born,      \* "suite"
          key, at, names, listed,                                  \* "keys"
          merging, outcome                                         \* "bodies"

C == INSTANCE Conformance WITH
        Kinds <- {"Topic", "VectorManifest"}, MaxCounter <- 2, MaxClock <- 2

P == INSTANCE KeyPaths WITH
        Letters <- {"2", "E", "%", ".", "/", "json", "blobs"}, MaxShort <- 1, MaxId <- 3

M == INSTANCE Merge WITH
        Bytes <- {"a", "b", "nl"}, Newline <- "nl", MaxBytes <- 4,
        Scalars <- {"null", "1"}, Fields <- {"f", "g"}, SubFields <- {"h"}, call <- merging

suiteVars == <<slot, times, clock, blobs, last, held, chain, born>>
keyVars == <<key, at, names, listed>>
bodyVars == <<merging, outcome>>
NoKeys == key = None /\ at = None /\ names = None /\ listed = None
NoBodies == merging = None /\ outcome = None

MCInit == /\ Init /\ C!Init
          /\ \/ part \in {"fs", "suite"} /\ NoKeys /\ NoBodies
             \/ part = "keys"   /\ P!Init /\ NoBodies
             \/ part = "bodies" /\ NoKeys /\ M!Init

MCNext == /\ UNCHANGED part
          /\ \/ part = "fs"     /\ Next   /\ UNCHANGED <<suiteVars, keyVars, bodyVars>>
             \/ part = "suite"  /\ C!Next /\ UNCHANGED <<vars, keyVars, bodyVars>>
             \/ part = "keys"   /\ P!Next /\ UNCHANGED <<vars, suiteVars, bodyVars>>
             \/ part = "bodies" /\ M!Next /\ UNCHANGED <<vars, suiteVars, keyVars>>

MCSpec == MCInit /\ [][MCNext]_<<vars, part, suiteVars, keyVars, bodyVars>>

\* The suite's promises hold in every history of calls, not only in those its cases make
\* (run_store_conformance, run_tombstone_conformance; AncestryStore).
SuiteHolds == C!SuiteHolds

\* A listing gives back exactly the keys that were written, whatever reserved characters
\* they hold, and in one bucket records, tombstone markers, collection flags and blobs
\* are never taken for one another (paths.rs: "decode_segment is its exact inverse"; ADR
\* 0025: "the two key spaces are disjoint by construction").  A path drops empty
\* components, so the walk is asked only for keys without one.
KeysUnambiguous == part = "keys" => P!KeysUnambiguous

\* A merge loses, fuses and invents nothing: ours survives at the front of an appended
\* body and every line of theirs in order, merging again adds nothing, a field only one
\* side changed takes that side's value, and the order of the sides does not matter to
\* a structured merge (append_only_merge, structured_merge).
MergesAreFaithful == part = "bodies" => M!MergesAreFaithful
=============================================================================
