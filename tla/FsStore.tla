------------------------------ MODULE FsStore ------------------------------
(***************************************************************************)
(* The filesystem substrate (gonzalo-store-fs).  A record is one file,      *)
(* replaced under the record's flock by writing a temporary file, syncing   *)
(* it, renaming it into place and syncing the directory; a blob is          *)
(* published the same way, without a lock and under a temporary name of its *)
(* own.  One step is one system call, or several no one else can tell apart.*)
(*                                                                         *)
(* Processes see the directory as it is in memory.  What a power loss       *)
(* leaves of it is up to the file system: for each path any entry it has    *)
(* had since its directory was last synced, and of a file that was never    *)
(* synced, not the content.                                                 *)
(***************************************************************************)
EXTENDS StoreCalls

CONSTANTS Keys,       \* the records of one collection directory
          Blobs,      \* the blobs of the blobs directory
          Procs,      \* calls in flight, of one process or several
          NewBodies,  \* the bodies callers put
          Cap,        \* the ancestor cap
          Torn,       \* the content of a file whose bytes did not reach the disk
          MaxOps,     \* bound: calls made
          MaxListings,\* bound: listings made
          MaxFaults   \* bound: dead processes, failed system calls, power losses

ASSUME FsAssumption ==
    /\ Keys \cap Blobs = {}
    /\ Procs \cap Keys = {} /\ None \notin Procs
    /\ Torn \notin Record \cup Blobs
    /\ None \notin [data : Record \cup Blobs, synced : BOOLEAN]
    /\ NewBodies \subseteq Bodies
    /\ Cap \in Nat \ {0}
    /\ MaxOps \in Nat /\ MaxListings \in Nat /\ MaxFaults \in Nat

VARIABLES file,      \* path -> the file processes see there, or None
          temp,      \* temporary name -> the file there, or None
          survives,  \* path -> the files, or None, a power loss may leave there
          lock,      \* key -> the call that holds its lock, or None
          call,      \* call in flight -> where it is
          listing,   \* a listing of the collection
          promised,  \* history: path -> what the last acknowledged write promised
          ops, listings, faults

vars == <<file, temp, survives, lock, call, listing, promised, ops, listings, faults>>

Paths == Keys \cup Blobs
Directory(path) == IF path \in Keys THEN Keys ELSE Blobs
File(data, synced) == [data |-> data, synced |-> synced]

\* read_record, read_current: the record, or None where there is no file.
Stored(k) == IF file[k] = None THEN None ELSE file[k].data

Idle == [pc |-> "idle", op |-> None, path |-> None, seen |-> None, body |-> EmptyBody, send |-> None]
NoListing == [pc |-> "idle", todo |-> {}, out |-> {}, always |-> {}, ever |-> {}]
Nothing == [is |-> "nothing", counter |-> 0]

Init == /\ file = [path \in Paths |-> None]
        /\ temp = [name \in Keys \cup Procs |-> None]
        /\ survives = [path \in Paths |-> {None}]
        /\ lock = [k \in Keys |-> None]
        /\ call = [p \in Procs |-> Idle]
        /\ listing = NoListing
        /\ promised = [path \in Paths |-> Nothing]
        /\ ops = 0 /\ listings = 0 /\ faults = 0

(***************************************************************************)
(* Calls                                                                   *)
(***************************************************************************)

\* The call returns, or its process dies: either way its lock is released.
Returned(p) == /\ call' = [call EXCEPT ![p] = Idle]
               /\ lock' = [k \in Keys |-> IF lock[k] = p THEN None ELSE lock[k]]

Goes(p, new) == call' = [call EXCEPT ![p] = new] /\ UNCHANGED lock

Call(p, k, op, seen, body) ==
    /\ call[p].pc = "idle"
    /\ ops < MaxOps
    /\ Sensible(op, seen)
    /\ Goes(p, [Idle EXCEPT !.pc = "lock", !.op = op, !.path = k, !.seen = seen, !.body = body])
    /\ ops' = ops + 1
    /\ UNCHANGED <<file, temp, survives, listing, promised, listings, faults>>

\* Mutant: the record was read before the lock was taken.
PlanFromSeen(p) ==
    LET c    == call[p]
        plan == PlanFor(c, c.seen, Cap)
    IN  /\ c.pc = "lock"
        /\ lock[c.path] = None
        /\ plan.outcome = "Write"
        /\ lock' = [lock EXCEPT ![c.path] = p]
        /\ call' = [call EXCEPT ![p] = [c EXCEPT !.pc = "create", !.send = plan.record]]
        /\ UNCHANGED <<file, temp, survives, listing, promised, ops, listings, faults>>

\* put_locked, delete_locked, purge_locked: take the lock, read, plan.
LockAndPlan(p) ==
    LET c    == call[p]
        plan == PlanFor(c, Stored(c.path), Cap)
    IN  /\ c.pc = "lock"
        /\ lock[c.path] = None
        /\ IF plan.outcome \in {"Write", "Remove"}
           THEN /\ lock' = [lock EXCEPT ![c.path] = p]
                /\ call' = [call EXCEPT
                       ![p] = [c EXCEPT !.pc = IF plan.outcome = "Write" THEN "create" ELSE "unlink",
                                        !.send = plan.record]]
           ELSE Returned(p)
        /\ UNCHANGED <<file, temp, survives, listing, promised, ops, listings, faults>>

\* put_blob of content that is already there returns at once.
PutBlob(p, b) ==
    /\ call[p].pc = "idle"
    /\ ops < MaxOps
    /\ ops' = ops + 1
    /\ IF file[b] # None
       THEN UNCHANGED <<call, lock>>
       ELSE Goes(p, [Idle EXCEPT !.pc = "create", !.op = "put_blob", !.path = b, !.send = b])
    /\ UNCHANGED <<file, temp, survives, listing, promised, listings, faults>>

\* Record files share one temporary name, blobs have one of their own.
TempName(p) == IF call[p].path \in Keys THEN call[p].path ELSE p

CreateTemp(p) ==
    /\ call[p].pc = "create"
    /\ temp' = [temp EXCEPT ![TempName(p)] = File(call[p].send, FALSE)]
    /\ Goes(p, [call[p] EXCEPT !.pc = "sync"])
    /\ UNCHANGED <<file, survives, listing, promised, ops, listings, faults>>

SyncTemp(p) ==
    /\ call[p].pc = "sync"
    /\ temp' = [temp EXCEPT ![TempName(p)] = File(@.data, TRUE)]
    /\ Goes(p, [call[p] EXCEPT !.pc = "rename"])
    /\ UNCHANGED <<file, survives, listing, promised, ops, listings, faults>>

\* The path shows new from here on, and the disk may show it too.
Publish(p, new) ==
    LET path == call[p].path IN
    /\ file' = [file EXCEPT ![path] = new]
    /\ survives' = [survives EXCEPT ![path] = @ \cup {new}]
    /\ promised' = IF promised[path].is = "gone" \/ new = None
                   THEN [promised EXCEPT ![path] = Nothing] ELSE promised
    /\ listing' = [listing EXCEPT
                      !.always = {k \in @ : file'[k] # None /\ IsLive(file'[k].data)},
                      !.ever = @ \cup {k \in Keys : file'[k] # None /\ IsLive(file'[k].data)}]
    /\ Goes(p, [call[p] EXCEPT !.pc = "fsync"])

Rename(p) ==
    /\ call[p].pc = "rename"
    /\ Publish(p, temp[TempName(p)])
    /\ temp' = [temp EXCEPT ![TempName(p)] = None]
    /\ UNCHANGED <<ops, listings, faults>>

\* remove_durable's unlink.
Unlink(p) ==
    /\ call[p].pc = "unlink"
    /\ Publish(p, None)
    /\ UNCHANGED <<temp, ops, listings, faults>>

\* What an acknowledgement promises: this record or a later one, no record, or
\* this blob.
Promise(path) ==
    CASE file[path] = None -> [is |-> "gone", counter |-> 0]
      [] path \in Blobs /\ file[path] # None -> [is |-> "blob", counter |-> 0]
      [] path \in Keys /\ file[path] # None ->
            [is |-> "record", counter |-> file[path].data.revision.counter]

\* Mutant: the call is acknowledged before the directory is synced.
AckUnsynced(p) ==
    /\ call[p].pc = "fsync"
    /\ promised' = [promised EXCEPT ![call[p].path] = Promise(call[p].path)]
    /\ Returned(p)
    /\ UNCHANGED <<file, temp, survives, listing, ops, listings, faults>>

\* fsync_dir: every entry of the directory is now on disk.  Then the answer.
SyncDir(p) ==
    LET path == call[p].path IN
    /\ call[p].pc = "fsync"
    /\ survives' = [q \in Paths |-> IF q \in Directory(path) THEN {file[q]} ELSE survives[q]]
    /\ promised' = [promised EXCEPT ![path] = Promise(path)]
    /\ Returned(p)
    /\ UNCHANGED <<file, temp, listing, ops, listings, faults>>

\* delete_blob, by a sweep: no sync follows.
DeleteBlob(b) ==
    /\ file[b] # None
    /\ ops < MaxOps
    /\ ops' = ops + 1
    /\ file' = [file EXCEPT ![b] = None]
    /\ survives' = [survives EXCEPT ![b] = @ \cup {None}]
    /\ promised' = [promised EXCEPT ![b] = Nothing]
    /\ UNCHANGED <<temp, lock, call, listing, listings, faults>>

(***************************************************************************)
(* list: the names first, then each file, lock-free                        *)
(***************************************************************************)

LiveNow == {k \in Keys : IsLive(Stored(k))}

\* collect_keys.
ListNames ==
    /\ listing.pc = "idle"
    /\ listings < MaxListings
    /\ listings' = listings + 1
    /\ listing' = [pc |-> "read", todo |-> {k \in Keys : file[k] # None}, out |-> {},
                   always |-> LiveNow, ever |-> LiveNow]
    /\ UNCHANGED <<file, temp, survives, lock, call, promised, ops, faults>>

\* listed_live: hides a tombstone and drops a file that has vanished.
ListRead(k) ==
    /\ listing.pc = "read"
    /\ k \in listing.todo
    /\ listing' = [listing EXCEPT !.todo = @ \ {k},
                                  !.out = IF IsLive(Stored(k)) THEN @ \cup {k} ELSE @]
    /\ UNCHANGED <<file, temp, survives, lock, call, promised, ops, listings, faults>>

ListDone ==
    /\ listing.pc = "read" /\ listing.todo = {}
    /\ listing' = [listing EXCEPT !.pc = "done"]
    /\ UNCHANGED <<file, temp, survives, lock, call, promised, ops, listings, faults>>

(***************************************************************************)
(* Faults                                                                  *)
(***************************************************************************)

Fault == faults < MaxFaults /\ faults' = faults + 1

\* The process dies or a system call fails: the kernel drops the lock, and the
\* directory stays as it is.
Die(p) ==
    /\ call[p].pc # "idle"
    /\ Fault
    /\ Returned(p)
    /\ UNCHANGED <<file, temp, survives, listing, promised, ops, listings>>

\* An entry that reached the disk, and its content if that did too.
OnDisk(f) == IF f # None /\ ~f.synced THEN File(Torn, TRUE) ELSE f

PowerLoss ==
    /\ Fault
    /\ \E left \in [Paths -> UNION {survives[path] : path \in Paths}] :
          /\ \A path \in Paths : left[path] \in survives[path]
          /\ file' = [path \in Paths |-> OnDisk(left[path])]
    /\ survives' = [path \in Paths |-> {file'[path]}]
    /\ call' = [p \in Procs |-> Idle]
    /\ lock' = [k \in Keys |-> None]
    /\ listing' = NoListing
    /\ UNCHANGED <<temp, promised, ops, listings>>

(***************************************************************************)
(* Specification                                                           *)
(***************************************************************************)

CallNext(p) ==
    \/ \E k \in Keys, op \in WriteOps, body \in NewBodies :
          \E seen \in {None, Stored(k)} : Call(p, k, op, seen, body)
    \/ LockAndPlan(p)
    \/ \E b \in Blobs : PutBlob(p, b)
    \/ CreateTemp(p)
    \/ SyncTemp(p)
    \/ Rename(p)
    \/ Unlink(p)
    \/ SyncDir(p)
    \/ Die(p)

Next == \/ \E p \in Procs : CallNext(p)
        \/ \E b \in Blobs : DeleteBlob(b)
        \/ ListNames
        \/ \E k \in Keys : ListRead(k)
        \/ ListDone
        \/ PowerLoss

Spec == Init /\ [][Next]_vars

(***************************************************************************)
(* Properties                                                              *)
(***************************************************************************)

\* A record file is whole, and a blob's content is its own, at every moment and
\* after every power loss ("readers never observe a torn file").
NeverTorn ==
    \A path \in Paths :
        \A f \in {file[path]} \cup survives[path] :
            f # None => /\ f.synced /\ f.data # Torn
                        /\ path \in Blobs => f.data = path

\* What was acknowledged survives processes that die, failed calls and power
\* losses: the record or a later one, the removal, the blob (write_durable,
\* remove_durable, put_blob).
AcknowledgedSurvives ==
    \A path \in Paths :
        LET p == promised[path]
            f == file[path]
        IN  CASE p.is = "nothing" -> TRUE
              [] p.is = "gone"    -> f = None
              [] p.is = "blob"    -> f # None
              [] p.is = "record"  -> f # None /\ f.data.revision.counter >= p.counter

\* A listing holds every key that was live throughout it, and none that was not
\* live at some moment of it, whatever writers and purges do meanwhile.
ListsLiveKeys ==
    listing.pc = "done" => /\ listing.always \subseteq listing.out
                           /\ listing.out \subseteq listing.ever

\* The contract's records are what readers see; what it calls volatile is what the
\* other files a power loss may leave would show.
Content(f) == IF f = None THEN None ELSE f.data
Shown == [k \in Keys |-> Content(file[k])]
Unsettled == [k \in Keys |-> {Content(f) : f \in survives[k] \ {file[k]}}]

Contract == INSTANCE StoreContract WITH records <- Shown, volatile <- Unsettled

\* The lock-free readers of a directory that changes call by call see the store
\* contract: each visible change is one whole write that folds in the very record
\* it replaces, and only a power loss takes an unsynced one back.
ImplementsContract == Contract!Spec

\* Readers and power losses find whole records: no file is ever torn, what was
\* acknowledged is there, and a listing without the lock gives the live keys.
FilesAreSound == NeverTorn /\ AcknowledgedSurvives /\ ListsLiveKeys
=============================================================================
