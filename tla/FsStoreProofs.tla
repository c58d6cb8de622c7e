--------------------------- MODULE FsStoreProofs ---------------------------
(***************************************************************************)
(* The filesystem substrate is sound and implements the store contract, for *)
(* any number of keys, blobs, calls in flight, listings and faults.         *)
(*                                                                         *)
(* The argument is the lock: from its plan to its directory sync a call      *)
(* holds the lock of its record, so the temporary file and the record it     *)
(* planned against are its own, and what it renames into place is whole,     *)
(* synced, and folds in the very record it replaces.                         *)
(***************************************************************************)
EXTENDS FsStore, RecordsProofs

\* Files as they are once published: with their content on disk.
Published == [data : Record \cup Blobs, synced : {TRUE}] \cup {None}

Calls == [pc   : {"idle", "lock", "create", "sync", "rename", "unlink", "fsync"},
          op   : WriteOps \cup {"put_blob", None},
          path : Paths \cup {None},
          seen : FiniteSlot,
          body : Bodies,
          send : Record \cup Blobs \cup {None}]

Listings == [pc : {"idle", "read", "done"}, todo : SUBSET Keys, out : SUBSET Keys,
             always : SUBSET Keys, ever : SUBSET Keys]

Promises == [is : {"nothing", "gone", "blob", "record"}, counter : Nat]

TypesOK ==
    /\ file \in [Paths -> Published]
    /\ temp \in [Keys \cup Procs -> [data : Record \cup Blobs, synced : BOOLEAN] \cup {None}]
    /\ survives \in [Paths -> SUBSET Published]
    /\ lock \in [Keys -> Procs \cup {None}]
    /\ call \in [Procs -> Calls]
    /\ listing \in Listings
    /\ promised \in [Paths -> Promises]
    /\ ops \in Nat /\ listings \in Nat /\ faults \in Nat

\* What a reader, now or after a power loss, finds at a path.
Whole(path, f) ==
    f # None => /\ path \in Keys => f.data \in Record /\ FiniteChain(f.data)
                /\ path \in Blobs => f.data = path

FilesOK == \A path \in Paths : \A f \in {file[path]} \cup survives[path] : Whole(path, f)

Holding == {"create", "sync", "rename", "unlink", "fsync"}
Writing == {"create", "sync", "rename"}

\* A call past its plan holds its record's lock; until it publishes, what it will write
\* is written over the record that is there now, and its temporary file is its own.
CallOK(p) ==
    LET c == call[p] IN
    /\ c.pc = "lock" => c.path \in Keys /\ IsRequest(c)
    /\ c.pc \in Holding => c.path \in Paths /\ (c.path \in Keys => lock[c.path] = p)
    /\ c.pc \in Writing => IF c.path \in Keys THEN WrittenOver(Stored(c.path), c.send, Cap)
                                              ELSE c.send = c.path
    /\ c.pc = "sync" => temp[TempName(p)] = File(c.send, FALSE)
    /\ c.pc = "rename" => temp[TempName(p)] = File(c.send, TRUE)
    /\ c.pc = "unlink" => c.path \in Keys /\ Stored(c.path) # None

CallsOK == \A p \in Procs : CallOK(p)

\* A promise binds every file a power loss may leave, not only the one seen now.
Kept(path, f) ==
    LET p == promised[path] IN
    /\ p.is = "gone" => f = None
    /\ p.is = "blob" => f # None
    /\ p.is = "record" => path \in Keys /\ f # None /\ f.data.revision.counter >= p.counter

PromisesOK == \A path \in Paths : \A f \in {file[path]} \cup survives[path] : Kept(path, f)

\* A listing has read, or still has to read, every key that was live throughout.
ListingOK ==
    listing.pc # "idle" =>
        /\ listing.always \subseteq LiveNow
        /\ listing.always \subseteq listing.out \cup (IF listing.pc = "read" THEN listing.todo ELSE {})
        /\ listing.out \subseteq listing.ever
        /\ LiveNow \subseteq listing.ever

IndInv == TypesOK /\ FilesOK /\ CallsOK /\ PromisesOK /\ ListingOK

LEMMA FsInit == Init => IndInv
<1> SUFFICES ASSUME Init PROVE IndInv OBVIOUS
<1>0. Idle \in Calls /\ NoListing \in Listings /\ Nothing \in Promises /\ None \in Published
  BY BodiesAssumption DEF Idle, Calls, NoListing, Listings, Nothing, Promises, Published, FiniteSlot,
     Slot, FiniteChain
<1>1. TypesOK BY <1>0 DEF Init, TypesOK
<1>2. FilesOK BY DEF Init, FilesOK, Whole
<1>3. CallsOK BY DEF Init, CallsOK, CallOK, Idle, Holding, Writing
<1>4. PromisesOK BY DEF Init, PromisesOK, Kept, Nothing
<1>5. ListingOK BY DEF Init, ListingOK, NoListing
<1> QED BY <1>1, <1>2, <1>3, <1>4, <1>5 DEF IndInv

\* The facts every step starts from.
LEMMA FsFacts ==
    ASSUME IndInv, NEW p \in Procs
    PROVE  /\ call[p] \in Calls
           /\ \A k \in Keys : Stored(k) \in FiniteSlot /\ (Stored(k) = None <=> file[k] = None)
           /\ call[p].pc \in Holding => TempName(p) \in Keys \cup Procs
<1>1. call[p] \in Calls BY DEF IndInv, TypesOK
<1>2. ASSUME NEW k \in Keys PROVE Stored(k) \in FiniteSlot /\ (Stored(k) = None <=> file[k] = None)
  <2>1. CASE file[k] = None BY <2>1 DEF Stored, FiniteSlot, Slot, FiniteChain
  <2>2. CASE file[k] # None
    <3>1. file[k].data \in Record /\ FiniteChain(file[k].data)
      BY <2>2 DEF IndInv, FilesOK, Whole, Paths
    <3> QED BY <2>2, <3>1, NoneIsNotRecord DEF Stored, FiniteSlot, Slot
  <2> QED BY <2>1, <2>2
<1>3. call[p].pc \in Holding => TempName(p) \in Keys \cup Procs BY DEF TempName
<1> QED BY <1>1, <1>2, <1>3

\* The lock at work: a step of p leaves another call's claims standing when it keeps to
\* its own call, to records no other call has locked, and to its own temporary files.
LEMMA OthersStand ==
    ASSUME IndInv, NEW p \in Procs, NEW q \in Procs, q # p,
           call'[q] = call[q],
           \A k \in Keys : lock[k] = q => lock'[k] = q /\ file'[k] = file[k] /\ temp'[k] = temp[k],
           temp'[q] = temp[q]
    PROVE  CallOK(q)'
<1> DEFINE c == call[q]
<1>1. CallOK(q) /\ c \in Calls BY DEF IndInv, CallsOK, TypesOK
<1>2. c.pc \in Holding /\ c.path \in Keys =>
         /\ lock'[c.path] = q
         /\ Stored(c.path)' = Stored(c.path)
         /\ temp'[c.path] = temp[c.path]
  BY <1>1 DEF CallOK, Stored
<1>3. c.pc \in Holding => temp'[TempName(q)] = temp[TempName(q)] /\ TempName(q)' = TempName(q)
  BY <1>2 DEF TempName
<1>4. /\ c.pc \in Writing => c.pc \in Holding
      /\ c.pc \in {"sync", "rename", "unlink"} => c.pc \in Holding
      /\ c.pc = "lock" => c.pc \notin Holding
  BY DEF Writing, Holding
<1> QED BY <1>1, <1>2, <1>3, <1>4 DEF CallOK

\* What a call that keeps still, or ends, claims is nothing.
LEMMA IdleIsOK == ASSUME NEW p, call'[p].pc = "idle" PROVE CallOK(p)'
BY DEF CallOK, Holding, Writing

\* Steps that leave the directory, the promises and the listing alone.
LEMMA SameFilesKeep ==
    ASSUME IndInv, UNCHANGED <<file, survives, promised, listing>>
    PROVE  (FilesOK /\ PromisesOK /\ ListingOK)'
<1>1. FilesOK' BY DEF IndInv, FilesOK, Whole
<1>2. PromisesOK' BY DEF IndInv, PromisesOK, Kept
<1>3. ListingOK' BY DEF IndInv, ListingOK, LiveNow, Stored
<1> QED BY <1>1, <1>2, <1>3

LEMMA CallKeeps ==
    ASSUME IndInv, NEW p \in Procs, NEW k \in Keys, NEW op \in WriteOps, NEW body \in NewBodies,
           NEW seen \in {None, Stored(k)}, Call(p, k, op, seen, body)
    PROVE  IndInv'
<1> DEFINE c == [Idle EXCEPT !.pc = "lock", !.op = op, !.path = k, !.seen = seen, !.body = body]
<1>0. seen \in FiniteSlot /\ body \in Bodies /\ k \in Paths
  BY FsFacts, FsAssumption DEF FiniteSlot, Slot, FiniteChain, Paths
<1>1. c.pc = "lock" /\ c.op = op /\ c.path = k /\ c.seen = seen /\ c.body = body
  BY DEF Idle
<1>7. c \in Calls
  <2>1. Idle \in Calls BY BodiesAssumption DEF Idle, Calls, FiniteSlot, Slot, FiniteChain
  <2> QED BY <1>0, <2>1 DEF Calls
<1> HIDE DEF c
<1>2. call' = [call EXCEPT ![p] = c] /\ lock' = lock BY DEF Call, Goes, c
<1>3. TypesOK' BY <1>7, <1>2 DEF IndInv, TypesOK, Call
<1>4. call'[p] = c BY <1>2 DEF IndInv, TypesOK
<1>5. CallOK(p)'
  <2>1. IsRequest(c) BY <1>0, <1>1 DEF Call, IsRequest
  <2> QED BY <1>1, <1>4, <2>1 DEF CallOK, Holding, Writing
<1>6. ASSUME NEW q \in Procs, q # p PROVE CallOK(q)'
  <2>1. call'[q] = call[q] BY <1>2, <1>6 DEF IndInv, TypesOK
  <2> QED BY <1>2, <1>6, <2>1, OthersStand DEF Call
<1> QED BY <1>3, <1>5, <1>6, SameFilesKeep DEF IndInv, CallsOK, Call

\* A call that returns, or dies, takes nothing but its own lock with it.
LEMMA ReturnedKeeps ==
    ASSUME IndInv, NEW p \in Procs, Returned(p), UNCHANGED <<file, temp>>
    PROVE  CallsOK' /\ call' \in [Procs -> Calls] /\ lock' \in [Keys -> Procs \cup {None}]
<1>0. Idle \in Calls BY BodiesAssumption DEF Idle, Calls, FiniteSlot, Slot, FiniteChain
<1>1. call' \in [Procs -> Calls] /\ lock' \in [Keys -> Procs \cup {None}]
  BY <1>0 DEF Returned, IndInv, TypesOK
<1>2. CallOK(p)'
  <2>1. call'[p].pc = "idle" BY DEF Returned, IndInv, TypesOK, Idle
  <2> QED BY <2>1, IdleIsOK
<1>3. ASSUME NEW q \in Procs, q # p PROVE CallOK(q)'
  <2>1. call'[q] = call[q] BY <1>3 DEF Returned, IndInv, TypesOK
  <2>2. \A k \in Keys : lock[k] = q => lock'[k] = q BY <1>3 DEF Returned
  <2> QED BY <1>3, <2>1, <2>2, OthersStand
<1> QED BY <1>1, <1>2, <1>3 DEF CallsOK

LEMMA LockAndPlanKeeps ==
    ASSUME IndInv, NEW p \in Procs, LockAndPlan(p)
    PROVE  IndInv'
<1> DEFINE c == call[p]
           plan == PlanFor(c, Stored(c.path), Cap)
<1>0. /\ c \in Calls /\ c.pc = "lock" /\ c.path \in Keys /\ IsRequest(c)
      /\ Stored(c.path) \in FiniteSlot /\ Cap \in Nat /\ lock[c.path] = None
  BY FsFacts, FsAssumption DEF LockAndPlan, IndInv, CallsOK, CallOK
<1>1. /\ plan.outcome = "Write" => WrittenOver(Stored(c.path), plan.record, Cap)
      /\ plan.outcome = "Remove" => Stored(c.path) # None
  BY <1>0, PlannedIsWritten
<1>2. plan.outcome = "Remove" => plan.record = None
  <2>1. plan.outcome = "Remove" => c.op = "purge" BY <1>0, PlannedIsWritten
  <2> QED BY <1>0, <2>1 DEF PlanFor, PlanPurge, Plan
<1> HIDE DEF plan
<1>3. CASE plan.outcome \in {"Write", "Remove"}
  <2> DEFINE d == [c EXCEPT !.pc = IF plan.outcome = "Write" THEN "create" ELSE "unlink",
                            !.send = plan.record]
  <2>1. /\ call' = [call EXCEPT ![p] = d] /\ lock' = [lock EXCEPT ![c.path] = p]
        /\ UNCHANGED <<file, temp, survives, listing, promised, ops, listings, faults>>
    BY <1>3 DEF LockAndPlan, plan
  <2>2. /\ d \in Calls /\ d.path = c.path /\ d.send = plan.record
        /\ d.pc = IF plan.outcome = "Write" THEN "create" ELSE "unlink"
    BY <1>0, <1>1, <1>2, <1>3 DEF Calls, WrittenOver
  <2> HIDE DEF d
  <2>3. TypesOK' BY <1>0, <2>1, <2>2 DEF IndInv, TypesOK
  <2>4. call'[p] = d /\ lock'[c.path] = p BY <1>0, <2>1 DEF IndInv, TypesOK
  <2>5. CallOK(p)'
    <3>1. \A k : Stored(k)' = Stored(k) BY <2>1 DEF Stored
    <3>2. c.path \in Paths BY <1>0 DEF Paths
    <3> QED BY <1>0, <1>1, <1>3, <2>2, <2>4, <3>1, <3>2 DEF CallOK, Holding, Writing
  <2>6. ASSUME NEW q \in Procs, q # p PROVE CallOK(q)'
    <3>1. call'[q] = call[q] BY <2>1, <2>6 DEF IndInv, TypesOK
    <3>2. \A k \in Keys : lock[k] = q => lock'[k] = q
      BY <1>0, <2>1, <2>6, FsAssumption DEF IndInv, TypesOK
    <3> QED BY <2>1, <2>6, <3>1, <3>2, OthersStand
  <2> QED BY <2>1, <2>3, <2>5, <2>6, SameFilesKeep DEF IndInv, CallsOK
<1>4. CASE plan.outcome \notin {"Write", "Remove"}
  <2>1. Returned(p) /\ UNCHANGED <<file, temp, survives, listing, promised, ops, listings, faults>>
    BY <1>4 DEF LockAndPlan, plan
  <2> QED BY <2>1, ReturnedKeeps, SameFilesKeep DEF IndInv, TypesOK
<1> QED BY <1>3, <1>4

LEMMA PutBlobKeeps ==
    ASSUME IndInv, NEW p \in Procs, NEW b \in Blobs, PutBlob(p, b)
    PROVE  IndInv'
<1>1. CASE file[b] # None
  <2>1. UNCHANGED <<file, temp, survives, lock, call, listing, promised, listings, faults>>
        /\ ops' = ops + 1
    BY <1>1 DEF PutBlob
  <2>2. TypesOK' BY <2>1 DEF IndInv, TypesOK
  <2>3. CallsOK' BY <2>1 DEF IndInv, CallsOK, CallOK, Stored, TempName
  <2> QED BY <2>1, <2>2, <2>3, SameFilesKeep DEF IndInv
<1>2. CASE file[b] = None
  <2> DEFINE c == [Idle EXCEPT !.pc = "create", !.op = "put_blob", !.path = b, !.send = b]
  <2>0. b \in Paths /\ b \notin Keys BY FsAssumption DEF Paths
  <2>1. c.pc = "create" /\ c.path = b /\ c.send = b BY DEF Idle
  <2>2. c \in Calls
    <3>1. Idle \in Calls BY BodiesAssumption DEF Idle, Calls, FiniteSlot, Slot, FiniteChain
    <3> QED BY <2>0, <3>1 DEF Calls
  <2> HIDE DEF c
  <2>3. /\ call' = [call EXCEPT ![p] = c] /\ ops' = ops + 1
        /\ UNCHANGED <<file, temp, survives, lock, listing, promised, listings, faults>>
    BY <1>2 DEF PutBlob, Goes, c
  <2>4. TypesOK' BY <2>2, <2>3 DEF IndInv, TypesOK
  <2>5. call'[p] = c BY <2>3 DEF IndInv, TypesOK
  <2>6. CallOK(p)' BY <2>0, <2>1, <2>5 DEF CallOK, Holding, Writing
  <2>7. ASSUME NEW q \in Procs, q # p PROVE CallOK(q)'
    <3>1. call'[q] = call[q] BY <2>3, <2>7 DEF IndInv, TypesOK
    <3> QED BY <2>3, <2>7, <3>1, OthersStand
  <2> QED BY <2>3, <2>4, <2>6, <2>7, SameFilesKeep DEF IndInv, CallsOK
<1> QED BY <1>1, <1>2

\* Writing to the temporary file touches no other call's: record files share a name only
\* under the record's lock, blobs share none.
LEMMA TempStep ==
    ASSUME IndInv, NEW p \in Procs, call[p].pc \in Holding,
           NEW f \in [data : Record \cup Blobs, synced : BOOLEAN] \cup {None},
           temp' = [temp EXCEPT ![TempName(p)] = f]
    PROVE  /\ temp' \in [Keys \cup Procs -> [data : Record \cup Blobs, synced : BOOLEAN] \cup {None}]
           /\ temp'[TempName(p)] = f
           /\ \A q \in Procs \ {p} :
                 /\ temp'[q] = temp[q]
                 /\ \A k \in Keys : lock[k] = q => temp'[k] = temp[k]
<1>1. TempName(p) \in Keys \cup Procs /\ temp \in [Keys \cup Procs -> [data : Record \cup Blobs, synced : BOOLEAN] \cup {None}]
  BY FsFacts DEF IndInv, TypesOK
<1>2. TempName(p) = p \/ (TempName(p) \in Keys /\ lock[TempName(p)] = p)
  <2>1. CallOK(p) BY DEF IndInv, CallsOK
  <2>2. call[p].path \in Keys => lock[call[p].path] = p BY <2>1 DEF CallOK
  <2> QED BY <2>2 DEF TempName
<1> QED BY <1>1, <1>2, FsAssumption

LEMMA CreateTempKeeps ==
    ASSUME IndInv, NEW p \in Procs, CreateTemp(p)
    PROVE  IndInv'
<1> DEFINE c == call[p]
           d == [c EXCEPT !.pc = "sync"]
           f == File(c.send, FALSE)
<1>0. c \in Calls /\ CallOK(p) /\ c.pc = "create" /\ c.pc \in Holding /\ c.pc \in Writing
  BY DEF IndInv, TypesOK, CallsOK, CreateTemp, Holding, Writing
<1>1. f \in [data : Record \cup Blobs, synced : BOOLEAN]
  BY <1>0 DEF CallOK, WrittenOver, Paths, File
<1>2. d \in Calls /\ d.pc = "sync" /\ d.path = c.path /\ d.send = c.send BY <1>0 DEF Calls
<1> HIDE DEF d, f
<1>3. /\ call' = [call EXCEPT ![p] = d] /\ temp' = [temp EXCEPT ![TempName(p)] = f]
      /\ UNCHANGED <<file, survives, lock, listing, promised, ops, listings, faults>>
  BY DEF CreateTemp, Goes, d, f
<1>4. call'[p] = d BY <1>3 DEF IndInv, TypesOK
<1>5. TempName(p)' = TempName(p) BY <1>2, <1>4 DEF TempName
<1>6. TypesOK' BY <1>0, <1>1, <1>2, <1>3, TempStep DEF IndInv, TypesOK
<1>7. CallOK(p)'
  <2>1. temp'[TempName(p)] = f BY <1>0, <1>1, <1>3, TempStep
  <2>2. \A k : Stored(k)' = Stored(k) BY <1>3 DEF Stored
  <2> QED BY <1>0, <1>2, <1>3, <1>4, <1>5, <2>1, <2>2 DEF CallOK, Holding, Writing, f
<1>8. ASSUME NEW q \in Procs, q # p PROVE CallOK(q)'
  <2>1. call'[q] = call[q] BY <1>3, <1>8 DEF IndInv, TypesOK
  <2>2. temp'[q] = temp[q] /\ \A k \in Keys : lock[k] = q => temp'[k] = temp[k]
    BY <1>0, <1>1, <1>3, <1>8, TempStep
  <2> QED BY <1>3, <1>8, <2>1, <2>2, OthersStand
<1> QED BY <1>3, <1>6, <1>7, <1>8, SameFilesKeep DEF IndInv, CallsOK

LEMMA SyncTempKeeps ==
    ASSUME IndInv, NEW p \in Procs, SyncTemp(p)
    PROVE  IndInv'
<1> DEFINE c == call[p]
           d == [c EXCEPT !.pc = "rename"]
           f == File(c.send, TRUE)
<1>0. /\ c \in Calls /\ CallOK(p) /\ c.pc = "sync" /\ c.pc \in Holding /\ c.pc \in Writing
      /\ temp[TempName(p)] = File(c.send, FALSE)
  BY DEF IndInv, TypesOK, CallsOK, SyncTemp, Holding, Writing, CallOK
<1>1. f \in [data : Record \cup Blobs, synced : BOOLEAN]
  BY <1>0 DEF CallOK, WrittenOver, Paths, File
<1>2. d \in Calls /\ d.pc = "rename" /\ d.path = c.path /\ d.send = c.send BY <1>0 DEF Calls
<1>9. File(temp[TempName(p)].data, TRUE) = f BY <1>0 DEF File
<1> HIDE DEF d, f
<1>3. /\ call' = [call EXCEPT ![p] = d] /\ temp' = [temp EXCEPT ![TempName(p)] = f]
      /\ UNCHANGED <<file, survives, lock, listing, promised, ops, listings, faults>>
  <2>1. temp' = [temp EXCEPT ![TempName(p)] = File(temp[TempName(p)].data, TRUE)]
    BY <1>0, FsFacts DEF SyncTemp, IndInv, TypesOK
  <2> QED BY <1>9, <2>1 DEF SyncTemp, Goes, d
<1>4. call'[p] = d BY <1>3 DEF IndInv, TypesOK
<1>5. TempName(p)' = TempName(p) BY <1>2, <1>4 DEF TempName
<1>6. TypesOK' BY <1>0, <1>1, <1>2, <1>3, TempStep DEF IndInv, TypesOK
<1>7. CallOK(p)'
  <2>1. temp'[TempName(p)] = f BY <1>0, <1>1, <1>3, TempStep
  <2>2. \A k : Stored(k)' = Stored(k) BY <1>3 DEF Stored
  <2> QED BY <1>0, <1>2, <1>3, <1>4, <1>5, <2>1, <2>2 DEF CallOK, Holding, Writing, f
<1>8. ASSUME NEW q \in Procs, q # p PROVE CallOK(q)'
  <2>1. call'[q] = call[q] BY <1>3, <1>8 DEF IndInv, TypesOK
  <2>2. temp'[q] = temp[q] /\ \A k \in Keys : lock[k] = q => temp'[k] = temp[k]
    BY <1>0, <1>1, <1>3, <1>8, TempStep
  <2> QED BY <1>3, <1>8, <2>1, <2>2, OthersStand
<1> QED BY <1>3, <1>6, <1>7, <1>8, SameFilesKeep DEF IndInv, CallsOK

\* What is published over a path: whole, and for a record, beyond the one it replaces.
LEMMA PublishKeeps ==
    ASSUME IndInv, NEW p \in Procs, call[p].pc \in Holding, NEW new \in Published, Publish(p, new),
           Whole(call[p].path, new),
           call[p].path \in Blobs => new # None,
           new # None /\ call[p].path \in Keys /\ file[call[p].path] # None =>
              new.data.revision.counter > file[call[p].path].data.revision.counter,
           \A q \in Procs \ {p} :
                 /\ temp'[q] = temp[q]
                 /\ \A k \in Keys : lock[k] = q => temp'[k] = temp[k]
    PROVE  /\ FilesOK' /\ PromisesOK' /\ ListingOK' /\ CallsOK'
           /\ file' \in [Paths -> Published] /\ survives' \in [Paths -> SUBSET Published]
           /\ call' \in [Procs -> Calls] /\ lock' \in [Keys -> Procs \cup {None}]
           /\ listing' \in Listings /\ promised' \in [Paths -> Promises]
<1> DEFINE c == call[p]
           d == [c EXCEPT !.pc = "fsync"]
<1>00. /\ c \in Calls /\ CallOK(p) /\ c.path \in Paths
  BY DEF IndInv, CallsOK, CallOK, TypesOK
<1> PICK path \in Paths : path = c.path BY <1>00
<1>0. /\ (path \in Keys => lock[path] = p) /\ c \in Calls
      /\ file \in [Paths -> Published] /\ survives \in [Paths -> SUBSET Published]
      /\ call \in [Procs -> Calls] /\ listing \in Listings /\ promised \in [Paths -> Promises]
      /\ lock \in [Keys -> Procs \cup {None}]
  BY DEF IndInv, CallsOK, CallOK, TypesOK
<1>1. /\ file' = [file EXCEPT ![path] = new]
      /\ survives' = [survives EXCEPT ![path] = survives[path] \cup {new}]
      /\ call' = [call EXCEPT ![p] = d] /\ lock' = lock
  BY <1>0 DEF Publish, Goes
<1>2. d \in Calls /\ d.pc = "fsync" /\ d.path = path BY <1>0 DEF Calls
<1>3. /\ \A q \in Paths \ {path} : file'[q] = file[q] /\ survives'[q] = survives[q]
      /\ file'[path] = new /\ survives'[path] = survives[path] \cup {new}
  BY <1>0, <1>1
<1>4. file' \in [Paths -> Published] /\ survives' \in [Paths -> SUBSET Published]
  BY <1>0, <1>1
<1>5. call' \in [Procs -> Calls] /\ lock' \in [Keys -> Procs \cup {None}]
  BY <1>0, <1>1, <1>2
<1>6. Nothing \in Promises /\ Nothing.is = "nothing" BY DEF Nothing, Promises
<1>7. promised' \in [Paths -> Promises]
  BY <1>0, <1>6 DEF Publish
<1>8. FilesOK' BY <1>3 DEF IndInv, FilesOK, Whole
<1>9. PromisesOK'
  <2>1. ASSUME NEW q \in Paths, q # path, NEW f \in {file'[q]} \cup survives'[q] PROVE Kept(q, f)'
    <3>1. promised'[q] = promised[q] BY <1>0, <2>1 DEF Publish
    <3>2. Kept(q, f) BY <1>3, <2>1 DEF IndInv, PromisesOK
    <3> QED BY <3>1, <3>2 DEF Kept
  <2>2. ASSUME NEW f \in {file'[path]} \cup survives'[path] PROVE Kept(path, f)'
    <3>1. CASE promised[path].is = "gone" \/ new = None
      <4>1. promised'[path] = Nothing BY <1>0, <3>1 DEF Publish
      <4> QED BY <1>6, <4>1 DEF Kept
    <3>2. CASE promised[path].is # "gone" /\ new # None
      <4>1. promised' = promised BY <3>2 DEF Publish
      <4>2. Kept(path, file[path]) /\ (f # new => Kept(path, f))
        BY <1>0, <1>3 DEF IndInv, PromisesOK
      <4>3. CASE f # new BY <4>1, <4>2, <4>3 DEF Kept
      <4>4. CASE f = new /\ promised[path].is # "record" BY <3>2, <4>1, <4>4 DEF Kept
      <4>5. CASE f = new /\ promised[path].is = "record"
        <5>1. path \in Keys /\ file[path] # None /\ file[path].data.revision.counter >= promised[path].counter
          BY <4>2, <4>5 DEF Kept
        <5>2. new.data \in Record /\ file[path].data \in Record
          <6>1. Whole(path, file[path]) BY <1>0 DEF IndInv, FilesOK
          <6>2. Whole(path, new) OBVIOUS
          <6> QED BY <3>2, <5>1, <6>1, <6>2 DEF Whole
        <5>3. promised[path].counter \in Nat BY <1>0 DEF Promises
        <5>4. new.data.revision.counter >= promised[path].counter
          BY <3>2, <5>1, <5>2, <5>3 DEF Record, Revision
        <5> QED BY <3>2, <4>1, <4>5, <5>1, <5>4 DEF Kept
      <4> QED BY <4>3, <4>4, <4>5
    <3> QED BY <3>1, <3>2
  <2> QED BY <2>1, <2>2 DEF PromisesOK
<1>10. listing' \in Listings /\ ListingOK'
  <2> DEFINE L == {k \in Keys : file'[k] # None /\ IsLive(file'[k].data)}
             A == {k \in listing.always : file'[k] # None /\ IsLive(file'[k].data)}
  <2>1. L = LiveNow' BY DEF LiveNow, Stored, IsLive
  <2>2. listing' = [listing EXCEPT !.always = A, !.ever = listing.ever \cup L] BY <1>0 DEF Publish, Listings
  <2>3. /\ listing'.pc = listing.pc /\ listing'.todo = listing.todo /\ listing'.out = listing.out
        /\ listing'.always = A /\ listing'.ever = listing.ever \cup L
        /\ listing' \in Listings
    BY <1>0, <2>2 DEF Listings
  <2>4. A \subseteq L /\ A \subseteq listing.always BY <1>0 DEF Listings
  <2> HIDE DEF A, L
  <2> QED BY <2>1, <2>3, <2>4 DEF IndInv, ListingOK
<1>11. CallsOK'
  <2>1. CallOK(p)'
    <3>1. call'[p] = d BY <1>0, <1>1
    <3> QED BY <1>0, <1>1, <1>2, <3>1 DEF CallOK, Holding, Writing
  <2>2. ASSUME NEW q \in Procs, q # p PROVE CallOK(q)'
    <3>1. call'[q] = call[q] BY <1>0, <1>1, <2>2
    <3>2. \A k \in Keys : lock[k] = q => k # path BY <1>0, <2>2
    <3>3. \A k \in Keys : lock[k] = q => file'[k] = file[k] BY <1>3, <3>2 DEF Paths
    <3> QED BY <1>1, <2>2, <3>1, <3>3, OthersStand
  <2> QED BY <2>1, <2>2 DEF CallsOK
<1> QED BY <1>4, <1>5, <1>7, <1>8, <1>9, <1>10, <1>11

LEMMA RenameKeeps ==
    ASSUME IndInv, NEW p \in Procs, Rename(p)
    PROVE  IndInv'
<1> DEFINE c == call[p]
<1>0. /\ c \in Calls /\ CallOK(p) /\ c.pc = "rename" /\ c.pc \in Holding /\ c.pc \in Writing
  BY DEF IndInv, TypesOK, CallsOK, Rename, Holding, Writing
<1>1. PICK new : new = File(c.send, TRUE) OBVIOUS
<1>2. temp[TempName(p)] = new /\ c.path \in Paths BY <1>0, <1>1 DEF CallOK
<1>3. /\ c.path \in Keys => WrittenOver(Stored(c.path), c.send, Cap)
      /\ c.path \notin Keys => c.path \in Blobs /\ c.send = c.path
  BY <1>0, <1>2 DEF CallOK, Paths
<1>4. new.data = c.send /\ new \in Published /\ new # None
  <2>1. c.send \in Record \cup Blobs BY <1>3 DEF WrittenOver
  <2>2. /\ new.data = c.send /\ new \in [data : Record \cup Blobs, synced : {TRUE}]
        /\ new \in [data : Record \cup Blobs, synced : BOOLEAN]
    BY <1>1, <2>1 DEF File
  <2> QED BY <2>2, FsAssumption DEF Published
<1>5. Whole(c.path, new)
  BY <1>3, <1>4, FsAssumption DEF Whole, WrittenOver
<1>6. c.path \in Keys /\ file[c.path] # None =>
         new.data.revision.counter > file[c.path].data.revision.counter
  <2>1. c.path \in Keys /\ file[c.path] # None =>
           Stored(c.path) = file[c.path].data /\ Stored(c.path) # None
    BY FsFacts DEF Stored
  <2> QED BY <1>3, <1>4, <2>1 DEF WrittenOver
<1>7. Publish(p, new) /\ temp' = [temp EXCEPT ![TempName(p)] = None]
      /\ UNCHANGED <<ops, listings, faults>>
  BY <1>2 DEF Rename
<1>8. /\ temp' \in [Keys \cup Procs -> [data : Record \cup Blobs, synced : BOOLEAN] \cup {None}]
      /\ \A q \in Procs \ {p} :
            /\ temp'[q] = temp[q]
            /\ \A k \in Keys : lock[k] = q => temp'[k] = temp[k]
  BY <1>0, <1>7, TempStep
<1> HIDE DEF c
<1>9. /\ FilesOK' /\ PromisesOK' /\ ListingOK' /\ CallsOK'
      /\ file' \in [Paths -> Published] /\ survives' \in [Paths -> SUBSET Published]
      /\ call' \in [Procs -> Calls] /\ lock' \in [Keys -> Procs \cup {None}]
      /\ listing' \in Listings /\ promised' \in [Paths -> Promises]
  BY <1>0, <1>4, <1>5, <1>6, <1>7, <1>8, PublishKeeps DEF c
<1> QED BY <1>7, <1>8, <1>9 DEF IndInv, TypesOK

LEMMA UnlinkKeeps ==
    ASSUME IndInv, NEW p \in Procs, Unlink(p)
    PROVE  IndInv'
<1>1. /\ call[p].pc \in Holding /\ call[p].path \in Keys /\ call[p].path \notin Blobs
      /\ Publish(p, None) /\ UNCHANGED <<temp, ops, listings, faults>>
      /\ None \in Published /\ Whole(call[p].path, None)
  BY FsAssumption DEF IndInv, CallsOK, CallOK, Unlink, Holding, Published, Whole
<1>2. /\ FilesOK' /\ PromisesOK' /\ ListingOK' /\ CallsOK'
      /\ file' \in [Paths -> Published] /\ survives' \in [Paths -> SUBSET Published]
      /\ call' \in [Procs -> Calls] /\ lock' \in [Keys -> Procs \cup {None}]
      /\ listing' \in Listings /\ promised' \in [Paths -> Promises]
  BY <1>1, PublishKeeps
<1> QED BY <1>1, <1>2 DEF IndInv, TypesOK

\* A promise holds of everything that may be left once the directory is synced.
LEMMA SyncDirKeeps ==
    ASSUME IndInv, NEW p \in Procs, SyncDir(p)
    PROVE  IndInv'
<1>1. PICK path \in Paths : path = call[p].path
  BY DEF SyncDir, IndInv, CallsOK, CallOK, Holding
<1>2. /\ survives' = [q \in Paths |-> IF q \in Directory(path) THEN {file[q]} ELSE survives[q]]
      /\ promised' = [promised EXCEPT ![path] = Promise(path)]
      /\ Returned(p)
      /\ UNCHANGED <<file, temp, listing, ops, listings, faults>>
  BY <1>1 DEF SyncDir
<1>3. CallsOK' /\ call' \in [Procs -> Calls] /\ lock' \in [Keys -> Procs \cup {None}]
  BY <1>2, ReturnedKeeps
<1>4. \A q \in Paths : {file'[q]} \cup survives'[q] \subseteq {file[q]} \cup survives[q]
  BY <1>2
<1>5. FilesOK' BY <1>4 DEF IndInv, FilesOK, Whole
<1>6. Promise(path) \in Promises /\ \A f \in {file[path]} :
         LET o == Promise(path) IN
         /\ o.is = "gone" => f = None
         /\ o.is = "blob" => f # None
         /\ o.is = "record" => path \in Keys /\ f # None /\ f.data.revision.counter >= o.counter
  <2>0. Whole(path, file[path]) BY DEF IndInv, FilesOK
  <2>1. CASE file[path] = None BY <2>1 DEF Promise, Promises
  <2>2. CASE path \in Blobs /\ file[path] # None
    <3>1. Promise(path) = [is |-> "blob", counter |-> 0] BY <2>2, FsAssumption DEF Promise
    <3> QED BY <2>2, <3>1 DEF Promises
  <2>3. CASE path \in Keys /\ file[path] # None
    <3>1. Promise(path) = [is |-> "record", counter |-> file[path].data.revision.counter]
      BY <2>3, FsAssumption DEF Promise
    <3>2. file[path].data.revision.counter \in Nat BY <2>0, <2>3 DEF Whole, Record, Revision
    <3> QED BY <2>3, <3>1, <3>2 DEF Promises
  <2> QED BY <2>1, <2>2, <2>3 DEF Paths
<1>7. TypesOK'
  <2>1. survives' \in [Paths -> SUBSET Published] BY <1>2 DEF IndInv, TypesOK
  <2>2. promised' \in [Paths -> Promises] BY <1>2, <1>6 DEF IndInv, TypesOK
  <2> QED BY <1>2, <1>3, <2>1, <2>2 DEF IndInv, TypesOK
<1>8. PromisesOK'
  <2>1. ASSUME NEW q \in Paths, q # path, NEW f \in {file'[q]} \cup survives'[q] PROVE Kept(q, f)'
    <3>1. promised'[q] = promised[q] BY <1>2, <2>1 DEF IndInv, TypesOK
    <3>2. Kept(q, f) BY <1>4, <2>1 DEF IndInv, PromisesOK
    <3> QED BY <3>1, <3>2 DEF Kept
  <2>2. ASSUME NEW f \in {file'[path]} \cup survives'[path] PROVE Kept(path, f)'
    <3>1. f = file[path] BY <1>2 DEF Directory, Paths
    <3>2. promised'[path] = Promise(path) BY <1>2 DEF IndInv, TypesOK
    <3> QED BY <1>6, <3>1, <3>2 DEF Kept
  <2> QED BY <2>1, <2>2 DEF PromisesOK
<1>9. ListingOK' BY <1>2 DEF IndInv, ListingOK, LiveNow, Stored
<1> QED BY <1>3, <1>5, <1>7, <1>8, <1>9 DEF IndInv

LEMMA DeleteBlobKeeps ==
    ASSUME IndInv, NEW b \in Blobs, DeleteBlob(b)
    PROVE  IndInv'
<1>0. b \in Paths /\ b \notin Keys BY FsAssumption DEF Paths
<1>1. /\ file' = [file EXCEPT ![b] = None]
      /\ survives' = [survives EXCEPT ![b] = survives[b] \cup {None}]
      /\ promised' = [promised EXCEPT ![b] = Nothing]
      /\ ops' = ops + 1
      /\ UNCHANGED <<temp, lock, call, listing, listings, faults>>
  BY <1>0 DEF DeleteBlob, IndInv, TypesOK
<1>2. /\ \A q \in Paths \ {b} : /\ file'[q] = file[q] /\ survives'[q] = survives[q]
                                /\ promised'[q] = promised[q]
      /\ file'[b] = None /\ survives'[b] = survives[b] \cup {None} /\ promised'[b] = Nothing
  BY <1>0, <1>1 DEF IndInv, TypesOK
<1>3. \A k \in Keys : file'[k] = file[k] BY <1>0, <1>2 DEF Paths
<1>4. TypesOK'
  <2>1. Nothing \in Promises /\ None \in Published BY DEF Nothing, Promises, Published
  <2>2. /\ file' \in [Paths -> Published] /\ survives' \in [Paths -> SUBSET Published]
        /\ promised' \in [Paths -> Promises]
    BY <1>1, <2>1 DEF IndInv, TypesOK
  <2> QED BY <1>1, <2>2 DEF IndInv, TypesOK
<1>5. FilesOK' BY <1>2 DEF IndInv, FilesOK, Whole
<1>6. CallsOK'
  <2> SUFFICES ASSUME NEW p \in Procs PROVE CallOK(p)' BY DEF CallsOK
  <2>1. CallOK(p) BY DEF IndInv, CallsOK
  <2>2. \A k \in Keys : Stored(k)' = Stored(k) BY <1>3 DEF Stored
  <2>3. TempName(p)' = TempName(p) BY <1>1 DEF TempName
  <2> QED BY <1>1, <2>1, <2>2, <2>3 DEF CallOK
<1>7. PromisesOK' BY <1>2 DEF IndInv, PromisesOK, Kept, Nothing
<1>8. ListingOK'
  <2>1. LiveNow' = LiveNow BY <1>3 DEF LiveNow, Stored
  <2> QED BY <1>1, <2>1 DEF IndInv, ListingOK
<1> QED BY <1>4, <1>5, <1>6, <1>7, <1>8 DEF IndInv

\* Steps of the listing leave the directory alone.
LEMMA ListingKeeps ==
    ASSUME IndInv, ListNames \/ (\E k \in Keys : ListRead(k)) \/ ListDone
    PROVE  IndInv'
<1>0. /\ UNCHANGED <<file, temp, survives, lock, call, promised, ops, faults>>
      /\ listings' \in Nat
  <2>1. /\ UNCHANGED <<file, temp, survives, lock, call, promised, ops, faults>>
        /\ listings' \in {listings, listings + 1}
    <3> USE DEF ListNames, ListRead, ListDone
    <3>1. CASE ListNames BY <3>1
    <3>2. ASSUME NEW k \in Keys, ListRead(k)
          PROVE  /\ UNCHANGED <<file, temp, survives, lock, call, promised, ops, faults>>
                 /\ listings' \in {listings, listings + 1}
      BY <3>2
    <3>3. CASE ListDone BY <3>3
    <3> QED BY <3>1, <3>2, <3>3
  <2> QED BY <2>1 DEF IndInv, TypesOK
<1>1. CallsOK' BY <1>0 DEF IndInv, CallsOK, CallOK, Stored, TempName
<1>2. FilesOK' /\ PromisesOK' BY <1>0 DEF IndInv, FilesOK, PromisesOK, Whole, Kept
<1>3. LiveNow' = LiveNow /\ LiveNow \subseteq Keys BY <1>0 DEF LiveNow, Stored
<1>4. listing \in Listings /\ ListingOK BY DEF IndInv, TypesOK
<1>5. listing' \in Listings /\ ListingOK'
  <2>1. CASE ListNames
    <3>1. \A k \in LiveNow : file[k] # None BY DEF LiveNow, IsLive, Stored
    <3> QED BY <1>3, <2>1, <3>1 DEF ListNames, Listings, ListingOK
  <2>2. ASSUME NEW k \in Keys, ListRead(k) PROVE listing' \in Listings /\ ListingOK'
    <3> DEFINE out == IF IsLive(Stored(k)) THEN listing.out \cup {k} ELSE listing.out
    <3>1. /\ listing' = [listing EXCEPT !.todo = listing.todo \ {k}, !.out = out]
          /\ listing.pc = "read"
      BY <1>4, <2>2 DEF ListRead, Listings
    <3>2. /\ listing'.pc = "read" /\ listing'.todo = listing.todo \ {k} /\ listing'.out = out
          /\ listing'.always = listing.always /\ listing'.ever = listing.ever
          /\ listing' \in Listings
      BY <1>4, <3>1 DEF Listings
    <3>3. k \in LiveNow <=> IsLive(Stored(k)) BY DEF LiveNow
    <3>4. out = IF k \in LiveNow THEN listing.out \cup {k} ELSE listing.out BY <3>3
    <3> HIDE DEF out
    <3> QED BY <1>3, <1>4, <3>1, <3>2, <3>4 DEF ListingOK
  <2>3. CASE ListDone
    <3>1. /\ listing'.pc = "done" /\ listing.pc = "read" /\ listing.todo = {}
          /\ listing'.out = listing.out
          /\ listing'.always = listing.always /\ listing'.ever = listing.ever
          /\ listing' \in Listings
      BY <1>4, <2>3 DEF ListDone, Listings
    <3> QED BY <1>3, <1>4, <3>1 DEF ListingOK
  <2> QED BY <2>1, <2>2, <2>3
<1>6. TypesOK' BY <1>0, <1>5 DEF IndInv, TypesOK
<1> QED BY <1>1, <1>2, <1>5, <1>6 DEF IndInv

LEMMA DieKeeps ==
    ASSUME IndInv, NEW p \in Procs, Die(p)
    PROVE  IndInv'
<1>1. /\ Returned(p) /\ faults' \in Nat
      /\ UNCHANGED <<file, temp, survives, listing, promised, ops, listings>>
  BY DEF Die, Fault, IndInv, TypesOK
<1> QED BY <1>1, ReturnedKeeps, SameFilesKeep DEF IndInv, TypesOK

\* Whatever the disk kept of a path since its last sync was whole and kept the promise.
LEMMA PowerLossKeeps ==
    ASSUME IndInv, PowerLoss
    PROVE  IndInv'
<1>1. PICK left \in [Paths -> UNION {survives[path] : path \in Paths}] :
         /\ \A path \in Paths : left[path] \in survives[path]
         /\ file' = [path \in Paths |-> OnDisk(left[path])]
  BY DEF PowerLoss
<1>2. \A path \in Paths : file'[path] = left[path] /\ file'[path] \in Published
  BY <1>1 DEF OnDisk, Published, IndInv, TypesOK
<1>3. /\ survives' = [path \in Paths |-> {file'[path]}]
      /\ call' = [p \in Procs |-> Idle] /\ lock' = [k \in Keys |-> None]
      /\ listing' = NoListing /\ faults' \in Nat
      /\ UNCHANGED <<temp, promised, ops, listings>>
  BY DEF PowerLoss, Fault, IndInv, TypesOK
<1>4. \A path \in Paths : {file'[path]} \cup survives'[path] \subseteq survives[path]
  BY <1>1, <1>2, <1>3
<1>5. Idle \in Calls /\ NoListing \in Listings
  BY BodiesAssumption DEF Idle, Calls, NoListing, Listings, FiniteSlot, Slot, FiniteChain
<1>6. TypesOK'
  <2>1. file' \in [Paths -> Published] BY <1>1, <1>2
  <2>2. survives' \in [Paths -> SUBSET Published] BY <1>2, <1>3
  <2> QED BY <1>3, <1>5, <2>1, <2>2 DEF IndInv, TypesOK
<1>7. FilesOK' BY <1>4 DEF IndInv, FilesOK, Whole
<1>8. PromisesOK' BY <1>3, <1>4 DEF IndInv, PromisesOK, Kept
<1>9. CallsOK' BY <1>3 DEF CallsOK, CallOK, Idle, Holding, Writing
<1>10. ListingOK' BY <1>3 DEF ListingOK, NoListing
<1> QED BY <1>6, <1>7, <1>8, <1>9, <1>10 DEF IndInv

LEMMA FsStep == ASSUME IndInv, [Next]_vars PROVE IndInv'
<1>1. CASE UNCHANGED vars
  <2> USE <1>1 DEF vars, IndInv
  <2>1. TypesOK' BY DEF TypesOK
  <2>2. FilesOK' BY DEF FilesOK, Whole
  <2>3. CallsOK' BY DEF CallsOK, CallOK, Stored, TempName
  <2>4. PromisesOK' BY DEF PromisesOK, Kept
  <2>5. ListingOK' BY DEF ListingOK, LiveNow, Stored
  <2> QED BY <2>1, <2>2, <2>3, <2>4, <2>5
<1>2. ASSUME NEW p \in Procs, CallNext(p) PROVE IndInv'
  BY <1>2, CallKeeps, LockAndPlanKeeps, PutBlobKeeps, CreateTempKeeps, SyncTempKeeps, RenameKeeps,
     UnlinkKeeps, SyncDirKeeps, DieKeeps DEF CallNext
<1> QED BY <1>1, <1>2, DeleteBlobKeeps, ListingKeeps, PowerLossKeeps DEF Next

\* The invariant that carries the argument: whole files, calls that hold their locks,
\* promises that bind all a power loss may leave.
THEOREM FsInvariant == Spec => []IndInv
BY FsInit, FsStep, PTL DEF Spec

\* write_durable, remove_durable, put_blob and list: no reader and no power loss meets a
\* torn file, what was acknowledged stays, and a listing taken without the lock holds the
\* keys that were live throughout and none that never was.
THEOREM FilesStaySound == Spec => []FilesAreSound
<1>1. ASSUME IndInv PROVE FilesAreSound
  <2>1. NeverTorn
    <3> SUFFICES ASSUME NEW path \in Paths, NEW f \in {file[path]} \cup survives[path], f # None
                 PROVE  f.synced /\ f.data # Torn /\ (path \in Blobs => f.data = path)
      BY DEF NeverTorn
    <3>1. f \in Published /\ Whole(path, f) BY <1>1 DEF IndInv, TypesOK, FilesOK
    <3> QED BY <3>1, FsAssumption DEF Published, Whole, Paths
  <2>2. AcknowledgedSurvives
    BY <1>1 DEF AcknowledgedSurvives, IndInv, PromisesOK, Kept, TypesOK, Promises
  <2>3. ListsLiveKeys BY <1>1 DEF ListsLiveKeys, IndInv, ListingOK
  <2> QED BY <2>1, <2>2, <2>3 DEF FilesAreSound
<1> QED BY <1>1, FsInvariant, PTL

(***************************************************************************)
(* The refinement                                                          *)
(***************************************************************************)

\* The contract folds as the planners do.
LEMMA SamePersisted == \A slot, rec : Contract!Persisted(slot, rec, Cap) = Persisted(slot, rec, Cap)
<1>1. \A r, s : Contract!Newer(r, s) <=> Newer(r, s) BY DEF Contract!Newer, Newer
<1>2. \A revs : Contract!Newest(revs, Cap) = Newest(revs, Cap)
  <2>1. \A S : Contract!Cardinality(S) = Cardinality(S)
    BY Zenon DEF Contract!Cardinality, Cardinality
  <2> QED BY <1>1, <2>1 DEF Contract!Newest, Newest
<1>3. \A slot : Contract!Lineage(slot) = Lineage(slot) BY DEF Contract!Lineage, Lineage
<1> QED BY <1>2, <1>3 DEF Contract!Persisted, Persisted, Contract!FoldAncestors, FoldAncestors

\* The files of a path that nothing is written to show what they showed.
LEMMA SameSlots ==
    ASSUME UNCHANGED <<file, survives>> PROVE Shown' = Shown /\ Unsettled' = Unsettled
BY DEF Shown, Unsettled, Content

\* Rename and unlink: one whole write of one record, which may still be lost.
LEMMA PublishIsChange ==
    ASSUME IndInv, NEW p \in Procs, NEW k \in Keys, k = call[p].path, NEW new, Publish(p, new),
           \/ new # None /\ WrittenOver(Stored(k), new.data, Cap)
           \/ new = None /\ Stored(k) # None
    PROVE  Contract!Change(k)
<1>1. /\ file \in [Paths -> Published] /\ survives \in [Paths -> SUBSET Published] /\ k \in Paths
  BY DEF IndInv, TypesOK, Paths
<1>2. /\ file' = [file EXCEPT ![k] = new]
      /\ survives' = [survives EXCEPT ![k] = survives[k] \cup {new}]
  BY <1>1 DEF Publish
<1>3. /\ file'[k] = new /\ survives'[k] = survives[k] \cup {new}
      /\ \A other \in Keys \ {k} : file'[other] = file[other] /\ survives'[other] = survives[other]
  BY <1>1, <1>2 DEF Paths
<1>4. /\ Shown'[k] = Content(new) /\ Shown[k] = Stored(k) /\ k \in DOMAIN Shown
      /\ \A other \in Keys \ {k} : Shown'[other] = Shown[other] /\ Unsettled'[other] = Unsettled[other]
  BY <1>3 DEF Shown, Unsettled, Stored, Content
<1>5. Unsettled'[k] \subseteq Unsettled[k] \cup {Shown[k]}
  <2> SUFFICES ASSUME NEW f \in survives'[k], f # file'[k]
               PROVE  Content(f) \in Unsettled[k] \cup {Shown[k]}
    BY DEF Unsettled
  <2>1. f \in survives[k] BY <1>3
  <2>2. CASE f = file[k] BY <2>2 DEF Shown, Content
  <2>3. CASE f # file[k] BY <2>1, <2>3 DEF Unsettled
  <2> QED BY <2>2, <2>3
<1>6. \/ Shown'[k] # None /\ Shown'[k] = Persisted(Shown[k], Shown'[k], Cap)
      \/ Shown[k] # None /\ Shown'[k] = None
  BY <1>4, NoneIsNotRecord DEF Content, WrittenOver
<1> QED
  BY <1>4, <1>5, <1>6, SamePersisted
  DEF Contract!Change, Contract!Replace, Contract!Remove, Contract!Only

\* fsync_dir takes nothing from readers and settles what it syncs.
LEMMA SyncIsSettle ==
    ASSUME IndInv, NEW p \in Procs, SyncDir(p)
    PROVE  Contract!Settle
<1>1. file' = file /\ \A k \in Keys : survives'[k] \in {{file[k]}, survives[k]}
  BY DEF SyncDir, Paths
<1>2. Shown' = Shown BY <1>1 DEF Shown
<1>3. \A k \in Keys : Unsettled'[k] \subseteq Unsettled[k] BY <1>1 DEF Unsettled
<1> QED BY <1>2, <1>3 DEF Contract!Settle

LEMMA LossIsLoss ==
    ASSUME IndInv, PowerLoss PROVE Contract!PowerLoss
<1>1. PICK left \in [Paths -> UNION {survives[path] : path \in Paths}] :
         /\ \A path \in Paths : left[path] \in survives[path]
         /\ file' = [path \in Paths |-> OnDisk(left[path])]
  BY DEF PowerLoss
<1>2. \A k \in Keys : file'[k] \in survives[k]
  BY <1>1 DEF OnDisk, Published, IndInv, TypesOK, Paths
<1>3. \A k \in Keys : survives'[k] = {file'[k]} BY DEF PowerLoss, Paths
<1>4. \A k \in Keys : Shown'[k] \in {Shown[k]} \cup Unsettled[k]
  BY <1>2 DEF Shown, Unsettled
<1>5. Unsettled' = [k \in Keys |-> {}] BY <1>3 DEF Unsettled
<1> QED BY <1>4, <1>5 DEF Contract!PowerLoss

\* Every step of the calls, the listing and the disk is one step of the contract, or none.
LEMMA ContractStep == ASSUME IndInv, [Next]_vars PROVE [Contract!Next]_Contract!cvars
<1> DEFINE Steps == Contract!Next \/ UNCHANGED <<Shown, Unsettled>>
<1>0. SUFFICES Steps BY DEF Contract!cvars
<1>1. UNCHANGED <<file, survives>> => Steps BY SameSlots
<1>2. ASSUME NEW p \in Procs, Rename(p) PROVE Steps
  <2> DEFINE c == call[p]
  <2>1. CallOK(p) /\ c.pc = "rename" /\ c.pc \in Holding /\ c.pc \in Writing
    BY <1>2 DEF IndInv, CallsOK, Rename, Holding, Writing
  <2>2. PICK path \in Paths : path = c.path BY <2>1 DEF CallOK
  <2>3. PICK new : new = File(c.send, TRUE) OBVIOUS
  <2>4. Publish(p, new) BY <1>2, <2>1, <2>3 DEF Rename, CallOK
  <2>5. CASE path \in Keys
    <3>1. WrittenOver(Stored(path), new.data, Cap) BY <2>1, <2>2, <2>3, <2>5 DEF CallOK, File
    <3>2. new # None
      <4>1. new \in [data : Record \cup Blobs, synced : BOOLEAN] BY <2>3, <3>1 DEF File, WrittenOver
      <4> QED BY <4>1, FsAssumption
    <3>3. Contract!Change(path) BY <2>2, <2>4, <2>5, <3>1, <3>2, PublishIsChange
    <3> QED BY <2>5, <3>3 DEF Contract!Next
  <2>6. CASE path \notin Keys
    <3>1. \A k \in Keys : file'[k] = file[k] /\ survives'[k] = survives[k]
      BY <2>2, <2>4, <2>6 DEF Publish, IndInv, TypesOK, Paths
    <3>2. Shown' = Shown /\ Unsettled' = Unsettled BY <3>1 DEF Shown, Unsettled
    <3> QED BY <3>2
  <2> QED BY <2>5, <2>6
<1>3. ASSUME NEW p \in Procs, Unlink(p) PROVE Steps
  <2>1. CallOK(p) BY DEF IndInv, CallsOK
  <2>2. PICK k \in Keys : k = call[p].path BY <1>3, <2>1 DEF Unlink, CallOK
  <2>3. Publish(p, None) /\ Stored(k) # None BY <1>3, <2>1, <2>2 DEF Unlink, CallOK
  <2>4. Contract!Change(k) BY <2>2, <2>3, PublishIsChange
  <2> QED BY <2>4 DEF Contract!Next
<1>4. ASSUME NEW p \in Procs, CallNext(p) PROVE Steps
  <2>1. CASE Rename(p) BY <1>2, <2>1
  <2>2. CASE Unlink(p) BY <1>3, <2>2
  <2>3. CASE SyncDir(p) BY <2>3, SyncIsSettle DEF Contract!Next
  <2>4. CASE ~Rename(p) /\ ~Unlink(p) /\ ~SyncDir(p)
    <3>1. UNCHANGED <<file, survives>>
      BY <1>4, <2>4 DEF CallNext, Call, LockAndPlan, PutBlob, CreateTemp, SyncTemp, Die
    <3> QED BY <1>1, <3>1
  <2> QED BY <2>1, <2>2, <2>3, <2>4
<1>5. ASSUME NEW b \in Blobs, DeleteBlob(b) PROVE Steps
  <2>1. \A k \in Keys : file'[k] = file[k] /\ survives'[k] = survives[k]
    BY <1>5, FsAssumption DEF DeleteBlob, IndInv, TypesOK, Paths
  <2>2. Shown' = Shown /\ Unsettled' = Unsettled BY <2>1 DEF Shown, Unsettled
  <2> QED BY <2>2
<1>6. CASE ListNames \/ (\E k \in Keys : ListRead(k)) \/ ListDone
  <2>1. UNCHANGED <<file, survives>> BY <1>6 DEF ListNames, ListRead, ListDone
  <2> QED BY <1>1, <2>1
<1>7. CASE PowerLoss BY <1>7, LossIsLoss DEF Contract!Next
<1>8. CASE UNCHANGED vars BY <1>1, <1>8 DEF vars
<1> QED BY <1>4, <1>5, <1>6, <1>7, <1>8 DEF Next

\* The filesystem substrate implements the store contract (ADR 0021): each visible change
\* is one whole write that folds in the record it replaces, and only a power loss takes
\* back one whose directory was not synced.
THEOREM FsImplementsContract == Spec => ImplementsContract
<1>1. ASSUME Init PROVE Contract!Init
  <2>1. \A k \in Keys : file[k] = None /\ survives[k] = {None} BY <1>1 DEF Init, Paths
  <2>2. Shown = [k \in Keys |-> None] /\ Unsettled = [k \in Keys |-> {}]
    BY <2>1 DEF Shown, Unsettled, Content
  <2> QED BY <2>2 DEF Contract!Init, Contract!Slot
<1> QED BY <1>1, FsInvariant, ContractStep, PTL DEF Spec, ImplementsContract, Contract!Spec

=============================================================================
