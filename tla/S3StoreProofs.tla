--------------------------- MODULE S3StoreProofs ---------------------------
(***************************************************************************)
(* The object store without a lock, for any number of keys, writers,        *)
(* listers, attempts and faults.                                            *)
(*                                                                         *)
(* Two facts take the place of the lock.  What a call sends was planned     *)
(* against the record under the ETag it names, so a request that matches is  *)
(* the planners' answer for what it replaces.  And no two calls share a      *)
(* stamp, so an object that carries a call's stamp is the very write that    *)
(* call lost the answer to, and its next attempt finds it.                   *)
(***************************************************************************)
EXTENDS S3Store, RecordsProofs

Objects == [record : Record, stamp : Nat] \cup {None}

Refusals == {"Conflict", "NotFound", "Rejected"}

\* An object as the store holds it.
ObjectOK(k) == /\ RecordOf(object[k]) \in FiniteSlot
               /\ object[k] # None => object[k].stamp <= ops

\* The object of call c carries its stamp.
Stamped(c) == object[c.key] # None /\ object[c.key].stamp = c.stamp

\* A call in flight is a request; what it is about to send is the plan for its ETag; and
\* if its stamp is on the object, it is about to look for it.
CallOK(w) ==
    LET c == writer[w] IN
    /\ c.stamp <= ops
    /\ c.pc # "idle" => c.key \in Keys /\ IsRequest(c) /\ c.stamp > 0
    /\ c.pc \in {"marker", "put"} => /\ PlanFor(c, RecordOf(c.etag), Cap) = Write(c.send)
                                     /\ c.send \in Record /\ FiniteChain(c.send)
    /\ c.pc = "remove" => PlanFor(c, RecordOf(c.etag), Cap).outcome = "Remove"
    /\ c.pc # "idle" /\ Stamped(c) => c.pc = "read" /\ OwnWriteLanded(c, object[c.key])
    /\ c.pc = "idle" /\ c.answer \in Refusals => c.key \in Keys /\ ~Stamped(c)

\* No two calls have the same stamp; 0 is that of a writer that made none.
StampsDiffer ==
    \A v, w \in Writers : v # w /\ writer[v].stamp = writer[w].stamp => writer[w].stamp = 0

StoreOK == /\ TypeOK
           /\ ops \in Nat
           /\ \A k \in Keys : ObjectOK(k)
           /\ \A w \in Writers : CallOK(w)
           /\ StampsDiffer

\* Without listings, the marker is there before its tombstone and stays.
MarkersOK ==
    Listers = {} =>
        /\ TombstoneMarked
        /\ \A w \in Writers :
              writer[w].pc = "put" /\ IsTombstone(writer[w].send) => marker[writer[w].key] # None

(***************************************************************************)
(* Calls                                                                   *)
(***************************************************************************)

\* What a call asks depends on its operation, what was read and its body.
LEMMA SameRequest ==
    ASSUME NEW c, NEW d, d.op = c.op, d.seen = c.seen, d.body = c.body
    PROVE  /\ \A slot, cap : PlanFor(d, slot, cap) = PlanFor(c, slot, cap)
           /\ IsRequest(c) => IsRequest(d)
<1>1. ASSUME NEW slot, NEW cap PROVE PlanFor(d, slot, cap) = PlanFor(c, slot, cap)
  BY DEF PlanFor
<1>2. IsRequest(c) => IsRequest(d) BY DEF IsRequest
<1> QED BY <1>1, <1>2

LEMMA NoCallIsIdle ==
    S3Assumption => NoCall \in Calls /\ NoCall.pc = "idle" /\ NoCall.answer = None /\ NoCall.stamp = 0
BY BodiesAssumption DEF S3Assumption, NoCall, Calls, Slot

\* The fields of a call that ends or tries again.
LEMMA AnsweredFacts ==
    ASSUME S3Assumption, NEW c \in Calls,
           NEW answer \in {"Written", "Noop", "Conflict", "NotFound", "Rejected", "Lost", "Error"}
    PROVE  LET d == Answered(c, answer) IN
           d \in Calls /\ d.pc = "idle" /\ d.key = c.key /\ d.stamp = c.stamp /\ d.answer = answer
<1> DEFINE d == Answered(c, answer)
<1>1. 1 \in 1..MaxAttempts /\ None \in Slot BY DEF S3Assumption, Slot
<1>2. d \in Calls BY <1>1 DEF Answered, Calls
<1>3. d.pc = "idle" /\ d.key = c.key /\ d.stamp = c.stamp /\ d.answer = answer
  BY DEF Answered, Calls
<1> QED BY <1>2, <1>3

LEMMA RetriedFacts ==
    ASSUME S3Assumption, NEW c \in Calls, NEW pending \in Slot
    PROVE  LET d == Retried(c, pending) IN
           /\ d \in Calls /\ d.key = c.key /\ d.stamp = c.stamp
           /\ \/ d.pc = "idle" /\ d.answer = "Lost"
              \/ /\ d.pc = "read" /\ d.pending = pending
                 /\ d.op = c.op /\ d.seen = c.seen /\ d.body = c.body
<1>1. CASE c.attempt = MaxAttempts
  <2>1. Retried(c, pending) = Answered(c, "Lost") BY <1>1 DEF Retried
  <2> QED BY <2>1, AnsweredFacts
<1>2. CASE c.attempt # MaxAttempts
  <2>1. c.attempt + 1 \in 1..MaxAttempts BY <1>2 DEF S3Assumption, Calls
  <2> QED BY <1>2, <2>1 DEF Retried, Calls, Slot
<1> QED BY <1>1, <1>2

\* An object and the record in it.
LEMMA ObjectFacts ==
    ASSUME S3Assumption, NEW rec \in Record, NEW stamp \in Nat
    PROVE  LET obj == Object(rec, stamp) IN
           /\ obj \in Objects /\ obj # None /\ obj.stamp = stamp /\ obj.record = rec
           /\ RecordOf(obj) = rec
BY DEF S3Assumption, Object, Objects, RecordOf

(***************************************************************************)
(* Listings                                                                *)
(***************************************************************************)

Livenesses == [is : {"unread", "Live", "Absent", "Tombstoned"}, revision : Revision \cup {None}]

Listings == [pc : {"idle", "list", "list_marker", "read", "resolve", "done"},
             todo : SUBSET Keys, key : Keys \cup {None}, records : SUBSET Keys,
             markers : [Keys -> Revision \cup {None}] \cup {<<>>},
             marked : BOOLEAN, upgrading : BOOLEAN,
             live : [Keys -> Livenesses] \cup {<<>>}, out : SUBSET Keys]

Scanning == {"list", "list_marker"}

\* The keys that were live throughout are still to be listed, or listed and not found
\* otherwise, or still to be resolved, or reported.
ListerOK(l) ==
    LET r == lister[l] IN
    r.pc # "idle" =>
        /\ r.markers \in [Keys -> Revision \cup {None}]
        /\ r.live \in [Keys -> Livenesses]
        /\ r.pc = "list_marker" => r.key \in Keys
        /\ watch[l].always \subseteq LiveKeys(object)
        /\ LiveKeys(object) \subseteq watch[l].ever
        /\ watch[l].always \subseteq r.records \cup (IF r.pc \in Scanning THEN r.todo ELSE {})
        /\ \A k \in watch[l].always : r.live[k].is \in {"unread", "Live"}
        /\ r.pc = "resolve" => watch[l].always \subseteq r.todo \cup r.out
        /\ r.pc = "done" => watch[l].always \subseteq r.out

\* A listing that began before the flag was set goes on without it, so it reads every
\* record it has listed, and a key it found live was live during it.
UpgradeOK(l) ==
    LET r == lister[l] IN
    r.pc # "idle" /\ r.upgrading =>
        /\ r.pc \in Scanning => ~flag
        /\ \A k \in Keys : r.live[k].is = "Live" => k \in watch[l].ever
        /\ r.pc = "read" => \A k \in r.records \ r.todo : r.live[k].is # "unread"
        /\ r.pc = "resolve" => \A k \in r.records : r.live[k].is # "unread"
        /\ r.out \subseteq watch[l].ever

OneLister == \A l, m \in Listers : l = m

ListingsOK ==
    /\ lister \in [Listers -> Listings]
    /\ watch \in [Listers -> [always : SUBSET Keys, ever : SUBSET Keys]]
    /\ \A l \in Listers : ListerOK(l)
    /\ OneLister => \A l \in Listers : UpgradeOK(l)

IndInv == StoreOK /\ MarkersOK /\ ListingsOK

LEMMA LegacyIsObject ==
    ASSUME S3Assumption, NEW body \in Bodies
    PROVE  LET obj == LegacyTombstone(body) IN
           obj \in Objects /\ obj # None /\ RecordOf(obj) \in FiniteSlot /\ obj.stamp = 0
<1> DEFINE created == CreateRecord("Topic", body)
           tomb == TombstoneOf(created, 0, Cap)
<1>1. created \in Record /\ ~IsTombstone(created) /\ created.ancestors = {}
  <2>1. created.ancestors = {} BY DEF CreateRecord
  <2> QED BY <2>1, CreateWellFormed DEF LiveKinds
<1>2. FiniteChain(created) BY <1>1, FS_EmptySet DEF FiniteChain
<1> HIDE DEF created
<1>3. tomb \in Record /\ FiniteChain(tomb)
  BY <1>1, <1>2, TombstoneIsWritten DEF WrittenOver, S3Assumption
<1>4. LegacyTombstone(body) = Object(tomb, 0) BY DEF LegacyTombstone, created
<1> HIDE DEF tomb
<1> QED BY <1>3, <1>4, ObjectFacts DEF FiniteSlot, Slot

LEMMA S3Init == S3Assumption /\ Init => IndInv
<1> SUFFICES ASSUME S3Assumption, Init PROVE IndInv OBVIOUS
<1>1. ASSUME NEW k \in Keys
      PROVE  /\ object[k] \in Objects /\ RecordOf(object[k]) \in FiniteSlot
             /\ object[k] # None => object[k].stamp = 0 /\ Legacy
  <2>1. CASE object[k] = None
    BY <2>1 DEF Objects, RecordOf, FiniteSlot, Slot, FiniteChain
  <2>2. CASE object[k] # None
    <3>1. PICK body \in (IF Legacy THEN NewBodies ELSE {}) : object[k] = LegacyTombstone(body)
      BY <2>2 DEF Init
    <3>2. Legacy /\ body \in Bodies BY DEF S3Assumption
    <3> QED BY <3>1, <3>2, LegacyIsObject
  <2> QED BY <2>1, <2>2
<1>2. object \in [Keys -> Objects] BY <1>1 DEF Init
<1>3. StoreOK
  <2>1. TypeOK BY <1>2, NoCallIsIdle DEF Init, TypeOK, Objects, S3Assumption
  <2>2. ops \in Nat /\ \A k \in Keys : ObjectOK(k) BY <1>1 DEF Init, ObjectOK
  <2>3. \A w \in Writers : CallOK(w) /\ writer[w].stamp = 0
    <3>1. ASSUME NEW w \in Writers PROVE CallOK(w) /\ writer[w].stamp = 0
      <4>1. writer[w] = NoCall /\ ops = 0 BY DEF Init
      <4>2. None \notin Refusals BY DEF S3Assumption, Refusals
      <4> QED BY <4>1, <4>2, NoCallIsIdle DEF CallOK
    <3> QED BY <3>1
  <2> QED BY <2>1, <2>2, <2>3 DEF StoreOK, StampsDiffer
<1>4. MarkersOK
  <2>1. \A w \in Writers : writer[w].pc = "idle" BY NoCallIsIdle DEF Init
  <2>2. flag => \A k \in Keys : RecordOf(object[k]) = None
    BY <1>1 DEF Init, RecordOf, S3Assumption
  <2> QED BY <2>1, <2>2 DEF MarkersOK, TombstoneMarked
<1>5. ListingsOK
  <2>1. NoListing \in Listings /\ NoListing.pc = "idle" BY DEF NoListing, Listings
  <2>2. lister \in [Listers -> Listings] /\ \A l \in Listers : lister[l].pc = "idle"
    BY <2>1 DEF Init
  <2> QED BY <2>2 DEF ListingsOK, ListerOK, UpgradeOK, Init
<1> QED BY <1>3, <1>4, <1>5 DEF IndInv

(***************************************************************************)
(* Steps of a writer                                                       *)
(***************************************************************************)

LEMMA WriterFacts ==
    ASSUME StoreOK, NEW w \in Writers
    PROVE  /\ writer[w] \in Calls /\ CallOK(w) /\ writer[w].stamp \in Nat
           /\ writer \in [Writers -> Calls] /\ object \in [Keys -> Objects] /\ ops \in Nat
BY DEF StoreOK, TypeOK, Objects, Calls

\* Other calls stand: what w writes carries the stamp of w, which is not theirs.
LEMMA OthersStand ==
    ASSUME StoreOK, NEW w \in Writers, NEW q \in Writers, q # w, writer'[q] = writer[q],
           ops' \in Nat, ops <= ops',
           \A k \in Keys : \/ object'[k] = object[k]
                           \/ object'[k] = None
                           \/ object'[k].stamp = writer[w].stamp /\ writer[w].stamp > 0
    PROVE  CallOK(q)'
<1> DEFINE c == writer[q]
<1>1. /\ CallOK(q) /\ c.stamp \in Nat /\ ops \in Nat /\ writer[w].stamp \in Nat
  BY WriterFacts
<1>2. writer[w].stamp > 0 => writer[w].stamp # c.stamp BY <1>1 DEF StoreOK, StampsDiffer
<1>3. c.key \in Keys /\ object'[c.key] # None /\ object'[c.key].stamp = c.stamp
      => object'[c.key] = object[c.key]
  BY <1>2
<1>5. c.stamp <= ops' BY <1>1 DEF CallOK
<1>7. /\ c.pc # "idle" => c.key \in Keys /\ IsRequest(c) /\ c.stamp > 0
      /\ c.pc \in {"marker", "put"} => /\ PlanFor(c, RecordOf(c.etag), Cap) = Write(c.send)
                                       /\ c.send \in Record /\ FiniteChain(c.send)
      /\ c.pc = "remove" => PlanFor(c, RecordOf(c.etag), Cap).outcome = "Remove"
  BY <1>1 DEF CallOK
<1>8. c.pc # "idle" /\ object'[c.key] # None /\ object'[c.key].stamp = c.stamp
      => c.pc = "read" /\ OwnWriteLanded(c, object'[c.key])
  BY <1>1, <1>3, <1>7 DEF CallOK, Stamped
<1>9. c.pc = "idle" /\ c.answer \in Refusals
      => c.key \in Keys /\ ~(object'[c.key] # None /\ object'[c.key].stamp = c.stamp)
  BY <1>1, <1>3 DEF CallOK, Stamped
<1> HIDE DEF c
<1> QED BY <1>5, <1>7, <1>8, <1>9 DEF CallOK, Stamped, c

\* A step of w that gives it the call c1, and leaves or changes the object of its key.
LEMMA WriterStep ==
    ASSUME StoreOK, NEW w \in Writers, NEW c1 \in Calls, writer' = [writer EXCEPT ![w] = c1],
           c1.stamp = writer[w].stamp, ops' = ops, flag' = flag,
           marker' \in [Keys -> Revision \cup {None}],
           object' \in [Keys -> Objects],
           \A k \in Keys : \/ object'[k] = object[k]
                           \/ object'[k] = None
                           \/ /\ object'[k].stamp = writer[w].stamp /\ writer[w].stamp > 0
                              /\ RecordOf(object'[k]) \in FiniteSlot,
           CallOK(w)'
    PROVE  StoreOK'
<1>0. writer \in [Writers -> Calls] /\ ops \in Nat /\ writer'[w] = c1 /\ CallOK(w)
  BY WriterFacts
<1>1. TypeOK' BY <1>0 DEF StoreOK, TypeOK, Objects
<1>2. ASSUME NEW k \in Keys PROVE ObjectOK(k)'
  <2>1. CASE object'[k] = object[k] BY <1>0, <2>1 DEF StoreOK, ObjectOK
  <2>2. CASE object'[k] = None
    BY <2>2 DEF ObjectOK, RecordOf, FiniteSlot, Slot, FiniteChain
  <2>3. CASE object'[k].stamp = writer[w].stamp /\ RecordOf(object'[k]) \in FiniteSlot
    BY <1>0, <2>3 DEF ObjectOK, CallOK
  <2> QED BY <2>1, <2>2, <2>3
<1>3. ASSUME NEW q \in Writers, q # w PROVE CallOK(q)' /\ writer'[q] = writer[q]
  <2>1. writer'[q] = writer[q] BY <1>0, <1>3
  <2> QED BY <1>0, <1>3, <2>1, OthersStand
<1>4. StampsDiffer' BY <1>0, <1>3 DEF StoreOK, StampsDiffer
<1> QED BY <1>0, <1>1, <1>2, <1>3, <1>4 DEF StoreOK

\* Listings that do not move, over objects that do not move.
LEMMA ListingsStand ==
    ASSUME ListingsOK, UNCHANGED <<lister, watch, object, flag>>
    PROVE  ListingsOK'
<1>1. LiveKeys(object)' = LiveKeys(object) OBVIOUS
<1> QED BY <1>1 DEF ListingsOK, ListerOK, UpgradeOK

\* Markers stay as long as nothing takes one away.
LEMMA MarkersStand ==
    ASSUME MarkersOK, TypeOK, NEW w \in Writers, NEW c1, writer' = [writer EXCEPT ![w] = c1],
           flag' = flag, \A k \in Keys : marker[k] # None => marker'[k] # None,
           \A k \in Keys : \/ object'[k] = object[k]
                           \/ RecordOf(object'[k]) = None
                           \/ IsLive(RecordOf(object'[k]))
                           \/ Listers = {} => marker'[k] # None,
           c1.pc = "put" /\ IsTombstone(c1.send) /\ Listers = {} => marker'[c1.key] # None,
           \A q \in Writers : writer[q].pc # "idle" => writer[q].key \in Keys
    PROVE  MarkersOK'
<1> SUFFICES ASSUME Listers = {}
             PROVE  /\ TombstoneMarked'
                    /\ \A q \in Writers : writer'[q].pc = "put" /\ IsTombstone(writer'[q].send)
                          => marker'[writer'[q].key] # None
  BY DEF MarkersOK
<1>1. /\ TombstoneMarked
      /\ \A q \in Writers : writer[q].pc = "put" /\ IsTombstone(writer[q].send)
            => marker[writer[q].key] # None
  BY DEF MarkersOK
<1>2. TombstoneMarked' BY <1>1 DEF TombstoneMarked
<1>3. ASSUME NEW q \in Writers, writer'[q].pc = "put", IsTombstone(writer'[q].send)
      PROVE  marker'[writer'[q].key] # None
  <2>1. CASE q = w
    <3>1. writer'[q] = c1 BY <2>1 DEF TypeOK
    <3> QED BY <1>3, <3>1
  <2>2. CASE q # w
    <3>1. writer'[q] = writer[q] BY <2>2 DEF TypeOK
    <3> QED BY <1>1, <1>3, <3>1
  <2> QED BY <2>1, <2>2
<1> QED BY <1>2, <1>3

LEMMA CallKeeps ==
    ASSUME S3Assumption, IndInv, NEW w \in Writers, NEW k \in Keys, NEW op \in WriteOps,
           NEW body \in NewBodies, NEW seen \in {None, RecordOf(object[k])},
           Call(w, k, op, seen, body)
    PROVE  IndInv'
<1> DEFINE c1 == [NoCall EXCEPT !.pc = "read", !.op = op, !.key = k, !.seen = seen,
                                !.body = body, !.stamp = ops + 1]
<1>0. /\ StoreOK /\ MarkersOK /\ ListingsOK /\ ops \in Nat /\ body \in Bodies
      /\ writer \in [Writers -> Calls] /\ object \in [Keys -> Objects] /\ TypeOK
  BY WriterFacts DEF IndInv, StoreOK, S3Assumption
<1>1. seen \in FiniteSlot /\ seen \in Slot
  BY <1>0 DEF StoreOK, ObjectOK, FiniteSlot, Slot, FiniteChain
<1>2. /\ c1 \in Calls /\ c1.pc = "read" /\ c1.op = op /\ c1.key = k /\ c1.seen = seen
      /\ c1.body = body /\ c1.stamp = ops + 1
  <2>1. NoCall \in Calls /\ ops + 1 \in Nat BY <1>0, NoCallIsIdle
  <2>2. c1 \in Calls BY <1>0, <1>1, <2>1 DEF Calls, WriteOps
  <2> QED BY <2>2 DEF NoCall
<1>3. /\ writer' = [writer EXCEPT ![w] = c1] /\ ops' = ops + 1
      /\ UNCHANGED <<object, marker, flag, lister, watch>> /\ Sensible(op, seen)
  BY DEF Call
<1> HIDE DEF c1
<1>4. CallOK(w)'
  <2>1. writer'[w] = c1 BY <1>0, <1>3
  <2>2. IsRequest(c1) BY <1>0, <1>1, <1>2, <1>3 DEF IsRequest
  <2>3. object[k] # None => object[k].stamp <= ops /\ object[k].stamp \in Nat
    BY <1>0 DEF StoreOK, ObjectOK, Objects
  <2> QED BY <1>0, <1>2, <1>3, <2>1, <2>2, <2>3 DEF CallOK, Stamped
<1>5. ASSUME NEW q \in Writers, q # w
      PROVE  /\ CallOK(q)' /\ writer'[q] = writer[q]
             /\ writer[q].stamp <= ops /\ writer[q].stamp \in Nat
  <2>1. writer'[q] = writer[q] BY <1>0, <1>3, <1>5
  <2>2. CallOK(q)' BY <1>0, <1>3, <1>5, <2>1, OthersStand
  <2> QED BY <1>0, <2>1, <2>2, WriterFacts DEF CallOK
<1>6. StampsDiffer' BY <1>0, <1>2, <1>3, <1>5 DEF StoreOK, StampsDiffer
<1>7. TypeOK' BY <1>0, <1>2, <1>3 DEF TypeOK
<1>8. \A k2 \in Keys : ObjectOK(k2)'
  <2>1. ASSUME NEW k2 \in Keys PROVE ObjectOK(k2)'
    <3>1. object[k2] # None => object[k2].stamp <= ops /\ object[k2].stamp \in Nat
      BY <1>0 DEF StoreOK, ObjectOK, Objects
    <3> QED BY <1>0, <1>3, <3>1 DEF StoreOK, ObjectOK
  <2> QED BY <2>1
<1>9. MarkersOK'
  <2>1. \A q \in Writers : writer[q].pc # "idle" => writer[q].key \in Keys BY <1>0 DEF StoreOK, CallOK
  <2> QED BY <1>0, <1>2, <1>3, <2>1, MarkersStand
<1>10. ListingsOK' BY <1>0, <1>3, ListingsStand
<1> QED BY <1>0, <1>3, <1>4, <1>5, <1>6, <1>7, <1>8, <1>9, <1>10 DEF IndInv, StoreOK

\* A step of w that changes no object, and ends the call or goes on with it.
LEMMA StillKeeps ==
    ASSUME S3Assumption, IndInv, NEW w \in Writers, NEW c1 \in Calls,
           writer' = [writer EXCEPT ![w] = c1], c1.stamp = writer[w].stamp,
           UNCHANGED <<object, flag, lister, watch, ops>>,
           marker' \in [Keys -> Revision \cup {None}],
           \A k \in Keys : marker[k] # None => marker'[k] # None,
           c1.pc = "put" /\ IsTombstone(c1.send) /\ Listers = {} => marker'[c1.key] # None,
           CallOK(w)'
    PROVE  IndInv'
<1>0. /\ StoreOK /\ MarkersOK /\ ListingsOK /\ TypeOK
      /\ object \in [Keys -> Objects]
      /\ \A q \in Writers : writer[q].pc # "idle" => writer[q].key \in Keys
  BY WriterFacts DEF IndInv, StoreOK, CallOK
<1>1. StoreOK' BY <1>0, WriterStep
<1>2. MarkersOK' BY <1>0, MarkersStand
<1>3. ListingsOK' BY <1>0, ListingsStand
<1> QED BY <1>1, <1>2, <1>3 DEF IndInv

\* A call that has ended without being refused claims nothing.
LEMMA EndedIsOK ==
    ASSUME StoreOK, NEW w \in Writers, NEW c1 \in Calls, writer' = [writer EXCEPT ![w] = c1],
           c1.stamp = writer[w].stamp, c1.pc = "idle", c1.answer \notin Refusals, ops' = ops
    PROVE  CallOK(w)'
<1>1. CallOK(w) /\ writer'[w] = c1 BY WriterFacts
<1> QED BY <1>1 DEF CallOK

LEMMA FailKeeps == ASSUME S3Assumption, IndInv, NEW w \in Writers, Fail(w) PROVE IndInv'
<1> DEFINE c1 == Answered(writer[w], "Error")
<1>0. StoreOK /\ writer[w] \in Calls /\ marker \in [Keys -> Revision \cup {None}]
  BY WriterFacts DEF IndInv, StoreOK, TypeOK
<1>1. c1 \in Calls /\ c1.pc = "idle" /\ c1.stamp = writer[w].stamp /\ c1.answer = "Error"
  BY <1>0, AnsweredFacts
<1>2. writer' = [writer EXCEPT ![w] = c1] /\ UNCHANGED <<object, marker, flag, lister, watch, ops>>
  BY DEF Fail
<1> HIDE DEF c1
<1>3. CallOK(w)' BY <1>0, <1>1, <1>2, EndedIsOK DEF Refusals
<1> QED BY <1>0, <1>1, <1>2, <1>3, StillKeeps

LEMMA PutMarkerKeeps == ASSUME S3Assumption, IndInv, NEW w \in Writers, PutMarker(w) PROVE IndInv'
<1> DEFINE c == writer[w]
           c1 == [c EXCEPT !.pc = "put"]
<1>0. /\ StoreOK /\ c \in Calls /\ marker \in [Keys -> Revision \cup {None}] /\ CallOK(w)
      /\ writer \in [Writers -> Calls]
  BY WriterFacts DEF IndInv, StoreOK, TypeOK
<1>1. /\ c.pc = "marker" /\ marker' = [marker EXCEPT ![c.key] = c.send.revision]
      /\ writer' = [writer EXCEPT ![w] = c1] /\ UNCHANGED <<object, flag, lister, watch, ops>>
  BY DEF PutMarker
<1>2. /\ c1 \in Calls /\ c1.pc = "put" /\ c1.key = c.key /\ c1.op = c.op /\ c1.seen = c.seen
      /\ c1.body = c.body /\ c1.etag = c.etag /\ c1.send = c.send /\ c1.stamp = c.stamp
  BY <1>0 DEF Calls
<1> HIDE DEF c1
<1>3. c.key \in Keys /\ c.send \in Record /\ c.send.revision \in Revision
  BY <1>0, <1>1 DEF CallOK, Record
<1>4. CallOK(w)'
  <2>1. writer'[w] = c1 BY <1>0, <1>1
  <2>2. /\ \A slot, cap : PlanFor(c1, slot, cap) = PlanFor(c, slot, cap)
        /\ IsRequest(c) => IsRequest(c1)
    BY <1>2, SameRequest
  <2> QED BY <1>0, <1>1, <1>2, <2>1, <2>2 DEF CallOK, Stamped
<1>5. /\ marker' \in [Keys -> Revision \cup {None}] /\ marker'[c.key] # None
      /\ \A k \in Keys : marker[k] # None => marker'[k] # None
  BY <1>0, <1>1, <1>3, NoneAssumption
<1> QED BY <1>0, <1>1, <1>2, <1>4, <1>5, StillKeeps

\* Every plan is an outcome and a record.
LEMMA PlansAreRecords ==
    ASSUME NEW call, call.op \in WriteOps, NEW slot, NEW cap
    PROVE  \E o, r : PlanFor(call, slot, cap) = [outcome |-> o, record |-> r]
<1> DEFINE IsPlan(p) == \E o, r : p = [outcome |-> o, record |-> r]
<1>0. /\ \A r : IsPlan(Write(r))
      /\ \A o : IsPlan(Plan(o))
  BY DEF Write, Plan
<1> HIDE DEF IsPlan
<1>1. \A rec, expected : IsPlan(PlanPut(slot, rec, expected, cap)) BY <1>0 DEF PlanPut, IsLive
<1>2. \A rec, expected : IsPlan(PlanPutRaw(slot, rec, expected, cap)) BY <1>0 DEF PlanPutRaw
<1>3. \A expected, now : IsPlan(PlanDelete(slot, expected, now, cap)) BY <1>0 DEF PlanDelete
<1>4. \A expected : IsPlan(PlanPurge(slot, expected)) BY <1>0 DEF PlanPurge
<1>5. IsPlan(PlanFor(call, slot, cap)) BY <1>1, <1>2, <1>3, <1>4 DEF PlanFor, WriteOps
<1> QED BY <1>5 DEF IsPlan

LEMMA AttemptKeeps == ASSUME S3Assumption, IndInv, NEW w \in Writers, Attempt(w) PROVE IndInv'
<1>0. PICK c \in Calls : c = writer[w] BY WriterFacts DEF IndInv
<1>1. /\ StoreOK /\ CallOK(w) /\ marker \in [Keys -> Revision \cup {None}]
      /\ writer \in [Writers -> Calls] /\ object \in [Keys -> Objects] /\ c.stamp \in Nat
      /\ c.pc = "read" /\ c.key \in Keys /\ IsRequest(c)
  BY <1>0, WriterFacts DEF IndInv, StoreOK, TypeOK, Attempt, CallOK
<1>2. PICK obj \in Objects : obj = object[c.key] BY <1>1
<1>3. RecordOf(obj) \in FiniteSlot BY <1>1, <1>2 DEF StoreOK, ObjectOK
<1> DEFINE plan == PlanFor(c, RecordOf(obj), Cap)
<1>4. /\ plan.outcome \in {"Write", "Remove", "Noop", "Rejected", "NotFound", "Conflict"}
      /\ plan.outcome = "Write" => /\ plan = Write(plan.record) /\ plan.record \in Record
                                   /\ FiniteChain(plan.record)
      /\ plan.outcome = "Remove" => plan.record = None
  <2>1. /\ plan.outcome \in {"Write", "Remove", "Noop", "Rejected", "NotFound", "Conflict"}
        /\ plan.outcome = "Write" => WrittenOver(RecordOf(obj), plan.record, Cap)
        /\ plan.outcome = "Remove" => c.op = "purge"
    BY <1>1, <1>3, PlannedIsWritten DEF S3Assumption
  <2>2. plan.outcome = "Remove" => plan.record = None
    BY <2>1 DEF PlanFor, PlanPurge, Plan
  <2>3. \E o, r : plan = [outcome |-> o, record |-> r]
    <3>1. c.op \in WriteOps BY <1>1 DEF IsRequest
    <3> QED BY <3>1, PlansAreRecords DEF WriteOps
  <2>4. plan.outcome = "Write" => plan = Write(plan.record) BY <2>3 DEF Write
  <2> QED BY <2>1, <2>2, <2>4 DEF WrittenOver
<1> HIDE DEF plan
<1> DEFINE planned == [c EXCEPT !.etag = obj, !.send = plan.record, !.pending = None]
           going == [planned EXCEPT !.pc = IF plan.outcome = "Remove" THEN "remove"
                                           ELSE IF IsTombstone(plan.record) THEN "marker" ELSE "put"]
<1>5. UNCHANGED <<object, marker, flag, lister, watch, ops>> BY DEF Attempt
<1>6. CASE OwnWriteLanded(c, obj)
  <2>1. writer' = [writer EXCEPT ![w] = Answered(c, "Written")]
    BY <1>0, <1>2, <1>6 DEF Attempt
  <2> DEFINE c1 == Answered(c, "Written")
  <2>2. c1 \in Calls /\ c1.pc = "idle" /\ c1.stamp = c.stamp /\ c1.answer = "Written"
    BY AnsweredFacts
  <2> HIDE DEF c1
  <2>3. CallOK(w)' BY <1>0, <1>1, <1>5, <2>1, <2>2, EndedIsOK DEF Refusals, c1
  <2> QED BY <1>0, <1>1, <1>5, <2>1, <2>2, <2>3, StillKeeps DEF c1
<1>7. ~OwnWriteLanded(c, obj) => ~Stamped(c) BY <1>0, <1>1, <1>2 DEF CallOK
<1>8. CASE ~OwnWriteLanded(c, obj) /\ plan.outcome \in {"Write", "Remove"}
  <2>1. writer' = [writer EXCEPT ![w] = going]
    <3>1. CASE plan.outcome = "Write"
      BY <1>0, <1>2, <1>8, <3>1 DEF Attempt, plan
    <3>2. CASE plan.outcome = "Remove"
      BY <1>0, <1>2, <1>8, <3>2 DEF Attempt, plan
    <3> QED BY <1>8, <3>1, <3>2
  <2>2. plan.record \in Slot /\ None \in Slot BY <1>4, <1>8 DEF Slot
  <2>3. planned \in Calls BY <2>2 DEF Calls, Objects
  <2>4. /\ going \in Calls /\ going.stamp = c.stamp /\ going.key = c.key /\ going.op = c.op
        /\ going.seen = c.seen /\ going.body = c.body /\ going.etag = obj /\ going.send = plan.record
        /\ going.pc = IF plan.outcome = "Remove" THEN "remove"
                      ELSE IF IsTombstone(plan.record) THEN "marker" ELSE "put"
    <3>1. /\ planned.stamp = c.stamp /\ planned.key = c.key /\ planned.op = c.op
          /\ planned.seen = c.seen /\ planned.body = c.body /\ planned.etag = obj
          /\ planned.send = plan.record
      BY DEF Calls
    <3> HIDE DEF planned
    <3>2. (IF plan.outcome = "Remove" THEN "remove"
           ELSE IF IsTombstone(plan.record) THEN "marker" ELSE "put")
          \in {"idle", "read", "marker", "put", "remove"}
      OBVIOUS
    <3>3. going \in Calls BY <2>3, <3>2 DEF Calls
    <3> QED BY <2>3, <3>1, <3>3 DEF Calls
  <2> HIDE DEF going
  <2>5. /\ PlanFor(going, RecordOf(obj), Cap) = plan /\ IsRequest(going)
    BY <1>1, <2>4, SameRequest DEF plan
  <2>6. CallOK(w)'
    <3>1. writer'[w] = going BY <1>1, <2>1
    <3>2. ~Stamped(going)' BY <1>5, <1>7, <1>8, <2>4 DEF Stamped
    <3>3. c.stamp <= ops /\ c.stamp > 0 BY <1>0, <1>1 DEF CallOK
    <3> QED BY <1>1, <1>4, <1>5, <1>8, <2>4, <2>5, <3>1, <3>2, <3>3 DEF CallOK, Stamped
  <2> QED BY <1>0, <1>1, <1>5, <2>1, <2>4, <2>6, <1>8, StillKeeps
<1>9. CASE ~OwnWriteLanded(c, obj) /\ plan.outcome \notin {"Write", "Remove"}
  <2> DEFINE c1 == Answered(c, plan.outcome)
  <2>1. writer' = [writer EXCEPT ![w] = c1] BY <1>0, <1>2, <1>9 DEF Attempt, plan
  <2>2. c1 \in Calls /\ c1.pc = "idle" /\ c1.stamp = c.stamp /\ c1.key = c.key
    BY <1>4, <1>9, AnsweredFacts
  <2> HIDE DEF c1
  <2>3. CallOK(w)'
    <3>1. writer'[w] = c1 BY <1>1, <2>1
    <3>2. ~Stamped(c1)' BY <1>5, <1>7, <1>9, <2>2 DEF Stamped
    <3>3. c.stamp <= ops BY <1>0, <1>1 DEF CallOK
    <3> QED BY <1>1, <1>5, <2>2, <3>1, <3>2, <3>3 DEF CallOK, Stamped
  <2> QED BY <1>0, <1>1, <1>5, <2>1, <2>2, <2>3, StillKeeps
<1> QED BY <1>6, <1>8, <1>9

\* A change of the objects, as the watch on the listings sees it.
LEMMA WatchKeeps ==
    ASSUME ListingsOK, UNCHANGED <<lister, flag>>,
           watch' = [l \in Listers |-> [always |-> watch[l].always \cap LiveKeys(object'),
                                        ever   |-> watch[l].ever \cup LiveKeys(object')]]
    PROVE  ListingsOK'
<1> DEFINE Now == LiveKeys(object')
<1>0. Now \subseteq Keys /\ LiveKeys(object)' = Now BY DEF LiveKeys
<1>1. ASSUME NEW l \in Listers
      PROVE  /\ watch[l].always \subseteq Keys /\ watch[l].ever \subseteq Keys
             /\ watch'[l].always = watch[l].always \cap Now
             /\ watch'[l].ever = watch[l].ever \cup Now
             /\ watch'[l] \in [always : SUBSET Keys, ever : SUBSET Keys]
  BY <1>0 DEF ListingsOK
<1> HIDE DEF Now
<1>2. watch' \in [Listers -> [always : SUBSET Keys, ever : SUBSET Keys]] BY <1>1
<1>3. ASSUME NEW l \in Listers PROVE ListerOK(l)'
  <2>1. ListerOK(l) BY DEF ListingsOK
  <2> QED BY <1>0, <1>1, <2>1 DEF ListerOK
<1>4. ASSUME OneLister, NEW l \in Listers PROVE UpgradeOK(l)'
  <2>1. UpgradeOK(l) BY <1>4 DEF ListingsOK
  <2> QED BY <1>1, <2>1 DEF UpgradeOK
<1> QED BY <1>2, <1>3, <1>4 DEF ListingsOK

\* What a conditional request does.
LEMMA ConditionalFacts ==
    ASSUME S3Assumption, StoreOK, NEW w \in Writers, NEW pc \in {"put", "remove"},
           NEW new \in Objects, NEW pending \in Slot, NEW response \in Responses,
           Conditional(w, pc, new, pending, response)
    PROVE  /\ \/ object' = object
              \/ /\ object[writer[w].key] = writer[w].etag
                 /\ object' = [object EXCEPT ![writer[w].key] = new]
           /\ \E c1 \in Calls :
                 /\ writer' = [writer EXCEPT ![w] = c1]
                 /\ c1.key = writer[w].key /\ c1.stamp = writer[w].stamp
                 /\ \/ c1.pc = "idle" /\ c1.answer \in {"Written", "Error", "Lost"}
                    \/ /\ c1.pc = "read" /\ c1.pending = pending
                       /\ c1.op = writer[w].op /\ c1.seen = writer[w].seen /\ c1.body = writer[w].body
<1> DEFINE c == writer[w]
           applied == Matches(c, object[c.key]) /\ response # "busy"
<1>0. c \in Calls BY WriterFacts
<1>1. \/ object' = object
      \/ object[c.key] = c.etag /\ object' = [object EXCEPT ![c.key] = new]
  BY DEF Conditional, Matches
<1>2. \E c1 \in {Answered(c, "Written"), Answered(c, "Error"), Retried(c, pending)} :
         writer' = [writer EXCEPT ![w] = c1]
  BY DEF Conditional, Responses
<1>3. PICK c1 \in {Answered(c, "Written"), Answered(c, "Error"), Retried(c, pending)} :
         writer' = [writer EXCEPT ![w] = c1]
  BY <1>2
<1>4. ASSUME NEW answer \in {"Written", "Error"}, c1 = Answered(c, answer)
      PROVE  c1 \in Calls /\ c1.pc = "idle" /\ c1.key = c.key /\ c1.stamp = c.stamp /\ c1.answer = answer
  BY <1>0, <1>4, AnsweredFacts
<1>5. ASSUME c1 = Retried(c, pending)
      PROVE  /\ c1 \in Calls /\ c1.key = c.key /\ c1.stamp = c.stamp
             /\ \/ c1.pc = "idle" /\ c1.answer = "Lost"
                \/ /\ c1.pc = "read" /\ c1.pending = pending
                   /\ c1.op = c.op /\ c1.seen = c.seen /\ c1.body = c.body
  BY <1>0, <1>5, RetriedFacts
<1> QED BY <1>1, <1>3, <1>4, <1>5

LEMMA ConditionalKeeps ==
    ASSUME S3Assumption, IndInv, NEW w \in Writers, NEW pc, NEW new, NEW pending,
           NEW response \in Responses, Conditional(w, pc, new, pending, response),
           \/ pc = "put" /\ new = Object(writer[w].send, writer[w].stamp) /\ pending = writer[w].send
           \/ pc = "remove" /\ new = None /\ pending = None
    PROVE  IndInv'
<1>0. PICK c \in Calls : c = writer[w] BY WriterFacts DEF IndInv
<1>1. /\ StoreOK /\ MarkersOK /\ ListingsOK /\ TypeOK /\ CallOK(w)
      /\ marker \in [Keys -> Revision \cup {None}]
      /\ writer \in [Writers -> Calls] /\ object \in [Keys -> Objects] /\ c.stamp \in Nat
      /\ c.pc = pc /\ c.key \in Keys /\ IsRequest(c) /\ c.stamp > 0 /\ c.stamp <= ops
  BY <1>0, WriterFacts DEF IndInv, StoreOK, TypeOK, Conditional, CallOK
<1>2. /\ new \in Objects /\ pending \in Slot /\ RecordOf(new) \in FiniteSlot
      /\ pc = "put" => new # None /\ new.stamp = c.stamp /\ RecordOf(new) = c.send
      /\ pc = "put" => pending = c.send /\ pending # None /\ new = Object(pending, c.stamp)
      /\ pc = "remove" => new = None /\ RecordOf(new) = None
  <2>1. CASE pc = "put"
    <3>1. c.send \in Record /\ FiniteChain(c.send) BY <1>0, <1>1, <2>1 DEF CallOK
    <3> QED BY <1>0, <1>1, <2>1, <3>1, ObjectFacts, NoneIsNotRecord DEF FiniteSlot, Slot
  <2>2. CASE pc = "remove"
    BY <2>2 DEF Objects, Slot, RecordOf, FiniteSlot, FiniteChain
  <2> QED BY <2>1, <2>2
<1>3. /\ \/ object' = object
         \/ object[c.key] = c.etag /\ object' = [object EXCEPT ![c.key] = new]
      /\ \E c1 \in Calls :
            /\ writer' = [writer EXCEPT ![w] = c1]
            /\ c1.key = c.key /\ c1.stamp = c.stamp
            /\ \/ c1.pc = "idle" /\ c1.answer \in {"Written", "Error", "Lost"}
               \/ /\ c1.pc = "read" /\ c1.pending = pending
                  /\ c1.op = c.op /\ c1.seen = c.seen /\ c1.body = c.body
  BY <1>0, <1>1, <1>2, ConditionalFacts
<1>4. PICK c1 \in Calls :
            /\ writer' = [writer EXCEPT ![w] = c1]
            /\ c1.key = c.key /\ c1.stamp = c.stamp
            /\ \/ c1.pc = "idle" /\ c1.answer \in {"Written", "Error", "Lost"}
               \/ /\ c1.pc = "read" /\ c1.pending = pending
                  /\ c1.op = c.op /\ c1.seen = c.seen /\ c1.body = c.body
  BY <1>3
<1>5. UNCHANGED <<marker, flag, lister, ops>> BY DEF Conditional
<1>6. /\ object' \in [Keys -> Objects]
      /\ \A k \in Keys : object'[k] = object[k] \/ (k = c.key /\ object'[k] = new)
  BY <1>1, <1>2, <1>3
<1>7. CallOK(w)'
  <2>1. CASE c1.pc = "idle"
    BY <1>0, <1>1, <1>4, <1>5, <2>1, EndedIsOK DEF Refusals
  <2>2. CASE c1.pc = "read"
    <3>1. writer'[w] = c1 BY <1>1, <1>4
    <3>2. IsRequest(c1) BY <1>1, <1>4, <2>2, SameRequest
    <3>3. object'[c.key] # None /\ object'[c.key].stamp = c.stamp
          => OwnWriteLanded(c1, object'[c.key])
      <4>1. CASE object' = object
        <5>1. ~Stamped(c) BY <1>0, <1>1 DEF CallOK
        <5> QED BY <4>1, <5>1 DEF Stamped
      <4>2. CASE object'[c.key] = new
        BY <1>1, <1>2, <1>4, <2>2, <4>2 DEF OwnWriteLanded
      <4> QED BY <1>1, <1>3, <4>1, <4>2
    <3> QED BY <1>1, <1>4, <1>5, <2>2, <3>1, <3>2, <3>3 DEF CallOK, Stamped
  <2> QED BY <1>4, <2>1, <2>2
<1>8. StoreOK'
  <2>1. \A k \in Keys : \/ object'[k] = object[k]
                        \/ object'[k] = None
                        \/ /\ object'[k].stamp = c.stamp /\ c.stamp > 0
                           /\ RecordOf(object'[k]) \in FiniteSlot
    BY <1>1, <1>2, <1>6
  <2> QED BY <1>0, <1>1, <1>4, <1>5, <1>6, <1>7, <2>1, WriterStep
<1>9. MarkersOK'
  <2>1. \A k \in Keys : \/ object'[k] = object[k]
                        \/ RecordOf(object'[k]) = None
                        \/ IsLive(RecordOf(object'[k]))
                        \/ Listers = {} => marker'[k] # None
    <3> SUFFICES ASSUME NEW k \in Keys, object'[k] # object[k], RecordOf(object'[k]) # None,
                        ~IsLive(RecordOf(object'[k])), Listers = {}
                 PROVE  marker'[k] # None
      OBVIOUS
    <3>1. k = c.key /\ object'[k] = new /\ pc = "put" BY <1>2, <1>6
    <3>2. IsTombstone(c.send) BY <1>2, <3>1 DEF IsLive
    <3> QED BY <1>0, <1>1, <1>5, <3>1, <3>2 DEF MarkersOK
  <2>2. \A q \in Writers : writer[q].pc # "idle" => writer[q].key \in Keys BY <1>1 DEF StoreOK, CallOK
  <2> QED BY <1>1, <1>4, <1>5, <2>1, <2>2, MarkersStand
<1>10. ListingsOK' BY <1>1, <1>5, WatchKeeps DEF Conditional
<1> QED BY <1>8, <1>9, <1>10 DEF IndInv

(***************************************************************************)
(* Steps of a listing                                                      *)
(***************************************************************************)

Watches == [always : SUBSET Keys, ever : SUBSET Keys]

LEMMA ListerFacts ==
    ASSUME IndInv, NEW l \in Listers
    PROVE  /\ lister \in [Listers -> Listings] /\ lister[l] \in Listings
           /\ watch \in [Listers -> Watches] /\ watch[l] \in Watches
           /\ watch[l].always \subseteq Keys /\ watch[l].ever \subseteq Keys
           /\ marker \in [Keys -> Revision \cup {None}] /\ flag \in BOOLEAN
           /\ object \in [Keys -> Objects]
           /\ \A k \in Keys : RecordOf(object[k]) \in Slot
           /\ ListerOK(l) /\ (OneLister => UpgradeOK(l))
BY DEF IndInv, ListingsOK, StoreOK, TypeOK, ObjectOK, FiniteSlot, Watches, Objects

\* A step of listing l that makes it `new' and touches nothing a writer holds.
LEMMA ListerStep ==
    ASSUME IndInv, NEW l \in Listers, NEW new \in Listings, Listing(l, new),
           marker' \in [Keys -> Revision \cup {None}], flag' \in BOOLEAN,
           watch' \in [Listers -> Watches], \A m \in Listers \ {l} : watch'[m] = watch[m],
           ListerOK(l)', OneLister => UpgradeOK(l)'
    PROVE  IndInv'
<1>0. /\ lister' = [lister EXCEPT ![l] = new] /\ UNCHANGED <<object, writer, ops>>
      /\ lister \in [Listers -> Listings]
  BY ListerFacts DEF Listing
<1>1. StoreOK'
  <2>1. TypeOK' BY <1>0 DEF IndInv, StoreOK, TypeOK
  <2>2. \A k \in Keys : ObjectOK(k)' BY <1>0 DEF IndInv, StoreOK, ObjectOK
  <2>3. \A w \in Writers : CallOK(w)' BY <1>0 DEF IndInv, StoreOK, CallOK, Stamped
  <2>4. StampsDiffer' BY <1>0 DEF IndInv, StoreOK, StampsDiffer
  <2> QED BY <1>0, <2>1, <2>2, <2>3, <2>4 DEF IndInv, StoreOK
<1>2. MarkersOK' BY DEF MarkersOK
<1>3. ASSUME NEW m \in Listers PROVE ListerOK(m)'
  <2>1. CASE m = l BY <2>1
  <2>2. CASE m # l
    <3>1. lister'[m] = lister[m] /\ watch'[m] = watch[m] BY <1>0, <2>2
    <3>2. ListerOK(m) BY DEF IndInv, ListingsOK
    <3> QED BY <1>0, <3>1, <3>2 DEF ListerOK
  <2> QED BY <2>1, <2>2
<1>4. OneLister => \A m \in Listers : UpgradeOK(m)' BY DEF OneLister
<1>5. lister' \in [Listers -> Listings] BY <1>0
<1> QED BY <1>1, <1>2, <1>3, <1>4, <1>5 DEF IndInv, ListingsOK, Watches

LEMMA BeginListKeeps == ASSUME IndInv, NEW l \in Listers, BeginList(l) PROVE IndInv'
<1> DEFINE unread == [k \in Keys |-> [is |-> "unread", revision |-> None]]
           unseen == [k \in Keys |-> None]
           new == [NoListing EXCEPT !.pc = "list", !.todo = Keys, !.upgrading = ~flag,
                                    !.markers = unseen, !.live = unread]
           Now == LiveKeys(object)
           seen == [always |-> Now, ever |-> Now]
<1>0. unread \in [Keys -> Livenesses] /\ unseen \in [Keys -> Revision \cup {None}]
  BY DEF Livenesses
<1>1. /\ new \in Listings /\ new.pc = "list" /\ new.todo = Keys /\ new.upgrading = ~flag
      /\ new.markers = unseen /\ new.live = unread /\ new.records = {} /\ new.out = {}
  <2>1. NoListing \in Listings BY DEF NoListing, Listings
  <2>2. (~flag) \in BOOLEAN BY ListerFacts
  <2> HIDE DEF unread, unseen
  <2>3. new \in Listings BY <1>0, <2>1, <2>2 DEF Listings
  <2> QED BY <2>3 DEF NoListing
<1>2. /\ Listing(l, new) /\ UNCHANGED <<marker, flag>> /\ watch' = [watch EXCEPT ![l] = seen]
  BY DEF BeginList
<1> HIDE DEF new
<1>3. Now \subseteq Keys BY DEF LiveKeys
<1>4. seen \in Watches /\ seen.always = Now /\ seen.ever = Now BY <1>3 DEF Watches
<1> HIDE DEF seen
<1>5. watch' \in [Listers -> Watches] /\ watch'[l] = seen /\ \A m \in Listers \ {l} : watch'[m] = watch[m]
  BY <1>2, <1>4, ListerFacts
<1>6. lister'[l] = new /\ object' = object BY <1>2, ListerFacts DEF Listing
<1>7. LiveKeys(object)' = Now BY <1>6
<1>8. \A k \in Keys : unread[k].is = "unread" OBVIOUS
<1> HIDE DEF unread, unseen, Now
<1>9. ListerOK(l)' BY <1>0, <1>1, <1>3, <1>4, <1>5, <1>6, <1>7, <1>8 DEF ListerOK, Scanning
<1>10. UpgradeOK(l)' BY <1>1, <1>2, <1>5, <1>6, <1>8 DEF UpgradeOK, Scanning
<1> QED BY <1>1, <1>2, <1>5, <1>9, <1>10, ListerFacts, ListerStep

\* A step that leaves the watch alone.
LEMMA QuietListerStep ==
    ASSUME IndInv, NEW l \in Listers, NEW new \in Listings, Listing(l, new), watch' = watch,
           marker' \in [Keys -> Revision \cup {None}], flag' \in BOOLEAN,
           ListerOK(l)', OneLister => UpgradeOK(l)'
    PROVE  IndInv'
BY ListerFacts, ListerStep

LEMMA ListRecordKeeps == ASSUME IndInv, NEW l \in Listers, NEW k \in Keys, ListRecord(l, k) PROVE IndInv'
<1>0. PICK r \in Listings : r = lister[l] BY ListerFacts
<1> DEFINE new == [r EXCEPT !.pc = "list_marker", !.todo = r.todo \ {k}, !.key = k,
                            !.records = IF object[k] = None THEN r.records ELSE r.records \cup {k}]
<1>1. /\ r.pc = "list" /\ Listing(l, new) /\ UNCHANGED <<marker, flag, watch>>
  BY <1>0 DEF ListRecord
<1>2. /\ new \in Listings /\ new.pc = "list_marker" /\ new.todo = r.todo \ {k} /\ new.key = k
      /\ new.records = (IF object[k] = None THEN r.records ELSE r.records \cup {k})
      /\ new.markers = r.markers /\ new.live = r.live /\ new.out = r.out /\ new.upgrading = r.upgrading
  BY DEF Listings
<1> HIDE DEF new
<1>3. lister'[l] = new /\ object' = object BY <1>1, ListerFacts DEF Listing
<1>4. LiveKeys(object)' = LiveKeys(object) /\ (k \in LiveKeys(object) => object[k] # None)
  BY <1>3 DEF LiveKeys, RecordOf, IsLive
<1>5. ListerOK(l) /\ (OneLister => UpgradeOK(l)) BY ListerFacts
<1>6. ListerOK(l)' BY <1>0, <1>1, <1>2, <1>3, <1>4, <1>5 DEF ListerOK, Scanning
<1>7. OneLister => UpgradeOK(l)' BY <1>0, <1>1, <1>2, <1>3, <1>5 DEF UpgradeOK, Scanning
<1> QED BY <1>1, <1>2, <1>6, <1>7, ListerFacts, QuietListerStep

LEMMA ListMarkerKeeps == ASSUME IndInv, NEW l \in Listers, ListMarker(l) PROVE IndInv'
<1>0. PICK r \in Listings : r = lister[l] BY ListerFacts
<1>1. PICK k \in Keys : k = r.key BY <1>0, ListerFacts DEF ListMarker, ListerOK
<1> DEFINE new == [r EXCEPT !.pc = "list", !.key = None, !.markers[k] = marker[k]]
<1>2. /\ r.pc = "list_marker" /\ Listing(l, new) /\ UNCHANGED <<marker, flag, watch>>
  BY <1>0, <1>1 DEF ListMarker
<1>3. ListerOK(l) /\ (OneLister => UpgradeOK(l)) /\ r.markers \in [Keys -> Revision \cup {None}]
  BY <1>0, <1>2, ListerFacts DEF ListerOK
<1>4. /\ new \in Listings /\ new.pc = "list" /\ new.todo = r.todo /\ new.records = r.records
      /\ new.markers \in [Keys -> Revision \cup {None}]
      /\ new.live = r.live /\ new.out = r.out /\ new.upgrading = r.upgrading
  <2>1. [r.markers EXCEPT ![k] = marker[k]] \in [Keys -> Revision \cup {None}] BY <1>3, ListerFacts
  <2> QED BY <2>1 DEF Listings
<1> HIDE DEF new
<1>5. lister'[l] = new /\ object' = object /\ LiveKeys(object)' = LiveKeys(object)
  BY <1>2, ListerFacts DEF Listing
<1>6. ListerOK(l)' BY <1>0, <1>2, <1>3, <1>4, <1>5 DEF ListerOK, Scanning
<1>7. OneLister => UpgradeOK(l)' BY <1>0, <1>2, <1>3, <1>4, <1>5 DEF UpgradeOK, Scanning
<1> QED BY <1>2, <1>4, <1>6, <1>7, ListerFacts, QuietListerStep

LEMMA CheckFlagKeeps == ASSUME IndInv, NEW l \in Listers, CheckFlag(l) PROVE IndInv'
<1>0. PICK r \in Listings : r = lister[l] BY ListerFacts
<1> DEFINE seen == {k \in Keys : r.markers[k] # None}
           todo == IF flag THEN r.records \cap seen ELSE r.records
           empty == [r EXCEPT !.pc = "done"]
           some == [r EXCEPT !.pc = "read", !.marked = flag, !.todo = todo]
           new == IF r.records \cup seen = {} THEN empty ELSE some
<1>1. /\ r.pc = "list" /\ r.todo = {} /\ Listing(l, new) /\ UNCHANGED <<marker, flag, watch>>
  BY <1>0 DEF CheckFlag
<1>2. /\ empty \in Listings /\ empty.pc = "done" /\ empty.records = r.records
      /\ empty.markers = r.markers /\ empty.live = r.live /\ empty.out = r.out
      /\ empty.upgrading = r.upgrading
  BY DEF Listings
<1>3. /\ some \in Listings /\ some.pc = "read" /\ some.todo = todo /\ some.records = r.records
      /\ some.markers = r.markers /\ some.live = r.live /\ some.out = r.out
      /\ some.upgrading = r.upgrading
  <2>1. todo \subseteq Keys /\ flag \in BOOLEAN BY ListerFacts DEF Listings
  <2> HIDE DEF todo
  <2> QED BY <2>1 DEF Listings
<1> HIDE DEF empty, some
<1>4. /\ new \in Listings /\ new.records = r.records /\ new.markers = r.markers /\ new.live = r.live
      /\ new.out = r.out /\ new.upgrading = r.upgrading
      /\ \/ new.pc = "done" /\ r.records = {}
         \/ new.pc = "read" /\ new.todo = todo
  BY <1>2, <1>3
<1> HIDE DEF new
<1>5. lister'[l] = new /\ object' = object /\ LiveKeys(object)' = LiveKeys(object)
  BY <1>1, ListerFacts DEF Listing
<1>6. ListerOK(l) /\ (OneLister => UpgradeOK(l)) BY ListerFacts
<1>7. ListerOK(l)'
  BY <1>0, <1>1, <1>4, <1>5, <1>6 DEF ListerOK, Scanning
<1>8. OneLister => UpgradeOK(l)'
  BY <1>0, <1>1, <1>4, <1>5, <1>6 DEF UpgradeOK, Scanning
<1> QED BY <1>1, <1>4, <1>7, <1>8, ListerFacts, QuietListerStep

LEMMA ReadLivenessKeeps ==
    ASSUME IndInv, NEW l \in Listers, NEW k \in Keys, ReadLiveness(l, k) PROVE IndInv'
<1>0. PICK r \in Listings : r = lister[l] BY ListerFacts
<1>1. PICK slot \in Slot : slot = RecordOf(object[k]) BY ListerFacts
<1> DEFINE found == IF slot = None THEN Liveness("Absent", None)
                    ELSE IF IsLive(slot) THEN Liveness("Live", None)
                    ELSE Liveness("Tombstoned", slot.revision)
           new == [r EXCEPT !.todo = r.todo \ {k}, !.live[k] = found]
<1>2. /\ r.pc = "read" /\ k \in r.todo /\ Listing(l, new) /\ UNCHANGED <<marker, flag, watch>>
  BY <1>0, <1>1 DEF ReadLiveness
<1>3. /\ ListerOK(l) /\ (OneLister => UpgradeOK(l)) /\ r.live \in [Keys -> Livenesses]
      /\ watch[l].ever \subseteq Keys /\ watch[l].always \subseteq Keys
  BY <1>0, <1>2, ListerFacts DEF ListerOK
<1>4. /\ found \in Livenesses /\ found.is # "unread"
      /\ found.is = "Live" <=> IsLive(slot)
  BY DEF Liveness, Livenesses, Slot, Record, IsLive
<1>5. k \in LiveKeys(object) <=> IsLive(slot) BY <1>1 DEF LiveKeys
<1> HIDE DEF found
<1>6. /\ new \in Listings /\ new.pc = "read" /\ new.todo = r.todo \ {k} /\ new.records = r.records
      /\ new.markers = r.markers /\ new.live \in [Keys -> Livenesses] /\ new.live[k] = found
      /\ \A k2 \in Keys \ {k} : new.live[k2] = r.live[k2]
      /\ new.out = r.out /\ new.upgrading = r.upgrading
  <2>1. PICK live \in [Keys -> Livenesses] : live = [r.live EXCEPT ![k] = found] BY <1>3, <1>4
  <2>2. new = [r EXCEPT !.todo = r.todo \ {k}, !.live = live] BY <2>1
  <2>3. live[k] = found /\ \A k2 \in Keys \ {k} : live[k2] = r.live[k2] BY <1>3, <2>1
  <2> HIDE DEF new
  <2>4. new \in Listings BY <2>2 DEF Listings
  <2> QED BY <1>2, <2>2, <2>3, <2>4 DEF Listings
<1> HIDE DEF new
<1>7. lister'[l] = new /\ object' = object /\ LiveKeys(object)' = LiveKeys(object)
  BY <1>2, ListerFacts DEF Listing
<1>8. ListerOK(l)'
  <2>1. ASSUME NEW k2 \in watch[l].always PROVE new.live[k2].is \in {"unread", "Live"}
    <3>1. CASE k2 = k BY <1>0, <1>2, <1>3, <1>4, <1>5, <1>6, <2>1, <3>1 DEF ListerOK
    <3>2. CASE k2 # k BY <1>0, <1>2, <1>3, <1>6, <2>1, <3>2 DEF ListerOK
    <3> QED BY <3>1, <3>2
  <2> QED BY <1>0, <1>2, <1>3, <1>6, <1>7, <2>1 DEF ListerOK, Scanning
<1>9. ASSUME OneLister PROVE UpgradeOK(l)'
  <2>0. CASE ~r.upgrading BY <1>6, <1>7, <2>0 DEF UpgradeOK
  <2>1. CASE r.upgrading
    <3>1. ASSUME NEW k2 \in Keys, new.live[k2].is = "Live" PROVE k2 \in watch[l].ever
      <4>1. CASE k2 = k BY <1>0, <1>2, <1>3, <1>4, <1>5, <1>6, <3>1, <4>1 DEF ListerOK
      <4>2. CASE k2 # k BY <1>0, <1>2, <1>3, <1>6, <1>9, <2>1, <3>1, <4>2 DEF UpgradeOK
      <4> QED BY <4>1, <4>2
    <3>2. ASSUME NEW k2 \in new.records \ new.todo PROVE new.live[k2].is # "unread"
      <4>0. k2 \in Keys BY <1>6 DEF Listings
      <4>1. CASE k2 = k BY <1>4, <1>6, <4>1
      <4>2. CASE k2 # k BY <1>0, <1>2, <1>3, <1>6, <1>9, <2>1, <3>2, <4>0, <4>2 DEF UpgradeOK
      <4> QED BY <4>1, <4>2
    <3> QED BY <1>0, <1>2, <1>3, <1>6, <1>7, <1>9, <2>1, <3>1, <3>2 DEF UpgradeOK, Scanning
  <2> QED BY <2>0, <2>1
<1> QED BY <1>2, <1>6, <1>8, <1>9, ListerFacts, QuietListerStep

LEMMA ReadDoneKeeps == ASSUME IndInv, NEW l \in Listers, ReadDone(l) PROVE IndInv'
<1>0. PICK r \in Listings : r = lister[l] BY ListerFacts
<1> DEFINE todo == {k \in Keys : k \in r.records \/ r.markers[k] # None}
           new == [r EXCEPT !.pc = "resolve", !.todo = todo]
<1>1. /\ r.pc = "read" /\ r.todo = {} /\ Listing(l, new) /\ UNCHANGED <<marker, flag, watch>>
  BY <1>0 DEF ReadDone
<1>2. r.records \subseteq todo /\ todo \subseteq Keys BY DEF Listings
<1> HIDE DEF todo
<1>3. /\ new \in Listings /\ new.pc = "resolve" /\ new.todo = todo /\ new.records = r.records
      /\ new.markers = r.markers /\ new.live = r.live /\ new.out = r.out
      /\ new.upgrading = r.upgrading
  BY <1>2 DEF Listings
<1> HIDE DEF new
<1>4. lister'[l] = new /\ object' = object /\ LiveKeys(object)' = LiveKeys(object)
  BY <1>1, ListerFacts DEF Listing
<1>5. ListerOK(l) /\ (OneLister => UpgradeOK(l)) BY ListerFacts
<1>6. ListerOK(l)' BY <1>0, <1>1, <1>2, <1>3, <1>4, <1>5 DEF ListerOK, Scanning
<1>7. OneLister => UpgradeOK(l)' BY <1>0, <1>1, <1>3, <1>4, <1>5 DEF UpgradeOK, Scanning
<1> QED BY <1>1, <1>3, <1>6, <1>7, ListerFacts, QuietListerStep

LEMMA ResolveKeeps == ASSUME IndInv, NEW l \in Listers, NEW k \in Keys, Resolve(l, k) PROVE IndInv'
<1>0. PICK r \in Listings : r = lister[l] BY ListerFacts
<1> DEFINE state == IF k \in r.records THEN r.live[k].is ELSE "Absent"
           out == IF state \in {"unread", "Live"} THEN r.out \cup {k} ELSE r.out
           new == [r EXCEPT !.todo = r.todo \ {k}, !.out = out]
<1>1. /\ r.pc = "resolve" /\ k \in r.todo /\ Listing(l, new) /\ UNCHANGED <<flag, watch>>
  BY <1>0 DEF Resolve
<1>2. /\ ListerOK(l) /\ (OneLister => UpgradeOK(l)) /\ r.live \in [Keys -> Livenesses]
      /\ r.markers \in [Keys -> Revision \cup {None}]
      /\ watch[l].ever \subseteq Keys /\ watch[l].always \subseteq Keys
      /\ marker \in [Keys -> Revision \cup {None}]
  BY <1>0, <1>1, ListerFacts DEF ListerOK
<1>3. marker' \in [Keys -> Revision \cup {None}]
  <2>1. state \in {"unread", "Live", "Absent", "Tombstoned"} /\ r.live[k].revision \in Revision \cup {None}
    BY <1>2 DEF Livenesses
  <2>2. \/ marker' = marker
        \/ marker' = [marker EXCEPT ![k] = None]
        \/ marker' = [marker EXCEPT ![k] = r.live[k].revision]
    BY <1>0, <2>1 DEF Resolve, DeleteMarkerIfMatch
  <2> QED BY <1>2, <2>1, <2>2
<1>4. out \subseteq Keys BY DEF Listings
<1>5. k \in watch[l].always => k \in out BY <1>0, <1>1, <1>2 DEF ListerOK, Scanning
<1>6. OneLister /\ r.upgrading => out \subseteq watch[l].ever
  BY <1>0, <1>1, <1>2 DEF UpgradeOK
<1>7. r.out \subseteq out OBVIOUS
<1> HIDE DEF out
<1>8. /\ new \in Listings /\ new.pc = "resolve" /\ new.todo = r.todo \ {k} /\ new.records = r.records
      /\ new.markers = r.markers /\ new.live = r.live /\ new.out = out /\ new.upgrading = r.upgrading
  BY <1>1, <1>4 DEF Listings
<1> HIDE DEF new
<1>9. lister'[l] = new /\ object' = object /\ LiveKeys(object)' = LiveKeys(object)
  BY <1>1, ListerFacts DEF Listing
<1>10. ListerOK(l)' BY <1>0, <1>1, <1>2, <1>5, <1>7, <1>8, <1>9 DEF ListerOK, Scanning
<1>11. OneLister => UpgradeOK(l)' BY <1>0, <1>1, <1>2, <1>6, <1>8, <1>9 DEF UpgradeOK, Scanning
<1> QED BY <1>1, <1>3, <1>8, <1>10, <1>11, ListerFacts, QuietListerStep

LEMMA MarkCollectionKeeps == ASSUME IndInv, NEW l \in Listers, MarkCollection(l) PROVE IndInv'
<1>0. PICK r \in Listings : r = lister[l] BY ListerFacts
<1> DEFINE new == [r EXCEPT !.pc = "done"]
<1>1. /\ r.pc = "resolve" /\ r.todo = {} /\ Listing(l, new) /\ UNCHANGED <<marker, watch>>
      /\ flag' \in BOOLEAN
  BY <1>0 DEF MarkCollection
<1>2. /\ new \in Listings /\ new.pc = "done" /\ new.records = r.records /\ new.markers = r.markers
      /\ new.live = r.live /\ new.out = r.out /\ new.upgrading = r.upgrading
  BY DEF Listings
<1> HIDE DEF new
<1>3. lister'[l] = new /\ object' = object /\ LiveKeys(object)' = LiveKeys(object)
  BY <1>1, ListerFacts DEF Listing
<1>4. ListerOK(l) /\ (OneLister => UpgradeOK(l)) BY ListerFacts
<1>5. ListerOK(l)' BY <1>0, <1>1, <1>2, <1>3, <1>4 DEF ListerOK, Scanning
<1>6. OneLister => UpgradeOK(l)' BY <1>0, <1>1, <1>2, <1>3, <1>4 DEF UpgradeOK, Scanning
<1> QED BY <1>1, <1>2, <1>5, <1>6, ListerFacts, QuietListerStep

LEMMA EndListKeeps == ASSUME IndInv, NEW l \in Listers, EndList(l) PROVE IndInv'
<1> DEFINE none == [always |-> {}, ever |-> {}]
<1>1. Listing(l, NoListing) /\ UNCHANGED <<marker, flag>> /\ watch' = [watch EXCEPT ![l] = none]
  BY DEF EndList
<1>2. NoListing \in Listings /\ NoListing.pc = "idle" BY DEF NoListing, Listings
<1>3. none \in Watches BY DEF Watches
<1> HIDE DEF none
<1>4. watch' \in [Listers -> Watches] /\ \A m \in Listers \ {l} : watch'[m] = watch[m]
  BY <1>1, <1>3, ListerFacts
<1>5. lister'[l].pc = "idle" BY <1>1, <1>2, ListerFacts DEF Listing
<1> QED BY <1>1, <1>2, <1>4, <1>5, ListerFacts, ListerStep DEF ListerOK, UpgradeOK

LEMMA S3Step == ASSUME S3Assumption, IndInv, [Next]_vars PROVE IndInv'
<1>1. CASE UNCHANGED vars
  <2>1. UNCHANGED <<object, marker, flag, writer, lister, watch, ops>> BY <1>1 DEF vars
  <2>2. StoreOK'
    <3>1. TypeOK' BY <2>1 DEF IndInv, StoreOK, TypeOK
    <3>2. \A k \in Keys : ObjectOK(k)' BY <2>1 DEF IndInv, StoreOK, ObjectOK
    <3>3. \A w \in Writers : CallOK(w)' BY <2>1 DEF IndInv, StoreOK, CallOK, Stamped
    <3> QED BY <2>1, <3>1, <3>2, <3>3 DEF IndInv, StoreOK, StampsDiffer
  <2>3. MarkersOK' BY <2>1 DEF IndInv, MarkersOK, TombstoneMarked
  <2> QED BY <2>1, <2>2, <2>3, ListingsStand DEF IndInv
<1>2. ASSUME NEW w \in Writers, WriterNext(w) PROVE IndInv'
  <2>1. ASSUME NEW response \in Responses, PutRecord(w, response) \/ RemoveRecord(w, response)
        PROVE  IndInv'
    BY <2>1, ConditionalKeeps DEF PutRecord, RemoveRecord
  <2> QED BY <1>2, <2>1, CallKeeps, AttemptKeeps, PutMarkerKeeps, FailKeeps DEF WriterNext
<1>3. ASSUME NEW l \in Listers, ListerNext(l) PROVE IndInv'
  BY <1>3, BeginListKeeps, ListRecordKeeps, ListMarkerKeeps, CheckFlagKeeps, ReadLivenessKeeps,
     ReadDoneKeeps, ResolveKeeps, MarkCollectionKeeps, EndListKeeps DEF ListerNext
<1> QED BY <1>1, <1>2, <1>3 DEF Next

(***************************************************************************)
(* Theorems                                                                *)
(***************************************************************************)

\* A conditional request that lands is the plan for the record it replaces.
LEMMA LandedIsPlanned ==
    ASSUME S3Assumption, IndInv, NEW w \in Writers, NEW pc, NEW new, NEW pending,
           NEW response \in Responses, Conditional(w, pc, new, pending, response),
           \/ pc = "put" /\ new = Object(writer[w].send, writer[w].stamp)
           \/ pc = "remove" /\ new = None
    PROVE  PlannedStep
<1> SUFFICES ASSUME NEW k \in Keys, object'[k] # object[k]
             PROVE  \E v \in Writers :
                       /\ writer[v].key = k
                       /\ writer[v].pc # "idle"
                       /\ LET slot == RecordOf(object[k])
                          IN  RecordOf(object'[k]) = Apply(slot, PlanFor(writer[v], slot, Cap))
  BY DEF PlannedStep
<1>0. PICK c \in Calls : c = writer[w] BY WriterFacts DEF IndInv
<1>1. CallOK(w) /\ object \in [Keys -> Objects] /\ c.pc = pc /\ c.stamp \in Nat
  BY <1>0, WriterFacts DEF IndInv, Conditional
<1>2. object[c.key] = c.etag /\ object' = [object EXCEPT ![c.key] = new]
  BY <1>0 DEF Conditional, Matches
<1>3. k = c.key /\ object'[k] = new BY <1>1, <1>2
<1> DEFINE slot == RecordOf(object[k])
           plan == PlanFor(c, slot, Cap)
<1>4. slot = RecordOf(c.etag) BY <1>2, <1>3
<1> HIDE DEF slot
<1>5. RecordOf(new) = Apply(slot, plan)
  <2>1. CASE pc = "put"
    <3>1. plan = Write(c.send) /\ c.send \in Record BY <1>0, <1>1, <1>4, <2>1 DEF CallOK
    <3>2. Apply(slot, Write(c.send)) = c.send BY DEF Apply, Write
    <3>3. RecordOf(new) = c.send BY <1>0, <1>1, <2>1, <3>1, ObjectFacts
    <3> QED BY <3>1, <3>2, <3>3
  <2>2. CASE pc = "remove"
    <3>1. plan.outcome = "Remove" BY <1>0, <1>1, <1>4, <2>2 DEF CallOK
    <3> QED BY <2>2, <3>1 DEF Apply, RecordOf
  <2> QED BY <2>1, <2>2
<1>6. c.pc # "idle" BY <1>1
<1> QED BY <1>0, <1>3, <1>5, <1>6 DEF slot

LEMMA StepsArePlanned == ASSUME S3Assumption, IndInv, [Next]_vars PROVE PlannedStep
<1>1. ASSUME object' = object PROVE PlannedStep BY <1>1 DEF PlannedStep
<1>2. ASSUME NEW w \in Writers, WriterNext(w) PROVE PlannedStep
  <2>1. ASSUME NEW response \in Responses, PutRecord(w, response) \/ RemoveRecord(w, response)
        PROVE  PlannedStep
    BY <2>1, LandedIsPlanned DEF PutRecord, RemoveRecord
  <2> QED BY <1>1, <1>2, <2>1 DEF WriterNext, Call, Attempt, PutMarker, Fail
<1>3. ASSUME NEW l \in Listers, ListerNext(l) PROVE PlannedStep
  BY <1>1, <1>3 DEF ListerNext, BeginList, ListRecord, ListMarker, CheckFlag, ReadLiveness, ReadDone,
     Resolve, MarkCollection, EndList, Listing
<1> QED BY <1>1, <1>2, <1>3 DEF Next, vars

\* What a call in flight is about to send is the plan for the record under its ETag; an
\* object with a call's stamp is that call's own lost write; and a listing still holds every
\* key that was live throughout.
THEOREM S3Invariant == ASSUME S3Assumption PROVE Spec => []IndInv
<1>1. Init => IndInv BY S3Init
<1>2. IndInv /\ [Next]_vars => IndInv' BY S3Step
<1> QED BY <1>1, <1>2, PTL DEF Spec

\* write_planned (gonzalo-store-s3): whatever changes an object is the planners' answer for
\* the very record it replaces, with no lock, any number of writers and any lost answers.
THEOREM S3WritesArePlanned == ASSUME S3Assumption PROVE Spec => EachWriteIsPlanned
<1>1. IndInv /\ [Next]_vars => PlannedStep BY StepsArePlanned
<1> QED BY <1>1, S3Invariant, PTL DEF Spec, EachWriteIsPlanned

\* own_write_landed (gonzalo-store-s3): no call is refused whose write is what the store holds.
THEOREM S3RefusesTruly == ASSUME S3Assumption PROVE Spec => [](TypeOK /\ NoFalseRefusal)
<1>1. IndInv => TypeOK /\ NoFalseRefusal
  BY DEF IndInv, StoreOK, CallOK, Stamped, Refusals, NoFalseRefusal
<1> QED BY <1>1, S3Invariant, PTL

\* put_marker before put_record (gonzalo-store-s3, ADR 0025): without listings, which may
\* remove one, no tombstone of a flagged collection is without its marker, whatever crashes.
THEOREM S3TombstonesMarked == ASSUME S3Assumption, Listers = {} PROVE Spec => []TombstoneMarked
<1>1. IndInv => TombstoneMarked BY DEF IndInv, MarkersOK
<1> QED BY <1>1, S3Invariant, PTL

\* list (gonzalo-store-s3): any number of listings at once, and none misses a key that is
\* live throughout.
THEOREM S3ListsLiveKeys == ASSUME S3Assumption PROVE Spec => []LiveKeysListed
<1>1. IndInv => LiveKeysListed BY DEF IndInv, ListingsOK, ListerOK, LiveKeysListed
<1> QED BY <1>1, S3Invariant, PTL

\* The same, and that a listing which upgrades the collection reports only keys that were
\* live during it; for one listing at a time, as another could set the flag under it.
THEOREM S3ListingsExact == ASSUME S3Assumption, OneLister PROVE Spec => []ListingsAreExact
<1>1. IndInv => ListingsAreExact
  BY DEF IndInv, ListingsOK, ListerOK, UpgradeOK, LiveKeysListed, UpgradeListsOnlyLive, ListingsAreExact
<1> QED BY <1>1, S3Invariant, PTL


(***************************************************************************)
(* The object store implements the store contract                          *)
(***************************************************************************)

\* A request changes one object at most.
OneObject == object' = object \/ \E k \in Keys : \A j \in Keys \ {k} : object'[j] = object[j]

LEMMA StepsAreSingle == ASSUME IndInv, [Next]_vars PROVE OneObject
<1>1. ASSUME object' = object PROVE OneObject BY <1>1 DEF OneObject
<1>2. ASSUME NEW w \in Writers, WriterNext(w) PROVE OneObject
  <2>1. ASSUME NEW pc \in {"put", "remove"}, NEW new, NEW pending, NEW response \in Responses,
               Conditional(w, pc, new, pending, response)
        PROVE  OneObject
    <3>1. CallOK(w) /\ writer[w].pc = pc /\ object \in [Keys -> Objects]
      BY <2>1, WriterFacts DEF IndInv, Conditional
    <3>2. writer[w].key \in Keys BY <3>1 DEF CallOK
    <3>3. object' = object \/ object' = [object EXCEPT ![writer[w].key] = new]
      BY <2>1 DEF Conditional
    <3> QED BY <3>1, <3>2, <3>3 DEF OneObject
  <2>2. ASSUME NEW response \in Responses, PutRecord(w, response) \/ RemoveRecord(w, response)
        PROVE  OneObject
    BY <2>1, <2>2 DEF PutRecord, RemoveRecord
  <2> QED BY <1>1, <1>2, <2>2 DEF WriterNext, Call, Attempt, PutMarker, Fail
<1>3. ASSUME NEW l \in Listers, ListerNext(l) PROVE OneObject
  BY <1>1, <1>3 DEF ListerNext, BeginList, ListRecord, ListMarker, CheckFlag, ReadLiveness, ReadDone,
     Resolve, MarkCollection, EndList, Listing
<1> QED BY <1>1, <1>2, <1>3 DEF Next, vars

\* The contract folds as the planners do.
LEMMA SamePersisted == \A slot, rec : Contract!Persisted(slot, rec, Cap) = Persisted(slot, rec, Cap)
<1>1. \A r, s : Contract!Newer(r, s) <=> Newer(r, s) BY DEF Contract!Newer, Newer
<1>2. \A revs : Contract!Newest(revs, Cap) = Newest(revs, Cap)
  <2>1. \A S : Contract!Cardinality(S) = Cardinality(S)
    BY Zenon DEF Contract!Cardinality, Cardinality
  <2> QED BY <1>1, <2>1 DEF Contract!Newest, Newest
<1>3. \A slot : Contract!Lineage(slot) = Lineage(slot) BY DEF Contract!Lineage, Lineage
<1> QED BY <1>2, <1>3 DEF Contract!Persisted, Persisted, Contract!FoldAncestors, FoldAncestors

\* A planned change of an object is a whole write over its record, or its removal.
LEMMA PlannedIsAllowed ==
    ASSUME S3Assumption, IndInv, PlannedStep, NEW k \in Keys, Shown'[k] # Shown[k]
    PROVE  \/ Shown'[k] # None /\ Shown'[k] = Persisted(Shown[k], Shown'[k], Cap)
           \/ Shown[k] # None /\ Shown'[k] = None
<1> DEFINE slot == RecordOf(object[k])
<1>1. Shown[k] = slot /\ Shown'[k] = RecordOf(object'[k]) BY DEF Shown, RecordOf
<1>2. object'[k] # object[k] BY <1>1
<1>3. PICK v \in Writers : /\ writer[v].key = k /\ writer[v].pc # "idle"
                           /\ RecordOf(object'[k]) = Apply(slot, PlanFor(writer[v], slot, Cap))
  BY <1>2 DEF PlannedStep
<1>4. IsRequest(writer[v]) /\ slot \in FiniteSlot
  BY <1>3 DEF IndInv, StoreOK, CallOK, ObjectOK
<1> DEFINE plan == PlanFor(writer[v], slot, Cap)
<1>5. Cap \in Nat BY DEF S3Assumption
<1> HIDE DEF slot
<1>6. /\ plan.outcome = "Write" => WrittenOver(slot, plan.record, Cap)
      /\ plan.outcome = "Remove" => slot # None
  BY <1>4, <1>5, PlannedIsWritten
<1> HIDE DEF plan
<1>7. Apply(slot, plan) = Shown'[k] BY <1>1, <1>3 DEF plan
<1>8. CASE plan.outcome = "Write"
  BY <1>1, <1>6, <1>7, <1>8, NoneIsNotRecord DEF Apply, WrittenOver
<1>9. CASE plan.outcome = "Remove" BY <1>1, <1>6, <1>7, <1>9 DEF Apply
<1>10. CASE plan.outcome \notin {"Write", "Remove"} BY <1>1, <1>7, <1>10 DEF Apply
<1> QED BY <1>8, <1>9, <1>10

LEMMA S3ContractStep ==
    ASSUME S3Assumption, IndInv, [Next]_vars PROVE [Contract!Next]_Contract!cvars
<1>1. OneObject /\ PlannedStep BY StepsAreSingle, StepsArePlanned
<1>2. CASE Shown' = Shown BY <1>2 DEF Contract!cvars
<1>3. CASE Shown' # Shown
  <2>1. PICK k \in Keys : Shown'[k] # Shown[k] BY <1>3 DEF Shown
  <2>2. \A j \in Keys \ {k} : object'[j] = object[j] BY <1>1, <2>1 DEF OneObject, Shown, RecordOf
  <2>3. \A j \in Keys \ {k} : Shown'[j] = Shown[j] BY <2>2 DEF Shown, RecordOf
  <2>4. Contract!Change(k)
    BY <1>1, <2>1, <2>3, PlannedIsAllowed, SamePersisted
    DEF Contract!Change, Contract!Replace, Contract!Remove, Contract!Only
  <2> QED BY <2>4 DEF Contract!Next
<1> QED BY <1>2, <1>3

\* The object store implements the store contract (ADR 0021), without a lock and whatever
\* answers are lost: each change of a record is one request that folds in the very record
\* it replaces, or removes it.
THEOREM S3ImplementsContract == ASSUME S3Assumption PROVE Spec => ImplementsContract
<1>1. Init => Contract!Init
  <2> SUFFICES ASSUME Init PROVE Contract!Init OBVIOUS
  <2>1. \A k \in Keys : RecordOf(object[k]) \in Slot
    BY S3Init DEF IndInv, StoreOK, ObjectOK, FiniteSlot
  <2>2. \A k \in Keys : RecordOf(object[k]) \in Contract!Slot
    BY <2>1 DEF Contract!Slot, Slot, Contract!Record, Record, Contract!Revision, Revision,
       Contract!LiveKinds, LiveKinds, Contract!ManifestKinds, ManifestKinds
  <2> QED BY <2>2 DEF Contract!Init, Shown
<1>2. IndInv /\ [Next]_vars => [Contract!Next]_Contract!cvars BY S3ContractStep
<1> QED BY <1>1, <1>2, S3Invariant, PTL DEF Spec, ImplementsContract, Contract!Spec
=============================================================================
