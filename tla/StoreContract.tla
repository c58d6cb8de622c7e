--------------------------- MODULE StoreContract ---------------------------
(***************************************************************************)
(* What every substrate promises of its records, however many steps a call *)
(* takes it: a record is created, removed, or replaced by one that folds    *)
(* its whole chain in, in one indivisible step.  volatile holds the earlier *)
(* states a power loss may bring back; a substrate that loses nothing keeps *)
(* it empty.  RecordStore, FsStore and S3Store are shown to implement this   *)
(* specification (ADR 0021: "all substrates behave identically").            *)
(***************************************************************************)
EXTENDS Records

CONSTANTS Keys, Cap

VARIABLES records,   \* key -> the stored record, or None
          volatile   \* key -> the slots a power loss may bring back

cvars == <<records, volatile>>

Init == /\ records \in [Keys -> Slot]
        /\ volatile = [k \in Keys |-> {}]

Only(k) == \A other \in Keys \ {k} : records'[other] = records[other]

\* What replaces a record carries it and its chain, as far as the cap allows.
Replace(k) == /\ records'[k] # None
              /\ records'[k] = Persisted(records[k], records'[k], Cap)

Remove(k) == records[k] # None /\ records'[k] = None

\* The step is durable at once, or the slot it replaces may still come back.
Change(k) == /\ Replace(k) \/ Remove(k)
             /\ Only(k)
             /\ volatile'[k] \subseteq volatile[k] \cup {records[k]}
             /\ \A other \in Keys \ {k} : volatile'[other] \subseteq volatile[other]

Settle == /\ UNCHANGED records
          /\ \A k \in Keys : volatile'[k] \subseteq volatile[k]

PowerLoss == /\ \A k \in Keys : records'[k] \in {records[k]} \cup volatile[k]
             /\ volatile' = [k \in Keys |-> {}]

Next == (\E k \in Keys : Change(k)) \/ Settle \/ PowerLoss

Spec == Init /\ [][Next]_cvars
=============================================================================
