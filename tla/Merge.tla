------------------------------- MODULE Merge -------------------------------
(***************************************************************************)
(* The body merges behind sync and git pull (gonzalo-core: merge.rs), on   *)
(* small bodies: an append-only body is a sequence of bytes, a structured   *)
(* one a JSON value or something that does not parse.  Each state is one    *)
(* call of merge, so a run checks every call over the given inputs.         *)
(***************************************************************************)
EXTENDS Integers, Sequences, SequencesExt, FiniteSets

CONSTANTS Bytes,      \* the bytes of append-only bodies, Newline among them
          Newline,
          MaxBytes,   \* bound: the longest append-only input
          Scalars,    \* JSON scalars, "null" among them
          Fields,     \* the fields of the root object
          SubFields   \* the fields of the objects below it

VARIABLES call,      \* the arguments of the call: class, base, ours, theirs
          outcome    \* what it returned, once it has

vars == <<call, outcome>>

NeedsResolution == [needs |-> "resolution"]
Pending == [needs |-> "running"]
Merged(body) == [merged |-> body]

(***************************************************************************)
(* AppendOnly                                                              *)
(***************************************************************************)

\* The lines of bytes, each with its trailing newline, if it has one.
SplitLines(bytes) ==
    LET ends   == {i \in DOMAIN bytes : bytes[i] = Newline \/ i = Len(bytes)}
        sorted == SetToSortSeq(ends, <)
        Start(n) == IF n = 1 THEN 1 ELSE sorted[n - 1] + 1
    IN  [n \in DOMAIN sorted |-> SubSeq(bytes, Start(n), sorted[n])]

StripNl(line) == IF line # <<>> /\ Last(line) = Newline THEN Front(line) ELSE line

\* How many leading lines the two sides share, newline aside.
SharedLines(ours, theirs) ==
    LET same(i) == /\ i \in DOMAIN ours \cap DOMAIN theirs
                   /\ StripNl(ours[i]) = StripNl(theirs[i])
    IN  CHOOSE n \in 0..Len(ours) : /\ \A i \in 1..n : same(i)
                                    /\ ~same(n + 1)

\* Mutant: nothing separates the two sides' lines.
AppendWithoutSeparator(ours, theirs) ==
    LET theirLines == SplitLines(theirs)
        shared     == SharedLines(SplitLines(ours), theirLines)
    IN  ours \o FlattenSeq(SubSeq(theirLines, shared + 1, Len(theirLines)))

\* ours verbatim, then the lines of theirs past the shared ones.
AppendOnlyMerge(ours, theirs) ==
    LET theirLines == SplitLines(theirs)
        shared     == SharedLines(SplitLines(ours), theirLines)
        tail       == SubSeq(theirLines, shared + 1, Len(theirLines))
        separator  == IF tail # <<>> /\ ours # <<>> /\ Last(ours) # Newline
                      THEN <<Newline>> ELSE <<>>
    IN  ours \o separator \o FlattenSeq(tail)

(***************************************************************************)
(* Structured                                                              *)
(***************************************************************************)

Scalar(s) == [scalar |-> s]
Object(f) == [object |-> f]
NotJson   == [invalid |-> TRUE]
Absent    == [absent |-> TRUE]     \* a field that is not there
Conflict  == [conflict |-> TRUE]   \* both sides changed it, differently

IsObject(v) == "object" \in DOMAIN v
Get(v, field) == IF IsObject(v) /\ field \in DOMAIN v.object THEN v.object[field] ELSE Absent

RECURSIVE MergeValue(_, _, _)
MergeField(base, ours, theirs) ==
    CASE ours = theirs -> ours
      [] ours # theirs /\ ours = base -> theirs
      [] ours # theirs /\ ours # base /\ theirs = base -> ours
      [] ours # theirs /\ ours # base /\ theirs # base ->
            IF Absent \in {ours, theirs} THEN Conflict
            ELSE MergeValue(IF base = Absent THEN Scalar("null") ELSE base, ours, theirs)

MergeObjects(base, ours, theirs) ==
    LET keys == UNION {DOMAIN v.object : v \in {base, ours, theirs}}
        merged == [k \in keys |-> MergeField(Get(base, k), Get(ours, k), Get(theirs, k))]
        kept == {k \in keys : merged[k] # Absent}
    IN  IF \E k \in keys : merged[k] = Conflict THEN Conflict
        ELSE Object([k \in kept |-> merged[k]])

MergeValue(base, ours, theirs) ==
    CASE ours = theirs -> ours
      [] ours # theirs /\ ours = base -> theirs
      [] ours # theirs /\ ours # base /\ theirs = base -> ours
      [] ours # theirs /\ ours # base /\ theirs # base ->
            IF IsObject(base) /\ IsObject(ours) /\ IsObject(theirs)
            THEN MergeObjects(base, ours, theirs)
            ELSE Conflict

StructuredMerge(base, ours, theirs) ==
    LET merged == MergeValue(base, ours, theirs) IN
    IF NotJson \in {base, ours, theirs} \/ merged = Conflict
    THEN NeedsResolution
    ELSE Merged(merged)

(***************************************************************************)
(* merge, by class                                                         *)
(***************************************************************************)

MergeBodies(class, base, ours, theirs) ==
    CASE class = "AppendOnly" -> Merged(AppendOnlyMerge(ours, theirs))
      [] class = "Structured" -> StructuredMerge(base, ours, theirs)
      [] class = "Opaque"     -> NeedsResolution
      [] class = "Derived"    -> Merged(ours)

Texts == BoundedSeq(Bytes, MaxBytes)

ObjectsOver(fields, values) == {Object(f) : f \in UNION {[S -> values] : S \in SUBSET fields}}
Leaves == {Scalar(s) : s \in Scalars}
Documents == ObjectsOver(Fields, Leaves \cup ObjectsOver(SubFields, Leaves))
             \cup Leaves \cup {NotJson}

Init == /\ outcome = Pending
        /\ call \in [class : {"AppendOnly", "Derived", "Opaque"}, base : {<<>>},
                     ours : Texts, theirs : Texts]
                    \cup [class : {"Structured"}, base : Documents,
                          ours : Documents, theirs : Documents]

Return == /\ outcome = Pending
          /\ outcome' = MergeBodies(call.class, call.base, call.ours, call.theirs)
          /\ UNCHANGED call

Next == Return

Spec == Init /\ [][Next]_vars

(***************************************************************************)
(* Properties                                                              *)
(***************************************************************************)

Returned(class) == outcome # Pending /\ call.class = class

Contents(bytes) == [n \in DOMAIN SplitLines(bytes) |-> StripNl(SplitLines(bytes)[n])]

\* s can be had from t by leaving elements out.
IsSubsequence(s, t) ==
    \E picked \in SUBSET (DOMAIN t) :
        LET at == SetToSortSeq(picked, <) IN s = [i \in DOMAIN at |-> t[at[i]]]

\* No committed line is lost, changed or fused with another: ours survives byte
\* for byte at the front, every line of theirs survives in order, and no line is
\* made up (append_only_merge, ADR 0005).
AppendOnlyLosesNothing ==
    Returned("AppendOnly") =>
        LET ours   == Contents(call.ours)
            theirs == Contents(call.theirs)
            result == Contents(outcome.merged)
        IN  /\ IsPrefix(call.ours, outcome.merged)
            /\ IsSubsequence(theirs, result)
            /\ Len(result) = Len(ours) + Len(theirs) - SharedLines(ours, theirs)

\* A side that is merged again with the result takes it unchanged, whichever side
\* of the call it is on: two stores that merge do not go on growing.
AppendOnlyMergeSettles ==
    Returned("AppendOnly") =>
        /\ AppendOnlyMerge(outcome.merged, call.ours) = outcome.merged
        /\ AppendOnlyMerge(call.ours, outcome.merged) = outcome.merged

\* The reference for a structured merge: a field only one side changed takes
\* that side's value or its absence, wherever the field is (structured_merge).
OneSidedChangesTaken ==
    (Returned("Structured") /\ outcome # NeedsResolution) =>
        LET Follows(b, o, t, m) ==
                \A k \in Fields \cup SubFields :
                    (Get(t, k) = Get(b, k) => Get(m, k) = Get(o, k))
                    /\ (Get(o, k) = Get(b, k) => Get(m, k) = Get(t, k))
            all == <<call.base, call.ours, call.theirs, outcome.merged>>
            below(k) == [i \in 1..4 |-> Get(all[i], k)]
        IN  /\ Follows(all[1], all[2], all[3], all[4])
            /\ \A k \in Fields :
                  (\A i \in 1..4 : IsObject(below(k)[i]))
                  => Follows(below(k)[1], below(k)[2], below(k)[3], below(k)[4])

\* The side that runs sync does not matter to a structured merge: both orders
\* give the same document or the same refusal (sync and git pull order the sides
\* differently).
StructuredSymmetric ==
    Returned("Structured") =>
        outcome = StructuredMerge(call.base, call.theirs, call.ours)

\* A merge loses and invents nothing, in appended lines and in fields alike, and does not
\* depend on who runs it more than its class allows.
MergesAreFaithful == /\ AppendOnlyLosesNothing /\ AppendOnlyMergeSettles
                     /\ OneSidedChangesTaken /\ StructuredSymmetric
=============================================================================
