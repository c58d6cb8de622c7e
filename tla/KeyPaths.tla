------------------------------ MODULE KeyPaths ------------------------------
(***************************************************************************)
(* Where a record lies (gonzalo-core: paths.rs) and how each substrate      *)
(* reads a name back (S3: parse_object_key; git: key_from_path; filesystem: *)
(* collect_keys).  A name is a sequence of characters.  The alphabet holds  *)
(* every character the codecs treat specially, and words they append whole  *)
(* ("json", "tombstone", "blobs") stand for their letters.  One behaviour   *)
(* writes one key and lists it back.                                       *)
(***************************************************************************)
EXTENDS Naturals, Sequences
LOCAL INSTANCE SequencesExt

CONSTANTS Letters,   \* the characters of a key's components
          MaxShort,  \* bound: length of a namespace or collection
          MaxId      \* bound: length of an id

VARIABLES key,     \* the record key written
          at,      \* new, written or listed
          names,   \* the names it is stored under, by what they hold
          listed   \* what each reader makes of those names

vars == <<key, at, names, listed>>

Kept == {"object", "marker", "flag", "blob"}

Init == /\ key \in [namespace  : BoundedSeq(Letters, MaxShort),
                    collection : BoundedSeq(Letters, MaxShort),
                    id         : BoundedSeq(Letters, MaxId)]
        /\ at = "new" /\ names = <<>> /\ listed = <<>>

(***************************************************************************)
(* Encoding                                                                *)
(***************************************************************************)

\* The two hexadecimal digits of each reserved character.
Hex == [c \in {"%", ".", "/"} |-> CASE c = "%" -> <<"2", "5">>
                                    [] c = "." -> <<"2", "E">>
                                    [] c = "/" -> <<"2", "F">>]

\* Mutant: the escape character is not itself escaped.
PercentKept(s) ==
    FlattenSeq([i \in DOMAIN s |-> IF s[i] \in {".", "/"} THEN <<"%">> \o Hex[s[i]] ELSE <<s[i]>>])

segment(s) ==
    FlattenSeq([i \in DOMAIN s |-> IF s[i] \in DOMAIN Hex THEN <<"%">> \o Hex[s[i]] ELSE <<s[i]>>])

\* hex_val: the character two digits stand for, if they are digits.
Unescaped(hi, lo) == {c \in DOMAIN Hex : Hex[c] = <<hi, lo>>}

\* From position i on: an escape is replaced, a stray % is kept.
decode_segment(s) ==
    LET from[i \in 1..(Len(s) + 1)] ==
          IF i > Len(s) THEN <<>>
          ELSE IF s[i] = "%" /\ i + 2 <= Len(s) /\ Unescaped(s[i + 1], s[i + 2]) # {}
               THEN <<CHOOSE c \in Unescaped(s[i + 1], s[i + 2]) : TRUE>> \o from[i + 3]
               ELSE <<s[i]>> \o from[i + 1]
    IN  from[1]

Json == <<".", "json">>
Marker == <<".", "tombstone">>
Slash(a, b) == a \o <<"/">> \o b

object_key(k) ==
    Slash(Slash(segment(k.namespace), segment(k.collection)), segment(k.id) \o Json)

marker_key(k) == object_key(k) \o Marker
marked_flag_key(k) ==
    Slash(Slash(segment(k.namespace), segment(k.collection)), <<"markers">>)
blob_key == Slash(<<"blobs">>, <<"hash">>)

\* The records' directory components; joining an empty one adds no directory.
record_path(k) ==
    SelectSeq(<<segment(k.namespace), segment(k.collection), segment(k.id) \o Json>>,
              LAMBDA part : part # <<>>)

Write == /\ at = "new" /\ at' = "written"
         /\ names' = [object |-> object_key(key), marker |-> marker_key(key),
                      flag |-> marked_flag_key(key), blob |-> blob_key,
                      path |-> record_path(key)]
         /\ UNCHANGED <<key, listed>>

(***************************************************************************)
(* Reading back                                                            *)
(***************************************************************************)

\* An Option is a set of at most one value.
Strip(s, suffix) == IF IsSuffix(suffix, s) THEN {SubSeq(s, 1, Len(s) - Len(suffix))} ELSE {}

Parts(s) ==
    LET cuts == SetToSortSeq({0, Len(s) + 1} \cup {i \in DOMAIN s : s[i] = "/"}, <)
    IN  [n \in 1..(Len(cuts) - 1) |-> SubSeq(s, cuts[n] + 1, cuts[n + 1] - 1)]

RecordKey(ns, col, id) == [namespace  |-> decode_segment(ns),
                           collection |-> decode_segment(col),
                           id         |-> decode_segment(id)]

parse_object_key(s) ==
    {RecordKey(Parts(rest)[1], Parts(rest)[2], Parts(rest)[3]) :
        rest \in {r \in Strip(s, Json) : Len(Parts(r)) = 3}}

parse_marker_key(s) == UNION {parse_object_key(rest) : rest \in Strip(s, Marker)}

\* Exactly one component under blobs/, without a dot.
blob_hash_from_key(s) ==
    LET parts == Parts(s)
    IN  IF Len(parts) = 2 /\ parts[1] = <<"blobs">> /\ parts[2] # <<>> /\ ~Contains(parts[2], ".")
        THEN {parts[2]} ELSE {}

\* The walk of the filesystem and git stores, and git's reading of a tree path.
key_from_path(path) ==
    IF Len(path) # 3 THEN {}
    ELSE {RecordKey(path[1], path[2], id) : id \in Strip(path[3], Json)}

List == /\ at = "written" /\ at' = "listed"
        /\ listed' = [records |-> UNION {parse_object_key(names[n]) : n \in Kept},
                      markers |-> UNION {parse_marker_key(names[n]) : n \in Kept},
                      blobs   |-> UNION {blob_hash_from_key(names[n]) : n \in Kept},
                      walked  |-> key_from_path(names.path)]
        /\ UNCHANGED <<key, names>>

Next == Write \/ List

Spec == Init /\ [][Next]_vars

(***************************************************************************)
(* Properties                                                              *)
(***************************************************************************)

\* A listing gives back exactly the keys that were written, whatever reserved
\* characters they hold: every reader inverts the encoding.  A path drops empty
\* components, so the walk is asked only for keys without one (paths.rs:
\* "decode_segment is its exact inverse"; parse_object_key, key_from_path).
KeysRoundTrip ==
    at = "listed" =>
        /\ key \in listed.records
        /\ key \in listed.markers
        /\ key.namespace # <<>> /\ key.collection # <<>> => listed.walked = {key}

\* In one bucket records, tombstone markers, collection flags and blobs are never
\* taken for one another (ADR 0025: "the two key spaces are disjoint by
\* construction"; blob_hash_from_key).
KeySpacesDisjoint ==
    at = "listed" =>
        /\ listed.records = {key}
        /\ listed.markers = {key}
        /\ listed.blobs = {<<"hash">>}

\* A stored name stands for one key and for one purpose.
KeysUnambiguous == KeysRoundTrip /\ KeySpacesDisjoint
=============================================================================
