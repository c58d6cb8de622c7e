------------------------------- MODULE MCSync -------------------------------
(***************************************************************************)
(* Small instances of Sync, side by side: `part' is chosen at the start and *)
(* only that instance moves.  "append" runs one sync of append-only records *)
(* again and again; "opposed" two syncs of them in opposite directions;      *)
(* "kinds" does so for the other kinds of record, with bodies that replace  *)
(* one another; "git" has two clones of one repository that pull and push   *)
(* instead.  A body is a sequence of lines; the appending merge is          *)
(* append_only_merge on lines, which module Merge checks byte by byte.      *)
(***************************************************************************)
EXTENDS Sync, Sequences, SequencesExt

CONSTANTS Lines,     \* what local writers append
          MaxLines   \* bound: the longest body

MCBodies == BoundedSeq(Lines, MaxLines)
MCHash == [body \in MCBodies |-> 1 + FoldLeft(LAMBDA n, line : 4 * n + line, 0, body)]
MCEmpty == <<>>
MCFresh == {<<line>> : line \in Lines}

\* An append-only writer adds lines at the end, any other replaces the body.
MCAppends(body) == {Append(body, line) : line \in Lines} \cap MCBodies
MCReplaces(body) == MCFresh \ {body}

MCAppendOnlyMerge(ours, theirs) ==
    LET shared == Len(LongestCommonPrefix({ours, theirs}))
    IN  ours \o SubSeq(theirs, shared + 1, Len(theirs))

\* A structured body merges only against a base it can be compared with.
MCStructuredMerge(base, ours, theirs) ==
    CASE base = <<>>                      -> None
      [] base # <<>> /\ ours = theirs     -> ours
      [] base # <<>> /\ ours # theirs /\ ours = base   -> theirs
      [] base # <<>> /\ ours # theirs /\ ours # base /\ theirs = base -> ours
      [] OTHER                            -> None

OneSync == [s \in Syncs |-> [a |-> "A", b |-> "B"]]
EvenCaps == [site \in Sites |-> 3]
MixedCaps == [site \in Sites |-> IF site = "A" THEN 1 ELSE 3]

IsSubsequence(s, t) ==
    \E picked \in SUBSET (DOMAIN t) :
        LET at == SetToSortSeq(picked, <) IN s = [i \in DOMAIN at |-> t[at[i]]]

KeepsLines(old, new) ==
    IsLive(old) /\ IsLive(new)
    => \/ IsSubsequence(old.body, new.body)
       \/ \E t \in new.ancestors : /\ t.hash = TombstoneHash
                                  /\ t.counter > old.revision.counter

(***************************************************************************)
(* The other instances                                                     *)
(***************************************************************************)

VARIABLES part,                                    \* the instance that moves
          stores2, run2, touched2, disturbances2,  \* of "opposed" and "kinds"
          commits, origin, head, index, work, busy, conflicts, published, purged, writes,
          crashes                                  \* of "git"

Two == {"s1", "s2"}
Opposed == [s \in Two |-> IF s = "s1" THEN [a |-> "A", b |-> "B"] ELSE [a |-> "B", b |-> "A"]]

O == INSTANCE Sync WITH
        Syncs <- Two, Side <- Opposed, Rerun <- FALSE, MaxDisturbances <- 2,
        stores <- stores2, run <- run2, touched <- touched2, disturbances <- disturbances2

K == INSTANCE Sync WITH
        Syncs <- Two, Side <- Opposed, Rerun <- FALSE, MaxDisturbances <- 2,
        Kinds <- {"MemoryTier", "Checkpoint", "GraphManifest"}, EditsOf <- MCReplaces,
        Caps <- MixedCaps, HasAncestry <- TRUE,
        stores <- stores2, run <- run2, touched <- touched2, disturbances <- disturbances2

MCMergeOf(class, base, local, remote) ==
    IF class = "AppendOnly" THEN MCAppendOnlyMerge(local, remote) ELSE None

G == INSTANCE GitStore WITH
        Clones <- Sites, Kinds <- {"Topic", "Checkpoint"}, NewBodies <- MCFresh,
        MergeOf <- MCMergeOf, Cap <- 4, CrashPoints <- {"stage", "commit", "merge_commit"},
        MaxWrites <- 3, MaxCommits <- 7, MaxCrashes <- 1

vars2 == <<stores2, run2, touched2, disturbances2>>
gitVars == <<commits, origin, head, index, work, busy, conflicts, published, purged, writes,
             crashes>>

MCInit == Init /\ O!Init /\ G!Init /\ part \in {"append", "opposed", "kinds", "git"}

MCNext == /\ UNCHANGED part
          /\ \/ part = "append"  /\ Next   /\ UNCHANGED <<vars2, gitVars>>
             \/ part = "opposed" /\ O!Next /\ UNCHANGED <<vars, gitVars>>
             \/ part = "kinds"   /\ K!Next /\ UNCHANGED <<vars, gitVars>>
             \/ part = "git"     /\ G!Next /\ UNCHANGED <<vars, vars2>>

MCVars == <<vars, part, vars2, gitVars>>

\* Fairness is that of FairSpec, of the first instance and of the clones.
MCSpec == /\ MCInit
          /\ [][MCNext]_MCVars
          /\ part = "append" => \A s \in Syncs : WF_vars(SyncNext(s))
          /\ part = "git" => G!Fairness

\* Two syncs in opposite directions are as sound as one that is run again: each appends
\* its second side's lines to its first's, and the other kinds are merged by structure,
\* by tier or not at all, between stores whose chains differ in length (build_merged,
\* sync_pass).
OpposedSyncsAreSound == K!SyncIsSound

\* A site that shows an append-only record never loses a line of it by the
\* fast-forwards, merges and races of one sync or of two opposed ones: only a delete the
\* new record knows of takes lines away (append_only_merge, sync_pass).
LinesKept ==
    [][\A site \in Sites, k \in Keys :
          /\ KeepsLines(stores[site][k], stores'[site][k])
          /\ part = "opposed" => KeepsLines(stores2[site][k], stores2'[site][k])]_MCVars

\* No commit silently drops what a parent of it holds: whatever replaces a record,
\* on either side of a merge, after crashes of any clone, knows of it, unless the
\* pull reported the key ("pull never silently drops a concurrent remote edit"); and a
\* push that reported success is on the remote branch for good (git_push).
GitKeepsRecords == G!KeepsRecords

\* Once writers stop, the replicas agree: the two stores of a sync that is run again, and
\* the clones that have no conflict for their callers to resolve.
ReplicasConverge == EventuallyAgrees /\ G!EventuallyShared
=============================================================================
