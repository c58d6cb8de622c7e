------------------------------ MODULE GitStore ------------------------------
(***************************************************************************)
(* The git substrate (gonzalo-store-git): clones of one repository, each a  *)
(* worktree that readers see, an index, and a branch; every write replaces  *)
(* a worktree file, stages it and commits the whole index.  pull            *)
(* fast-forwards, or merges record by record into a two-parent commit; push *)
(* succeeds only as a fast-forward of the remote branch.                    *)
(*                                                                         *)
(* Writes and pulls of a clone hold its repository lock throughout, so only *)
(* its readers, its pushes, other clones and a crash come between their     *)
(* steps.  Callers do not push with unresolved conflicts, as ADR 0021 asks. *)
(***************************************************************************)
EXTENDS Records, Sequences

CONSTANTS Keys, Clones,
          Kinds,             \* the kinds local writers create
          NewBodies,         \* the bodies they write
          MergeOf(_, _, _, _), \* merge(): class, base, local, remote -> body or None
          Cap,               \* the ancestor cap
          CrashPoints,       \* where a process may die
          MaxWrites,         \* bound: local writes
          MaxCommits,        \* bound: commits
          MaxCrashes         \* bound: crashes

VARIABLES commits,    \* the commits made: tree, parents, all it descends from,
                      \* and the keys the pull that made it reported
          origin,     \* the remote branch
          head,       \* clone -> its branch
          index,      \* clone -> its index, a tree
          work,       \* clone -> its worktree, a tree
          busy,       \* clone -> the operation that holds the repository lock
          conflicts,  \* clone -> the keys its pulls reported as conflicts
          published,  \* clone -> the commits its pushes reported as accepted
          purged,     \* history: the revisions purged, each with its chain
          writes, crashes

vars == <<commits, origin, head, index, work, busy, conflicts, published, purged, writes, crashes>>

Empty == [k \in Keys |-> None]
Tree(id) == commits[id].tree
History(id) == commits[id].history
Free == [pc |-> "free", key |-> None, remote |-> 0, reported |-> {}]

\* Every clone starts at the first commit of the remote.
Init == /\ commits = <<[tree |-> Empty, parents |-> {}, history |-> {1}, reported |-> {}]>>
        /\ origin = 1
        /\ head = [c \in Clones |-> 1]
        /\ index = [c \in Clones |-> Empty]
        /\ work = [c \in Clones |-> Empty]
        /\ busy = [c \in Clones |-> Free]
        /\ conflicts = [c \in Clones |-> {}]
        /\ published = [c \in Clones |-> {1}]
        /\ purged = {}
        /\ writes = 0 /\ crashes = 0

\* repo.commit: a new commit of tree on top of parents, which the branch names.
CommitTree(c, tree, parents) ==
    LET id == Len(commits) + 1 IN
    /\ id <= MaxCommits
    /\ commits' = Append(commits, [tree |-> tree, parents |-> parents,
                                   history |-> {id} \cup UNION {History(p) : p \in parents},
                                   reported |-> busy[c].reported])
    /\ head' = [head EXCEPT ![c] = id]
    /\ busy' = [busy EXCEPT ![c] = Free]

(***************************************************************************)
(* Local writes                                                            *)
(***************************************************************************)

\* put, delete_as and purge of a caller that knows what is stored.
PlanLocal(op, slot, kind, body) ==
    CASE op = "create" -> PlanPut(slot, CreateRecord(kind, body), None, Cap)
      [] op = "edit"   -> PlanPut(slot, UpdateRecord(slot, body), slot.revision, Cap)
      [] op = "delete" -> PlanDelete(slot, None, 0, Cap)
      [] op = "purge"  -> PlanPurge(slot, slot.revision)

Possible(op, slot) == /\ op = "edit"  => IsLive(slot)
                      /\ op = "purge" => slot # None /\ IsTombstone(slot)

\* write_atomic or remove_file: readers of the worktree see the old file or the new.
WriteAtomic(c, k, plan) == work' = [work EXCEPT ![c][k] = Apply(@, plan)]

\* Lock, read, plan, and replace or remove the worktree file.
WriteWork(c, k, op, kind, body) ==
    LET plan == PlanLocal(op, work[c][k], kind, body) IN
    /\ busy[c] = Free
    /\ writes < MaxWrites
    /\ Possible(op, work[c][k])
    /\ plan.outcome \in {"Write", "Remove"}
    /\ WriteAtomic(c, k, plan)
    /\ busy' = [busy EXCEPT ![c] = [Free EXCEPT !.pc = "stage", !.key = k]]
    /\ writes' = writes + 1
    /\ purged' = IF plan.outcome = "Remove" THEN purged \cup Lineage(work[c][k]) ELSE purged
    /\ UNCHANGED <<commits, origin, head, index, conflicts, published, crashes>>

\* index.add_path or remove_path, and index.write.
Stage(c) ==
    /\ busy[c].pc = "stage"
    /\ index' = [index EXCEPT ![c][busy[c].key] = work[c][busy[c].key]]
    /\ busy' = [busy EXCEPT ![c].pc = "commit"]
    /\ UNCHANGED <<commits, origin, head, work, conflicts, published, purged, writes, crashes>>

\* The commit takes the whole index.
CommitIndex(c) ==
    /\ busy[c].pc = "commit"
    /\ CommitTree(c, index[c], {head[c]})
    /\ UNCHANGED <<origin, index, work, conflicts, published, purged, writes, crashes>>

(***************************************************************************)
(* pull                                                                    *)
(***************************************************************************)

\* What the forced checkout leaves: the target, and a file it does not track.
CheckedOut(target, tracked, old) ==
    [k \in Keys |-> IF target[k] = None /\ tracked[k] = None THEN old[k] ELSE target[k]]

\* The branch moves first; the worktree and the index follow.
FastForward(c) ==
    /\ busy[c] = Free
    /\ origin \notin History(head[c])
    /\ head[c] \in History(origin)
    /\ head' = [head EXCEPT ![c] = origin]
    /\ busy' = [busy EXCEPT ![c].pc = "checkout_head"]
    /\ UNCHANGED <<commits, origin, index, work, conflicts, published, purged, writes, crashes>>

CheckoutHead(c) ==
    /\ busy[c].pc = "checkout_head"
    /\ work' = [work EXCEPT ![c] = CheckedOut(Tree(head[c]), index[c], @)]
    /\ index' = [index EXCEPT ![c] = Tree(head[c])]
    /\ busy' = [busy EXCEPT ![c] = Free]
    /\ UNCHANGED <<commits, origin, head, conflicts, published, purged, writes, crashes>>

\* merge_base: one of the best common ancestors.
MergeBases(a, b) ==
    LET common == History(a) \cap History(b)
    IN  {m \in common : \A n \in common \ {m} : m \notin History(n)}

Take(slot) == [slot |-> slot, conflict |-> FALSE]
KeepAndReport(slot) == [slot |-> slot, conflict |-> TRUE]

\* Mutant: bodies that do not merge keep the local one without a report.
Unreported(base, local, remote) ==
    LET body == MergeOf(MergeClass(local.kind), IF base = None THEN EmptyBody ELSE base.body,
                        local.body, remote.body)
    IN  IF remote.revision \in Lineage(local) THEN Take(local)
        ELSE IF local.revision \in remote.ancestors THEN Take(remote)
        ELSE IF IsTombstone(local) \/ IsTombstone(remote) THEN KeepAndReport(local)
        ELSE Take(IF body = None THEN local ELSE ReconciledRecord(local, remote, body, Cap))

\* Two records of a key that changed on both sides: the chains first, then the
\* tombstones, then the bodies.
BothChanged(base, local, remote) ==
    LET body == MergeOf(MergeClass(local.kind), IF base = None THEN EmptyBody ELSE base.body,
                        local.body, remote.body)
    IN  IF local.revision = remote.revision \/ remote.revision \in local.ancestors THEN Take(local)
        ELSE IF local.revision \in remote.ancestors THEN Take(remote)
        ELSE IF IsTombstone(local) /\ IsTombstone(remote) THEN Take(TombstoneWinner(local, remote, Cap))
        ELSE IF IsTombstone(local) \/ IsTombstone(remote) THEN KeepAndReport(local)
        ELSE IF local.body = remote.body THEN Take(local)
        ELSE IF body = None THEN KeepAndReport(local)
        ELSE Take(ReconciledRecord(local, remote, body, Cap))

\* One path of the merge.  A path only one side changed takes that side, and a
\* record survives the other side's purge.
MergePath(base, local, remote) ==
    IF remote = base THEN Take(local)
    ELSE IF local = base THEN Take(remote)
    ELSE IF remote = None THEN Take(local)
    ELSE IF local = None THEN Take(remote)
    ELSE BothChanged(base, local, remote)

\* merge_non_ff: the merged tree is checked out while the branch still names the
\* local commit, which is what tells the tracked files.
PullMerge(c) ==
    /\ busy[c] = Free
    /\ origin \notin History(head[c])
    /\ head[c] \notin History(origin)
    /\ \E base \in MergeBases(head[c], origin) :
          LET path(k) == MergePath(Tree(base)[k], Tree(head[c])[k], Tree(origin)[k])
              merged  == [k \in Keys |-> path(k).slot]
              clash   == {k \in Keys : path(k).conflict}
          IN  /\ index' = [index EXCEPT ![c] = merged]
              /\ work' = [work EXCEPT ![c] = CheckedOut(merged, Tree(head[c]), @)]
              /\ conflicts' = [conflicts EXCEPT ![c] = @ \cup clash]
              /\ busy' = [busy EXCEPT ![c] = [Free EXCEPT !.pc = "merge_commit", !.remote = origin,
                                                          !.reported = clash]]
    /\ UNCHANGED <<commits, origin, head, published, purged, writes, crashes>>

\* Mutant: the merge is committed on the local commit alone.
MergeUnlinked(c) ==
    /\ busy[c].pc = "merge_commit"
    /\ CommitTree(c, index[c], {head[c]})
    /\ UNCHANGED <<origin, index, work, conflicts, published, purged, writes, crashes>>

MergeCommit(c) ==
    /\ busy[c].pc = "merge_commit"
    /\ CommitTree(c, index[c], {head[c], busy[c].remote})
    /\ UNCHANGED <<origin, index, work, conflicts, published, purged, writes, crashes>>

(***************************************************************************)
(* push, and crashes                                                       *)
(***************************************************************************)

\* The remote refuses all but a fast-forward, and push then reports an error.
\* No lock is taken.
Push(c) ==
    /\ conflicts[c] = {}
    /\ origin \in History(head[c])
    /\ head[c] # origin
    /\ origin' = head[c]
    /\ published' = [published EXCEPT ![c] = @ \cup {head[c]}]
    /\ UNCHANGED <<commits, head, index, work, busy, conflicts, purged, writes, crashes>>

Crash(c) ==
    /\ busy[c].pc \in CrashPoints
    /\ crashes < MaxCrashes
    /\ crashes' = crashes + 1
    /\ busy' = [busy EXCEPT ![c] = Free]
    /\ UNCHANGED <<commits, origin, head, index, work, conflicts, published, purged, writes>>

(***************************************************************************)
(* Specification                                                           *)
(***************************************************************************)

PullNext(c) == FastForward(c) \/ CheckoutHead(c) \/ PullMerge(c) \/ MergeCommit(c)

WriteNext(c) == \/ \E k \in Keys, op \in {"create", "edit", "delete", "purge"},
                      kind \in Kinds, body \in NewBodies : WriteWork(c, k, op, kind, body)
                \/ Stage(c)
                \/ CommitIndex(c)

Next == \E c \in Clones : WriteNext(c) \/ PullNext(c) \/ Push(c) \/ Crash(c)

Spec == Init /\ [][Next]_vars

\* A call that has begun returns, and callers go on pulling and pushing.
Fairness == \A c \in Clones : /\ WF_vars(Stage(c) \/ CommitIndex(c) \/ PullNext(c))
                              /\ SF_vars(Push(c))

FairSpec == Spec /\ Fairness

(***************************************************************************)
(* Properties                                                              *)
(***************************************************************************)

\* new takes nothing away from a reader of old: it knows of old, says the same, or
\* old was purged by a caller.
Keeps(old, new) ==
    \/ old = None
    \/ new = old
    \/ old.revision \in purged
    \/ new # None /\ old.revision \in Lineage(new)
    \/ IsLive(old) /\ IsLive(new) /\ new.body = old.body

\* No commit silently drops what a parent of it holds: whatever replaces a record,
\* on either side of a merge, after crashes of any clone, knows of it, unless the
\* pull reported the key ("pull never silently drops a concurrent remote edit").
\* With pushes that only fast-forward, neither does the remote branch.
NoSilentDrop ==
    \A id \in DOMAIN commits : \A p \in commits[id].parents, k \in Keys \ commits[id].reported :
        Keeps(Tree(p)[k], Tree(id)[k])

\* A push that reported success is on the remote branch for good, whoever pushed
\* since (git_push).
PushedIsShared == \A c \in Clones : published[c] \subseteq History(origin)

\* Once writers stop, every clone that has no conflict for its caller to resolve
\* comes to have the remote's records, and its own are there.
EventuallyShared ==
    <>[](\A c \in Clones : conflicts[c] = {} => Tree(head[c]) = Tree(origin))

\* What a clone committed or pushed is not lost behind its back.
KeepsRecords == NoSilentDrop /\ PushedIsShared

(***************************************************************************)
(* The inductive invariant of PushedIsShared: histories are closed, so that  *)
(* a branch that descends from another holds all that one held.              *)
(***************************************************************************)

Operation == [pc : {"free", "stage", "commit", "checkout_head", "merge_commit"},
              key : Keys \cup {None}, remote : Nat, reported : SUBSET Keys]

BranchesNameCommits ==
    /\ commits \in Seq({commits[i] : i \in DOMAIN commits})
    /\ origin \in DOMAIN commits
    /\ head \in [Clones -> DOMAIN commits]
    /\ published \in [Clones -> SUBSET DOMAIN commits]
    /\ busy \in [Clones -> Operation]
    /\ \A c \in Clones : busy[c].pc = "merge_commit" => busy[c].remote \in DOMAIN commits

HistoriesAreClosed ==
    \A i \in DOMAIN commits : /\ i \in History(i)
                              /\ History(i) \subseteq DOMAIN commits
                              /\ \A j \in History(i) : History(j) \subseteq History(i)

GitInv == BranchesNameCommits /\ HistoriesAreClosed /\ PushedIsShared
=============================================================================
