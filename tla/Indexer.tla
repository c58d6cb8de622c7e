------------------------------- MODULE Indexer -------------------------------
(***************************************************************************)
(* Indexing a source tree into a code-graph view: gonzalo index and         *)
(* gonzalo index --watch (gonzalo-cli: lib.rs, walk.rs, watch.rs), the git  *)
(* diff behind the incremental driver (gonzalo-store-git: diff.rs) and the  *)
(* daemon's reading of the view (gonzalo-server: service.rs).               *)
(*                                                                         *)
(* A run keeps four things in four files: the manifest record, the          *)
(* persistent graph, the base commit the next diff starts from and the      *)
(* extraction format the view was built with.  No transaction joins them;   *)
(* users edit and commit while it runs, and it may die between any two.     *)
(*                                                                         *)
(* A file's slice is its content and the extraction version that parsed it; *)
(* a commit is the tree it records.                                         *)
(***************************************************************************)
EXTENDS Integers, FiniteSets

CONSTANTS None,
          Paths, Contents,
          Versions,      \* the extraction versions a parse path may have
          Clis,          \* one-off index runs, beside the watcher's
          Habits,        \* what the surroundings do: see the actions they guard
          MaxEdits,      \* bound: changes to the tree, its commits, the rules
          MaxFaults      \* bound: runs cut off, files skipped, notifications lost

VARIABLES tree, head,    \* the working tree and HEAD: path -> content
          admits,        \* the paths IndexFilter admits
          worker,        \* the version of the parse path
          manifest,      \* the view's record: None, or path -> slice
          graph,         \* the persistent graph: None, or path -> slice
          base, fmt,     \* the recorded commit and extraction version
          run,           \* run -> where it is and what it holds
          events,        \* whether the watcher's channel holds notifications
          debounce,      \* the debouncer: nothing pending, pending, quiet for a window
          settled,       \* history: a run finished and nothing changed since it began
          skipped,       \* history: paths whose last parse failed
          edits, faults

source == <<tree, head, admits, worker>>
vars == <<source, manifest, graph, base, fmt, run, events, debounce, settled, skipped,
          edits, faults>>

Runs == Clis \cup {"watch"}
NoFiles == [p \in Paths |-> None]
Idle == [pc |-> "idle"]
Entries == IF manifest = None THEN NoFiles ELSE manifest

Init == /\ tree = [p \in Paths |-> CHOOSE c \in Contents : TRUE] /\ head = tree
        /\ admits = Paths
        /\ worker = CHOOSE v \in Versions : \A w \in Versions : v <= w
        /\ manifest = None /\ graph = None /\ base = None /\ fmt = None
        /\ run = [r \in Runs |-> IF r = "watch" THEN [pc |-> "load"] ELSE Idle]
        /\ events = FALSE /\ debounce = "none"
        /\ settled = FALSE /\ skipped = {}
        /\ edits = 0 /\ faults = 0

(***************************************************************************)
(* One index run                                                           *)
(***************************************************************************)

Beyond == {"apply", "base", "fmt"}     \* past the manifest's commit

\* The worker is asked its version, the database opened and the manifest loaded.
Load(r) ==
    /\ run[r].pc = "load"
    /\ "overlap" \in Habits \/ \A other \in Runs : run[other].pc \notin Beyond
    /\ graph' = IF graph = None THEN NoFiles ELSE graph
    /\ run' = [run EXCEPT ![r] = 
          [pc |-> "choose", version |-> worker, existing |-> Entries, behind |-> FALSE,
           skips |-> {}, still |-> TRUE]]
    /\ UNCHANGED <<source, manifest, base, fmt, events, debounce, settled, skipped, edits, faults>>

\* changed_paths: a recorded commit against the working tree.
Changed(from) == {p \in Paths : from[p] # tree[p]}

\* build_desired_full: every admitted file, onto nothing.
Full(me) ==
    [pc |-> "parse", version |-> me.version, existing |-> me.existing, behind |-> me.behind,
     skips |-> {}, incremental |-> FALSE,
     desired |-> NoFiles, inserts |-> NoFiles, removes |-> {},
     todo |-> {p \in admits : tree[p] # None}, still |-> me.still]

\* build_desired_incremental: the manifest loaded, without what the rules no longer
\* admit and what git reports deleted; the other changed files are parsed anew.
Incremental(me) ==
    LET entries == me.existing
        dropped == {p \in Paths : entries[p] # None
                                  /\ (p \notin admits \/ (p \in Changed(base) /\ tree[p] = None))}
    IN  [pc |-> "parse", version |-> me.version, existing |-> me.existing, behind |-> me.behind,
     skips |-> {}, incremental |-> TRUE,
         desired |-> [p \in Paths |-> IF p \in dropped THEN None ELSE entries[p]],
         inserts |-> NoFiles, removes |-> dropped,
         todo |-> {p \in Changed(base) \cap admits : tree[p] # None}, still |-> me.still]

\* Incremental when a base was recorded by this extraction version, else a full walk.
Choose(r) ==
    LET me == run[r] IN
    /\ me.pc = "choose"
    /\ run' = [run EXCEPT ![r] = IF base # None /\ fmt = me.version
                                 THEN Incremental(me) ELSE Full(me)]
    /\ UNCHANGED <<source, manifest, graph, base, fmt, events, debounce, settled, skipped,
                   edits, faults>>

\* One file is read and parsed and its slice uploaded.  A file gone since the diff is a
\* removal; gone since the walk, it fails the run.
Parse(r) ==
    LET me == run[r]
        p  == CHOOSE q \in me.todo : TRUE
    IN  /\ me.pc = "parse" /\ me.todo # {}
        /\ run' = [run EXCEPT ![r] =
              IF tree[p] # None
              THEN [me EXCEPT !.todo = @ \ {p}, !.desired[p] = <<tree[p], worker>>,
                              !.inserts[p] = <<tree[p], worker>>]
              ELSE IF me.incremental
              THEN [me EXCEPT !.todo = @ \ {p}, !.desired[p] = None,
                              !.removes = @ \cup (IF me.desired[p] # None THEN {p} ELSE {})]
              ELSE Idle]
        /\ UNCHANGED <<source, manifest, graph, base, fmt, events, debounce, settled, skipped,
                       edits, faults>>

\* parse_file: the worker crashed or hung, and the file is left as desired has it.
Skip(r) ==
    LET me == run[r]
        p  == CHOOSE q \in me.todo : TRUE
    IN  /\ me.pc = "parse" /\ me.todo # {} /\ tree[p] # None
        /\ faults < MaxFaults
        /\ faults' = faults + 1
        /\ run' = [run EXCEPT ![r].todo = @ \ {p}, ![r].skips = @ \cup {p}]
        /\ UNCHANGED <<source, manifest, graph, base, fmt, events, debounce, settled, skipped, edits>>

Reconciled(me) ==
    {p \in Paths : me.existing[p] # None /\ me.desired[p] = None}

\* The manifest's revision moves on, past what the other runs have loaded.
Committed(r) ==
    LET me == run[r] IN
    /\ manifest' = me.desired
    /\ run' = [other \in Runs |->
                  IF other = r
                  THEN [me EXCEPT !.pc = "apply", !.removes = @ \cup Reconciled(me)]
                  ELSE IF run[other].pc \in {"choose", "parse"}
                  THEN [run[other] EXCEPT !.behind = TRUE]
                  ELSE run[other]]
    /\ skipped' = me.skips \cup {p \in skipped : me.incremental /\ me.inserts[p] = None}
    /\ settled' = FALSE

\* Mutant: the manifest is written over whatever is there.
CommitAnyway(r) ==
    /\ run[r].pc = "parse" /\ run[r].todo = {}
    /\ Committed(r)
    /\ UNCHANGED <<source, graph, base, fmt, events, debounce, edits, faults>>

\* The manifest record, under optimistic concurrency; a conflict abandons the run.
Commit(r) ==
    /\ run[r].pc = "parse" /\ run[r].todo = {}
    /\ \/ ~run[r].behind /\ Committed(r)
       \/ /\ run[r].behind
          /\ run' = [run EXCEPT ![r] = Idle]
          /\ UNCHANGED <<manifest, skipped, settled>>
    /\ UNCHANGED <<source, graph, base, fmt, events, debounce, edits, faults>>

\* GraphStaging::apply: one path at a time, the inserts first.
Apply(r) ==
    LET me    == run[r]
        fresh == {p \in Paths : me.inserts[p] # None}
        p     == CHOOSE q \in (IF fresh # {} THEN fresh ELSE me.removes) : TRUE
    IN  /\ me.pc = "apply"
        /\ \/ /\ fresh \cup me.removes # {}
              /\ graph' = [graph EXCEPT ![p] = IF fresh # {} THEN me.inserts[p] ELSE None]
              /\ run' = [run EXCEPT ![r] = IF fresh # {} THEN [me EXCEPT !.inserts[p] = None]
                                           ELSE [me EXCEPT !.removes = @ \ {p}]]
           \/ /\ fresh \cup me.removes = {}
              /\ run' = [run EXCEPT ![r].pc = "base"]
              /\ UNCHANGED graph
        /\ UNCHANGED <<source, manifest, base, fmt, events, debounce, settled, skipped, edits, faults>>

\* HEAD, as it is now, is what the next diff starts from.
RecordBase(r) ==
    /\ run[r].pc = "base"
    /\ base' = head
    /\ run' = [run EXCEPT ![r].pc = "fmt"]
    /\ UNCHANGED <<source, manifest, graph, fmt, events, debounce, settled, skipped, edits, faults>>

\* The version that parsed the view, and the run is done.
RecordFormat(r) ==
    /\ run[r].pc = "fmt"
    /\ fmt' = run[r].version
    /\ settled' = run[r].still
    /\ run' = [run EXCEPT ![r] = Idle]
    /\ UNCHANGED <<source, manifest, graph, base, events, debounce, skipped, edits, faults>>

\* An error or a crash: whatever is on disk stays.
Die(r) ==
    /\ run[r].pc \notin {"idle", "load"}
    /\ faults < MaxFaults
    /\ faults' = faults + 1
    /\ run' = [run EXCEPT ![r] = Idle]
    /\ UNCHANGED <<source, manifest, graph, base, fmt, events, debounce, settled, skipped, edits>>

Cli(r) ==
    /\ r # "watch" /\ run[r].pc = "idle"
    /\ edits < MaxEdits
    /\ edits' = edits + 1
    /\ run' = [run EXCEPT ![r] = [pc |-> "load"]]
    /\ UNCHANGED <<source, manifest, graph, base, fmt, events, debounce, settled, skipped, faults>>

(***************************************************************************)
(* The watch loop                                                          *)
(***************************************************************************)

Waiting == run["watch"].pc = "idle"

\* rx.recv and Debouncer::on_event
Notice ==
    /\ Waiting /\ events
    /\ events' = FALSE /\ debounce' = "pending"
    /\ UNCHANGED <<source, manifest, graph, base, fmt, run, settled, skipped, edits, faults>>

\* The window passes with nothing new: Debouncer::is_due.
Quiet ==
    /\ debounce = "pending"
    /\ debounce' = "due"
    /\ UNCHANGED <<source, manifest, graph, base, fmt, run, events, settled, skipped, edits, faults>>

\* Mutant: a tick with no change pending does nothing.
ReindexPending ==
    /\ Waiting
    /\ debounce' = "none"
    /\ run' = IF debounce = "none" THEN run ELSE [run EXCEPT !["watch"] = [pc |-> "load"]]
    /\ UNCHANGED <<source, manifest, graph, base, fmt, events, settled, skipped, edits, faults>>

\* The debouncer is cleared and a run started; what changes meanwhile stays in the channel.
Reindex ==
    /\ Waiting
    /\ debounce' = "none"
    /\ run' = [run EXCEPT !["watch"] = [pc |-> "load"]]
    /\ UNCHANGED <<source, manifest, graph, base, fmt, events, settled, skipped, edits, faults>>

DebounceTick == debounce = "due" /\ Reindex
ReconcileTick == "reconcile" \in Habits /\ Reindex

(***************************************************************************)
(* The surroundings                                                        *)
(***************************************************************************)

\* A run in flight that has read, or may yet read, what changes now.
Disturb == run' = [r \in Runs |-> IF run[r].pc \in {"choose", "parse"} \cup Beyond
                                  THEN [run[r] EXCEPT !.still = FALSE] ELSE run[r]]

Change ==
    /\ edits < MaxEdits
    /\ edits' = edits + 1
    /\ settled' = FALSE
    /\ Disturb
    /\ UNCHANGED <<manifest, graph, base, fmt, debounce, skipped>>

\* A path is written, created or removed.  Unless reverts are among the habits, never
\* back to what HEAD or the recorded base commit holds.
Edit(p, c) ==
    /\ c # tree[p]
    /\ IF "revert" \in Habits THEN TRUE
       ELSE c # head[p] /\ (IF base = None THEN TRUE ELSE c # base[p])
    /\ tree' = [tree EXCEPT ![p] = c]
    /\ Change
    /\ \/ events' = TRUE /\ UNCHANGED faults
       \/ faults < MaxFaults /\ faults' = faults + 1 /\ UNCHANGED events
    /\ UNCHANGED <<head, admits, worker>>

\* No run is under way.
Between == \A r \in Runs : run[r].pc \in {"idle", "load"}

\* git commit -a; with the habit of committing under a run, at any time.
CommitTree ==
    /\ head # tree
    /\ "commit" \in Habits \/ Between
    /\ head' = tree
    /\ Change
    /\ UNCHANGED <<tree, admits, worker, events, faults>>

\* A newer parse worker is installed, between runs.
Upgrade ==
    /\ Between
    /\ worker' \in {v \in Versions : v > worker}
    /\ Change
    /\ UNCHANGED <<tree, head, admits, events, faults>>

\* The rules tighten.
Tighten(p) ==
    /\ p \in admits
    /\ admits' = admits \ {p}
    /\ Change
    /\ UNCHANGED <<tree, head, worker, events, faults>>

Next ==
    \/ \E r \in Runs : \/ Load(r) \/ Choose(r) \/ Parse(r) \/ Skip(r) \/ Commit(r) \/ Apply(r)
                       \/ RecordBase(r) \/ RecordFormat(r) \/ Die(r) \/ Cli(r)
    \/ Notice \/ Quiet \/ DebounceTick \/ ReconcileTick
    \/ \E p \in Paths : (\E c \in Contents \cup {None} : Edit(p, c)) \/ Tighten(p)
    \/ CommitTree \/ Upgrade

Spec == Init /\ [][Next]_vars

GoOn(r) == \/ Load(r) \/ Choose(r) \/ Parse(r) \/ Commit(r)
           \/ Apply(r) \/ RecordBase(r) \/ RecordFormat(r)

\* A run goes on, the watcher polls its channel and both its timers fire.
FairSpec == /\ Spec
            /\ \A r \in Runs : WF_vars(GoOn(r))
            /\ WF_vars(Notice) /\ WF_vars(Quiet) /\ SF_vars(DebounceTick) /\ SF_vars(ReconcileTick)

(***************************************************************************)
(* Properties                                                              *)
(***************************************************************************)

\* Service::view: the persistent graph where there is one, else the manifest's slices.
Served == IF graph # None THEN graph ELSE Entries

Wanted == [p \in Paths |-> IF p \in admits /\ tree[p] # None THEN <<tree[p], worker>> ELSE None]

\* "A full walk always converges the view even if an incremental run ever missed a
\* change": once a run has finished and nothing changed since it began, the manifest is
\* the tree and every file of it is served as parsed, whichever driver ran, whatever
\* runs died before it and wherever they did.
SettledView ==
    settled => \A p \in Paths \ skipped :
                  Entries[p] = Wanted[p] /\ (Wanted[p] # None => Served[p] = Wanted[p])

\* "Lets a caller detect a stale view by comparing against the checkout's HEAD": a view
\* whose recorded base is HEAD, and the tree clean, holds what HEAD holds
\* (recorded_base).
BaseIsHonest ==
    tree = head /\ base = head /\ fmt = worker /\ (\A r \in Runs : run[r].pc \notin Beyond)
    => \A p \in admits \ skipped :
          Entries[p] = Wanted[p] /\ (Wanted[p] # None => Served[p] = Wanted[p])

Current == \A p \in Paths \ skipped : Entries[p] = Wanted[p]

\* A view is what it claims to be: the tree of its last quiet run, under the base and
\* the format it records.
ViewIsHonest == SettledView /\ BaseIsHonest
=============================================================================
