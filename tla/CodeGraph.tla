------------------------------ MODULE CodeGraph ------------------------------
(***************************************************************************)
(* The queries of the code graph (gonzalo-graph: store.rs, resolve.rs,      *)
(* diff.rs, assembly.rs) and its two backends: slices assembled in memory    *)
(* from a manifest, and the tables of gonzalo-graph-sqlite that an index run *)
(* keeps up to date one path at a time.                                     *)
(*                                                                         *)
(* A path is [dirs, name, stem]: its directories, the file's name and that   *)
(* name without its extension.  A view is what the queries see: the located  *)
(* symbols and references, and each path's imports in order.                *)
(***************************************************************************)
EXTENDS Integers, Sequences, FiniteSets, FiniteSetsExt, SequencesExt, Functions

CONSTANTS None,
          Paths,          \* the files of the view
          Slices,         \* the slices a file may have: what Extract's Build returns
          Fold,           \* segment -> the segment with `-' read as `_'
          MaxDepth,       \* the largest depth a walk is bounded by
          MaxChanges      \* bound: changes of the manifest

VARIABLES manifest,       \* path -> None or the slice of the file
          tables,         \* the rows of symbols, refs and imports
          pending,        \* the paths the run has yet to bring to the tables
          dropping,       \* None or [path, left]: a removal under way, statement by statement
          changes

vars == <<manifest, tables, pending, dropping, changes>>

Located(p, item) == [path |-> p, item |-> item]
AllNames(v) == {l.item.name : l \in v.symbols \cup v.references}

(***************************************************************************)
(* The two backends                                                        *)
(***************************************************************************)

\* assemble, and the in-memory store over it.
Assembled ==
    LET held == {p \in Paths : manifest[p] # None}
    IN  [symbols    |-> UNION {{Located(p, s) : s \in manifest[p].symbols} : p \in held},
         references |-> UNION {{Located(p, r) : r \in manifest[p].references} : p \in held},
         imports    |-> [p \in Paths |-> IF p \in held THEN manifest[p].imports ELSE <<>>]]

\* The tables, as the queries return them: the imports of a path ordered by line.
Stored ==
    [symbols    |-> tables.symbols,
     references |-> tables.refs,
     imports    |-> [p \in Paths |->
                        LET rows == {l.item : l \in {i \in tables.imports : i.path = p}}
                        IN  SetToSortSeq(rows, LAMBDA a, b : a.line < b.line)]]

Empty == [symbols |-> {}, refs |-> {}, imports |-> {}]
Without(rows, p) == {l \in rows : l.path # p}

\* Mutant: the third table is forgotten when a path is replaced.
InsertedOver(p, g) ==
    [symbols |-> Without(tables.symbols, p) \cup {Located(p, s) : s \in g.symbols},
     refs    |-> Without(tables.refs, p) \cup {Located(p, r) : r \in g.references},
     imports |-> tables.imports \cup {Located(p, i) : i \in ToSet(g.imports)}]

Inserted(p, g) ==
    [symbols |-> Without(tables.symbols, p) \cup {Located(p, s) : s \in g.symbols},
     refs    |-> Without(tables.refs, p) \cup {Located(p, r) : r \in g.references},
     imports |-> Without(tables.imports, p) \cup {Located(p, i) : i \in ToSet(g.imports)}]

(***************************************************************************)
(* Paths and modules                                                       *)
(***************************************************************************)

SameSegment(a, b) == Fold[a] = Fold[b]
SameSegments(s, t) == Len(s) = Len(t) /\ \A i \in 1 .. Len(s) : SameSegment(s[i], t[i])

EntryFiles == {"mod", "lib", "main", "__init__", "index"}

\* An entry file stands for its container, and a `src' directory for nothing.
ModuleOf(p) == SelectSeq(p.dirs, LAMBDA d : d # "src")
                   \o (IF p.stem \in EntryFiles THEN <<>> ELSE <<p.stem>>)

PathEndsWithModule(p, module) ==
    LET own == ModuleOf(p) IN
    /\ Len(own) >= Len(module)
    /\ SameSegments(SubSeq(own, Len(own) - Len(module) + 1, Len(own)), module)

\* A relative import is anchored at its file's package, one level up per further dot.
RelativeAnchor(p, depth, module) ==
    IF depth - 1 > Len(p.dirs) THEN None
    ELSE [at |-> SubSeq(p.dirs, 1, Len(p.dirs) - (depth - 1)) \o module]

PathUnder(p, anchor) ==
    LET own == p.dirs \o (IF p.stem = "__init__" THEN <<>> ELSE <<p.stem>>)
    IN  Len(own) >= Len(anchor) /\ SameSegments(SubSeq(own, 1, Len(anchor)), anchor)

\* How far two paths run together.
Shared(p, q) ==
    LET a == Append(p.dirs, p.name)
        b == Append(q.dirs, q.name)
        m == Min({Len(a), Len(b)})
    IN  Max({k \in 0 .. m : SameSegments(SubSeq(a, 1, k), SubSeq(b, 1, k))})

NearestTo(candidates, from) ==
    LET best == Max({Shared(p, from) : p \in candidates})
        winners == {p \in candidates : Shared(p, from) = best}
    IN  IF best = 0 \/ Cardinality(winners) # 1 THEN None ELSE CHOOSE p \in winners : TRUE

OnlyOrNearest(matched, from) ==
    CASE matched = {} -> None
      [] Cardinality(matched) = 1 -> CHOOSE p \in matched : TRUE
      [] OTHER -> NearestTo(matched, from)

(***************************************************************************)
(* Resolution                                                              *)
(***************************************************************************)

Definitions(v, name) == {l \in v.symbols : l.item.name = name}
ReferencesTo(v, name) == {l \in v.references : l.item.name = name}
PathsOf(located) == {l.path : l \in located}

IncludedTarget(imports, from, candidates) ==
    LET included == {i \in ToSet(imports) : i.name = None /\ i.path # <<>>}
    IN  OnlyOrNearest({p \in candidates : \E i \in included : PathEndsWithModule(p, i.path)}, from)

\* The first import of the name decides; without one, the files included.
ImportedTarget(imports, name, from, candidates) ==
    LET named == {i \in 1 .. Len(imports) : imports[i].name = name} IN
    IF named = {} THEN IncludedTarget(imports, from, candidates)
    ELSE LET import == imports[Min(named)]
             anchor == RelativeAnchor(from, import.depth, import.path)
         IN  CASE import.depth > 0 /\ anchor = None -> None
               [] import.depth > 0 /\ anchor # None ->
                    OnlyOrNearest({p \in candidates : PathUnder(p, anchor.at)}, from)
               [] import.depth = 0 /\ import.path = <<>> -> None
               [] OTHER -> OnlyOrNearest({p \in candidates : PathEndsWithModule(p, import.path)}, from)

Answer(target, resolution) == [target |-> target, resolution |-> resolution]

\* resolve_references_to, for one reference.
Resolve(v, l) ==
    LET name == l.item.name
        defs == PathsOf(Definitions(v, name))
        qualified == IF l.item.qualifier = None THEN {}
                     ELSE PathsOf({d \in Definitions(v, name) : d.item.owner = l.item.qualifier})
        imported == ImportedTarget(v.imports[l.path], name, l.path, defs)
    IN  CASE Cardinality(qualified) = 1 -> Answer(CHOOSE p \in qualified : TRUE, "qualified")
          [] Cardinality(qualified) > 1 -> Answer(None, "ambiguous")
          [] qualified = {} /\ l.path \in defs -> Answer(l.path, "local")
          [] qualified = {} /\ defs = {} -> Answer(None, "unresolved")
          [] OTHER ->
             CASE l.item.kind = "method" -> Answer(None, "receiver_unknown")
               [] l.item.kind # "method" /\ Cardinality(defs) = 1 ->
                    Answer(CHOOSE p \in defs : TRUE, "unique_global")
               [] l.item.kind # "method" /\ Cardinality(defs) > 1 /\ imported # None ->
                    Answer(imported, "imported")
               [] OTHER -> Answer(None, "ambiguous")

(***************************************************************************)
(* Walks                                                                   *)
(***************************************************************************)

Node(name, path) == [name |-> name, path |-> path]

CallersOf(v, name) ==
    {l.item.from : l \in {r \in ReferencesTo(v, name) : r.item.kind # "value" /\ r.item.from # None}}
Callees(v, name) ==
    {l.item.name : l \in {r \in v.references : r.item.from = name /\ r.item.kind # "value"}}

\* GraphStore::impact: callers of callers, by name; the queue drained level by level.
Impact(v, name) ==
    LET names == AllNames(v)
        visited[d \in 0 .. Cardinality(v.references)] ==
            IF d = 0 THEN {name} \cup CallersOf(v, name)
            ELSE visited[d - 1] \cup UNION {CallersOf(v, n) : n \in visited[d - 1]}
    IN  visited[Cardinality(v.references)] \ {name}

\* The edges of resolved_impact into a node: the references whose answer is its path.
CallEdges(v, n) ==
    {l \in ReferencesTo(v, n.name) : l.item.kind # "value" /\ Resolve(v, l).target = n.path}

\* Mutant: a method call on an unknown receiver is dropped without being counted.
DroppedSilently(v, n) ==
    {l \in ReferencesTo(v, n.name) :
        l.item.kind = "value" \/ Resolve(v, l).resolution = "ambiguous"}

\* The edges counted instead of followed: names passed as values, calls that several
\* definitions or none in particular may be meant by.
Dropped(v, n) ==
    {l \in ReferencesTo(v, n.name) :
        l.item.kind = "value" \/ Resolve(v, l).resolution \in {"ambiguous", "receiver_unknown"}}

CallerNodes(v, n) ==
    {Node(l.item.from, l.path) : l \in {e \in CallEdges(v, n) : e.item.from # None}}

\* resolved_impact, bounded by max levels (None: none).  A level's frontier is what the
\* level before reached for the first time; the counters tell whether an edge was dropped.
ResolvedImpact(v, name, max) ==
    LET seeds == {Node(name, p) : p \in PathsOf(Definitions(v, name))}
        bound == Cardinality(v.references) + 1
        level[d \in 0 .. bound] ==
            IF d = 0 THEN [visited |-> seeds, frontier |-> seeds, dropped |-> {}]
            ELSE LET last == level[d - 1]
                     reached == UNION {CallerNodes(v, n) : n \in last.frontier}
                 IN  [visited  |-> last.visited \cup reached,
                      frontier |-> reached \ last.visited,
                      dropped  |-> last.dropped \cup UNION {Dropped(v, n) : n \in last.frontier}]
        depth == IF max = None THEN bound ELSE Min({max, bound})
    IN  [reached   |-> level[depth].visited \ seeds,
         dropped   |-> level[depth].dropped # {},
         truncated |-> level[depth].frontier # {}]

(***************************************************************************)
(* Rankings, candidates for removal, differences                           *)
(***************************************************************************)

UnreferencedIn(v) == {l \in v.symbols : ~\E r \in v.references : r.item.name = l.item.name}

InTestScope(v, l) ==
    \/ "tests" \in ToSet(l.path.dirs)
    \/ \E m \in v.symbols : /\ m.item.kind = "module" /\ m.item.name \in {"tests", "test"}
                            /\ m.path = l.path
                            /\ l.item.start >= m.item.start /\ l.item.end <= m.item.end

Unreferenced(v, excludeTests) ==
    {l \in UnreferencedIn(v) : ~excludeTests \/ ~InTestScope(v, l)}

CallRefs(v) == {l \in v.references : l.item.kind # "value"}

Top(v) ==
    [definitions |-> [n \in {l.item.name : l \in v.symbols} |-> Cardinality(PathsOf(Definitions(v, n)))],
     fanIn  |-> [n \in {l.item.name : l \in CallRefs(v)} |->
                    Cardinality({l \in CallRefs(v) : l.item.name = n})],
     fanOut |-> [n \in {l.item.from : l \in CallRefs(v)} \ {None} |->
                    Cardinality({l.item.name : l \in {r \in CallRefs(v) : r.item.from = n}})]]

Overview(v) ==
    [files      |-> Cardinality(PathsOf(v.symbols \cup v.references)),
     symbols    |-> Cardinality(v.symbols),
     references |-> Cardinality(v.references),
     byKind     |-> [k \in {l.item.kind : l \in v.symbols} |->
                        Cardinality({l \in v.symbols : l.item.kind = k})],
     largest    |-> [p \in PathsOf(v.symbols) |-> Cardinality({l \in v.symbols : l.path = p})]]

SymbolKey(l) == <<l.path, l.item.name, l.item.kind>>
ReferenceKey(l) == <<l.path, l.item.from, l.item.name>>

Diff(a, b) ==
    LET syms(v) == {SymbolKey(l) : l \in v.symbols}
        refs(v) == {ReferenceKey(l) : l \in v.references}
    IN  [added   |-> <<syms(b) \ syms(a), refs(b) \ refs(a)>>,
         removed |-> <<syms(a) \ syms(b), refs(a) \ refs(b)>>]

(***************************************************************************)
(* The index run                                                           *)
(***************************************************************************)

Init == /\ manifest = [p \in Paths |-> None] /\ tables = Empty
        /\ pending = {} /\ dropping = None /\ changes = 0

Settled == pending = {} /\ dropping = None

\* A run commits a manifest in which one file has another slice, or is gone.
Change ==
    /\ Settled /\ changes < MaxChanges
    /\ \E p \in Paths, s \in Slices \cup {None} :
          /\ manifest[p] # s
          /\ manifest' = [manifest EXCEPT ![p] = s] /\ pending' = {p}
    /\ changes' = changes + 1
    /\ UNCHANGED <<tables, dropping>>

\* SqliteGraphStore::insert is one transaction.
InsertPath(p) ==
    /\ p \in pending /\ manifest[p] # None
    /\ tables' = Inserted(p, manifest[p]) /\ pending' = pending \ {p}
    /\ UNCHANGED <<manifest, dropping, changes>>

\* remove_path is three statements, each on its own.
RemovePath(p) ==
    /\ p \in pending /\ manifest[p] = None /\ dropping = None
    /\ dropping' = [path |-> p, left |-> <<"symbols", "refs", "imports">>]
    /\ pending' = pending \ {p}
    /\ UNCHANGED <<manifest, tables, changes>>

RemoveRows ==
    /\ dropping # None
    /\ tables' = [tables EXCEPT ![Head(dropping.left)] = Without(@, dropping.path)]
    /\ dropping' = IF Len(dropping.left) = 1 THEN None
                   ELSE [dropping EXCEPT !.left = Tail(@)]
    /\ UNCHANGED <<manifest, pending, changes>>

Next == Change \/ RemoveRows \/ \E p \in Paths : InsertPath(p) \/ RemovePath(p)

Spec == Init /\ [][Next]_vars

(***************************************************************************)
(* Properties                                                              *)
(***************************************************************************)

Answers(v) ==
    [overview |-> Overview(v), top |-> Top(v), dead |-> Unreferenced(v, TRUE),
     targets  |-> {<<l, Resolve(v, l)>> : l \in v.references},
     impact   |-> [n \in AllNames(v) |-> ResolvedImpact(v, n, None)]]

\* Whatever changes the tables went through, a settled run leaves them answering every
\* query as the slices assembled from the manifest do: the daemon may serve either.
BackendsAgree == Settled => Answers(Stored) = Answers(Assembled)

\* An unbounded walk ends complete: a caller it misses, by an edge that may mean a
\* reached definition, is one whose edge it counted.  A walk cut short says so.
DroppedEdgesCounted ==
    \A n \in AllNames(Stored) : \A max \in {None} \cup 0 .. MaxDepth :
        LET v == Stored
            report == ResolvedImpact(v, n, max)
            seeds == {Node(n, p) : p \in PathsOf(Definitions(v, n))}
            missed == {l \in v.references :
                          /\ l.item.from # None
                          /\ Node(l.item.from, l.path) \notin report.reached \cup seeds
                          /\ \E m \in report.reached \cup seeds :
                                /\ m.name = l.item.name
                                /\ \/ Resolve(v, l).target \in {m.path, None}
                                   \/ l.item.kind = "value"}
        IN  missed # {} => report.dropped \/ report.truncated

\* The walk over resolved edges only narrows the walk over names.
ResolvedWithinNamed ==
    \A n \in AllNames(Stored) :
        {m.name : m \in ResolvedImpact(Stored, n, None).reached} \subseteq Impact(Stored, n) \cup {n}

\* An import can settle a reference and never unsettles or redirects one: with the
\* imports of its file taken away, a reference that has a target has the same target.
ImportsOnlyNarrow ==
    LET bare == [Stored EXCEPT !.imports = [p \in Paths |-> <<>>]]
    IN  \A l \in bare.references :
            Resolve(bare, l).target # None => Resolve(Stored, l).target = Resolve(bare, l).target

\* A definition reported as unreferenced has nothing depending on it that the walk
\* could reach or would have counted: a function only passed as a value is not dead.
DeadHasNoImpact ==
    \A l \in Unreferenced(Stored, FALSE) :
        LET report == ResolvedImpact(Stored, l.item.name, None)
        IN  report.reached = {} /\ ~report.dropped

\* The rankings count what callers and callees list.
RankingsAgree ==
    LET top == Top(Stored) IN
    \A n \in AllNames(Stored) :
        /\ n \in DOMAIN top.fanOut => top.fanOut[n] = Cardinality(Callees(Stored, n))
        /\ n \notin DOMAIN top.fanOut => Callees(Stored, n) = {}
        /\ n \notin DOMAIN top.fanIn => CallersOf(Stored, n) = {}

\* Two views without a difference define the same names in the same files, so a
\* removal or a move under way is seen by diff.
NoDiffSameDefinitions ==
    LET d == Diff(Stored, Assembled) IN
    d.added = <<{}, {}>> /\ d.removed = <<{}, {}>> =>
        \A n \in AllNames(Stored) \cup AllNames(Assembled) :
            PathsOf(Definitions(Stored, n)) = PathsOf(Definitions(Assembled, n))

\* Ways to ask the same thing agree: the tables and the slices, the dead code, the impact
\* and the rankings, a diff and the definitions it compares.
ViewsAgree == BackendsAgree /\ DeadHasNoImpact /\ RankingsAgree /\ NoDiffSameDefinitions

\* Resolution only narrows what names say, and says how much it left out.
ResolutionIsHonest == DroppedEdgesCounted /\ ResolvedWithinNamed /\ ImportsOnlyNarrow
=============================================================================
