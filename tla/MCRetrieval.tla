---------------------------- MODULE MCRetrieval ----------------------------
(***************************************************************************)
(* Small instances of what agents query, side by side: `part' is chosen at   *)
(* the start and only that instance moves.  "graph" is CodeGraph over slices *)
(* that Extract builds; "file" grows a file node by node and extracts it;    *)
(* "docs" is Knowledge with two tasks that ingest and remove; "vectors" is   *)
(* VectorIndex with two items in two shards or in one, and callers that      *)
(* disagree about the space or the shard count; "search" is Hnsw.           *)
(***************************************************************************)
EXTENDS Retrieval, TLC

CONSTANTS Languages, Nodes, Markers, MaxNodes,                              \* of Extract
          Paths, Fold, MaxDepth, MaxChanges                                 \* of CodeGraph

VARIABLES part,                                                    \* the instance that moves
          view, tables, pending, dropping, changes,                \* "graph"
          language, file,                                          \* "file"
          inner, wanted, ops                                       \* "search"

X == INSTANCE Extract

ASSUME KnowledgeInstance == N!KnowledgeAssumption /\ N!CallersTakeTurns

MCShardOf(item, n) == item % n
MCDeclarations == {[space |-> "bge", shards |-> 2], [space |-> "bge", shards |-> 1],
                   [space |-> "e5", shards |-> 2]}
HandleSymmetry == Permutations(Handles)

H == INSTANCE Hnsw WITH
        Keys <- {1, 2, 3}, Scores <- {1, 2}, InitialCapacity <- 4, MinRebuildTombstones <- 1,
        Overfetch <- 1, MaxHits <- 2, MaxOps <- 6

Blank == [up |-> 0, is |-> "", kind |-> None, name |-> None, of |-> None, wraps |-> None,
          names |-> {}, path |-> <<>>, dots |-> 0]
Item(up, kind, name) == [Blank EXCEPT !.up = up, !.is = "item", !.kind = kind, !.name = name, !.of = name]
Call(up, kind, name, of, names) ==
    [Blank EXCEPT !.up = up, !.is = "call", !.kind = kind, !.name = name, !.of = of, !.names = names]
Use(name, path, dots) ==
    [Blank EXCEPT !.is = "import", !.name = name, !.path = path, !.dots = dots]
MCPaths == {[dirs |-> <<"a-b", "src">>, name |-> "m.rs", stem |-> "m"],
            [dirs |-> <<"a-b">>, name |-> "lib.rs", stem |-> "lib"],
            [dirs |-> <<"c", "tests">>, name |-> "m.rs", stem |-> "m"]}
MCFold == [s \in {"a-b", "a_b", "src", "tests", "c", "m", "m.rs", "lib", "lib.rs"} |->
              IF s = "a-b" THEN "a_b" ELSE s]
MCSlices == {
    \* f, and a g that calls it
    X!Build("rust", <<Item(0, "function", "f"), Item(0, "function", "g"), Call(2, "free", "f", None, {})>>),
    \* B::f, called by path from h, which also passes g
    X!Build("rust", <<Item(0, "impl", "B"), Item(1, "function", "f"), Item(0, "function", "h"),
                      Call(3, "path", "f", "B", {"g"})>>),
    \* g calls f, as imported from crate a_b's module m
    X!Build("rust", <<Use("f", <<"a_b", "m">>, 0), Item(0, "function", "g"), Call(2, "free", "f", None, {})>>),
    \* the same import beside a definition of f
    X!Build("rust", <<Use("f", <<"a_b", "m">>, 0), Item(0, "function", "f"), Item(0, "function", "g"),
                      Call(3, "free", "f", None, {})>>),
    \* h calls a method f of an unknown receiver, in a test module
    X!Build("rust", <<Item(0, "module", "tests"), Item(1, "function", "h"), Call(2, "member", "f", "x", {})>>),
    \* a relative import of f, and a call of it
    X!Build("python", <<Use("f", <<>>, 1), Item(0, "function", "g"), Call(2, "free", "f", None, {}),
                        Call(2, "free", "h", None, {})>>)}

MCNodes == {
    [Blank EXCEPT !.is = "item", !.kind = "function", !.name = "f", !.names = {"T"}],
    [Blank EXCEPT !.is = "item", !.kind = "function", !.name = "g"],
    [Blank EXCEPT !.is = "item", !.kind = "impl", !.name = "Box<T>", !.of = "Box"],
    [Blank EXCEPT !.is = "let", !.name = "x", !.of = "Box"],
    [Blank EXCEPT !.is = "let", !.name = "x", !.of = "T"],
    [Blank EXCEPT !.is = "bind", !.name = "c", !.wraps = 3],
    [Blank EXCEPT !.is = "bind", !.name = "d", !.wraps = 4],
    [Blank EXCEPT !.is = "call", !.kind = "member", !.name = "g", !.of = "x", !.names = {"f"}],
    [Blank EXCEPT !.is = "call", !.kind = "member", !.name = "g", !.of = "self"],
    [Blank EXCEPT !.is = "call", !.kind = "path", !.name = "f", !.of = "Box"]}

MCDocs == {[kind |-> "Topic", header |-> 2, pieces |-> <<>>],
           [kind |-> "Session", header |-> 1, pieces |-> <<1, 3>>],
           [kind |-> "Ticket", header |-> 3, pieces |-> <<2>>],
           [kind |-> "Person", header |-> 3, pieces |-> <<>>]}

G == INSTANCE CodeGraph WITH Slices <- MCSlices, manifest <- view

graphVars == <<view, tables, pending, dropping, changes>>
fileVars == <<language, file>>
searchVars == <<inner, wanted, ops>>

MCInit == /\ Init /\ G!Init /\ N!Init /\ H!Init
          /\ \/ part \in {"vectors", "graph", "docs", "search"} /\ language = None /\ file = <<>>
             \/ part = "file" /\ X!Init
          /\ \E h \in Handles : declared[h] = [space |-> "bge", shards |-> 2]
          /\ part # "vectors" => \A h \in Handles : declared[h] = [space |-> "bge", shards |-> 2]

MCNext == /\ UNCHANGED part
          /\ \/ part = "vectors" /\ Next   /\ UNCHANGED <<graphVars, fileVars, docVars, searchVars>>
             \/ part = "graph"   /\ G!Next /\ UNCHANGED <<vars, fileVars, docVars, searchVars>>
             \/ part = "file"    /\ X!Next /\ UNCHANGED <<vars, graphVars, docVars, searchVars>>
             \/ part = "docs"    /\ N!Next /\ UNCHANGED <<vars, graphVars, fileVars, searchVars>>
             \/ part = "search"  /\ H!Next /\ UNCHANGED <<vars, graphVars, fileVars, docVars>>

MCSpec == MCInit /\ [][MCNext]_<<vars, part, graphVars, fileVars, docVars, searchVars>>

\* A call is attributed to the innermost function around it and, only where there is
\* none, to the innermost binding; a definition belongs to the innermost type or module
\* strictly around it; and the type a method call is taken to be on was written for that
\* very name in the body of the function making the call (walk, enclosing scopes,
\* receiver types).
ScopesAreNearest == part = "file" => X!ScopesAreNearest

\* Ways to ask the same thing agree: the tables and the slices once a run has settled, the
\* dead code and the impact, the rankings, a diff and the definitions it compares
\* (SqliteCodeGraph, assemble, and the queries over either).
ViewsAgree == part = "graph" => G!ViewsAgree

\* Resolution only narrows what names say, an import narrows it further, and a resolved
\* walk counts every edge it left out (resolve, resolved_impact).
ResolutionIsHonest == part = "graph" => G!ResolutionIsHonest

\* The records a query ranks are the best ones, in the order of their best chunks, though
\* only the top chunks were looked at; and while no record has more than Overfetch
\* chunks, there are as many as were asked for, or all.
QueryFindsTheBest == part = "docs" => N!QueryFindsTheBest

\* However many points were replaced or removed, a query without a filter returns the
\* best k live scores, whichever of its equal points the graph prefers; between two calls
\* the graph has room for one more point, and every point in it is a live entry or a
\* counted tombstone.
SearchIsExact == part = "search" => H!SearchIsExact
=============================================================================
