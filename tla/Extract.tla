------------------------------- MODULE Extract -------------------------------
(***************************************************************************)
(* Extraction of a slice of the code graph from one source file             *)
(* (gonzalo-graph: builder.rs).  A file is its syntax tree in pre-order:     *)
(* node i names its parent, 0 for the root, in `up'.  What the grammars of   *)
(* the languages tell apart is kept: definitions, calls and the shape of     *)
(* their callee, bindings with a written or an obvious type, bindings that    *)
(* hold or wrap a function literal, imports, and the token trees of macros.   *)
(***************************************************************************)
EXTENDS Integers, Sequences, FiniteSets, FiniteSetsExt, SequencesExt, Functions

CONSTANTS None,
          Languages,      \* "rust", "js", "python", "c": the ones whose rules differ
          Nodes,          \* the nodes a file may be made of, without their parents
          Markers,        \* path segments that position a module and name none
          MaxNodes        \* bound: the size of a file

VARIABLES language, file

vars == <<language, file>>

(***************************************************************************)
(* What one node says                                                      *)
(***************************************************************************)

\* A binding of JavaScript that is a function literal, directly or under at most
\* three higher-order calls (`wraps' counts them; None: no function inside).
BindsFunction(lang, n) == lang = "js" /\ n.is = "bind" /\ n.wraps # None /\ n.wraps <= 3

ItemKind(lang, n) ==
    CASE n.is = "item" -> n.kind
      [] BindsFunction(lang, n) -> "function"
      [] OTHER -> None

\* item_name, and call_name with callee_name: the grammars put the name in different
\* places; what is read is the defined name and the callee's last segment.
ItemName(n) == n.name
CallName(n) == n.name

\* The node kinds that are calls in each grammar.
IsCall(n) == n.is = "call"

Owning == {"impl", "class", "interface", "trait", "struct", "enum", "module"}

ModuleBindingName(lang, n) ==
    IF lang = "js" /\ n.is = "bind" /\ ~BindsFunction(lang, n) THEN n.name ELSE None

\* A callee behind a receiver is a method, except where the grammar shows none.
CalleeKind(lang, n) ==
    IF n.kind = "member" /\ lang \in {"rust", "js", "python", "c"} THEN "method" ELSE "free"

CalleeQualifier(lang, n) ==
    IF n.kind = "path" /\ lang \in {"rust", "c"} THEN n.of ELSE None

\* The name a file will write and the module it comes from.  A glob (no node here)
\* spells no name out; an include names a file, and no symbol.
ModulePath(n) == SelectSeq(n.path, LAMBDA s : s \notin Markers)

ImportAt(lang, n) ==
    [name  |-> n.name,
     path  |-> ModulePath(n),
     depth |-> IF lang = "python" THEN n.dots ELSE 0]

IsImport(lang, n) == n.is = "import" /\ (n.name # None \/ ModulePath(n) # <<>>)

ValueArgs(n) == IF IsCall(n) THEN n.names ELSE {}
MacroArgCalls(lang, n) == IF lang = "rust" /\ n.is = "tokens" THEN n.names ELSE {}

(***************************************************************************)
(* What a node inherits                                                    *)
(***************************************************************************)

\* The nodes above i; its parent is the last of them.
Above(f, i) ==
    LET above[j \in 0 .. Len(f)] == IF j = 0 THEN {} ELSE {f[j].up} \cup above[f[j].up]
    IN  above[i] \ {0}

IsFunction(lang, n) == ItemKind(lang, n) = "function"

Enclosed(f, i, j) == i \in Above(f, j)

\* A binding with a type, written or obvious; a type parameter names no type.
HasType(f, i, j) == f[j].is = "let" /\ f[j].of # None /\ f[j].of \notin f[i].names

\* The bindings of the body of function i and the last type written for each: nested
\* functions have tables of their own.
ReceiverTypes(lang, f, i) ==
    LET lets == {j \in 1 .. Len(f) :
                    /\ HasType(f, i, j) /\ Enclosed(f, i, j)
                    /\ ~\E k \in Above(f, j) : k > i /\ f[k].is = "item" /\ f[k].kind = "function"}
    IN  [x \in {f[j].name : j \in lets} |-> f[Max({j \in lets : f[j].name = x})].of]

Nowhere == [enclosing |-> None, scope |-> "function", owner |-> None, body |-> 0]

\* What node i hands down: the head of walk.
Enter(lang, f, i, above) ==
    LET n == f[i]
        fn == IF IsFunction(lang, n)
              THEN [above EXCEPT !.enclosing = ItemName(n), !.scope = "function",
                                 !.body = IF lang = "rust" THEN i ELSE @]
              ELSE above
    IN  IF ItemKind(lang, n) \in Owning THEN [fn EXCEPT !.owner = n.of] ELSE fn

\* A binding that is no function names the calls of its initialiser where no function does.
Bind(lang, f, i, here) ==
    IF (here.enclosing = None \/ here.scope = "module") /\ ModuleBindingName(lang, f[i]) # None
    THEN [here EXCEPT !.enclosing = ModuleBindingName(lang, f[i]), !.scope = "module"]
    ELSE here

Inherited(lang, f) ==
    LET after[j \in 0 .. Len(f)] ==
            IF j = 0 THEN Nowhere ELSE Bind(lang, f, j, Enter(lang, f, j, after[f[j].up]))
    IN  after

(***************************************************************************)
(* build: the slice                                                        *)
(***************************************************************************)

\* Mutant: the bindings of the whole file are one table.
QualifierAnywhere(lang, f, i, here) ==
    LET n == f[i]
        lets == {j \in 1 .. Len(f) : f[j].is = "let" /\ f[j].name = n.of /\ f[j].of # None}
    IN  CASE CalleeKind(lang, n) = "free" -> CalleeQualifier(lang, n)
          [] lang # "rust" -> None
          [] n.of = "self" -> here.owner
          [] lets # {} -> f[Max(lets)].of
          [] OTHER -> None

\* The type a method call says it is on, where the body says so outright.
QualifierOf(lang, f, i, here) ==
    LET n == f[i]
        types == IF here.body = 0 THEN <<>> ELSE ReceiverTypes(lang, f, here.body)
    IN  CASE CalleeKind(lang, n) = "free" -> CalleeQualifier(lang, n)
          [] lang # "rust" -> None
          [] n.of = "self" -> here.owner
          [] n.of \in DOMAIN types -> types[n.of]
          [] OTHER -> None

\* An item's owner is the one in scope around it.  A line is the node's place, and a
\* definition ends with the last node inside it.
SymbolAt(lang, f, i) ==
    [name |-> ItemName(f[i]), kind |-> ItemKind(lang, f[i]), start |-> i,
     end |-> Max({i} \cup {j \in 1 .. Len(f) : Enclosed(f, i, j)}),
     owner |-> Inherited(lang, f)[f[i].up].owner]

ReferencesAt(lang, f, i) ==
    LET here == Inherited(lang, f)[i]
        ref(name, kind, qualifier) ==
            [name |-> name, from |-> here.enclosing, scope |-> here.scope, line |-> i,
             kind |-> kind, qualifier |-> qualifier]
    IN  (IF IsCall(f[i])
         THEN {ref(CallName(f[i]), CalleeKind(lang, f[i]), QualifierOf(lang, f, i, here))} ELSE {})
        \cup {ref(x, "value", None) : x \in ValueArgs(f[i])}
        \cup {ref(x, "free", None) : x \in MacroArgCalls(lang, f[i])}

Build(lang, f) ==
    LET items == {i \in 1 .. Len(f) : ItemKind(lang, f[i]) # None}
        uses == SelectSeq([i \in 1 .. Len(f) |-> i], LAMBDA i : IsImport(lang, f[i]))
    IN  [symbols    |-> {SymbolAt(lang, f, i) : i \in items},
         references |-> UNION {ReferencesAt(lang, f, i) : i \in 1 .. Len(f)},
         imports    |-> [k \in 1 .. Len(uses) |-> ImportAt(lang, f[uses[k]]) @@ [line |-> uses[k]]]]

(***************************************************************************)
(* The files                                                               *)
(***************************************************************************)

Init == language \in Languages /\ file = <<>>

\* One more node, under the last one or under a node above it.
Write ==
    /\ Len(file) < MaxNodes
    /\ \E n \in Nodes :
       \E up \in IF file = <<>> THEN {0} ELSE {0, Len(file)} \cup Above(file, Len(file)) :
          file' = Append(file, [n EXCEPT !.up = up])
    /\ UNCHANGED language

Next == Write

Spec == Init /\ [][Next]_vars

(***************************************************************************)
(* Properties                                                              *)
(***************************************************************************)

\* A call is attributed to the innermost function around it and, only where there is
\* none, to the innermost binding: naming the calls of module-level initialisers took
\* no call away from a function (walk's second rule, and its guard).
CallerIsNearest ==
    \A i \in 1 .. Len(file) : \A r \in ReferencesAt(language, file, i) :
        LET functions == {j \in Above(file, i) : IsFunction(language, file[j])}
            bindings == {j \in Above(file, i) : ModuleBindingName(language, file[j]) # None}
        IN  r.from = CASE functions # {} -> file[Max(functions)].name
                       [] functions = {} /\ bindings # {} -> file[Max(bindings)].name
                       [] OTHER -> None

\* A definition belongs to the innermost type or module strictly around it, across
\* the functions in between; it is never its own owner.
OwnerIsNearest ==
    \A s \in Build(language, file).symbols :
        LET owners == {j \in Above(file, s.start) : ItemKind(language, file[j]) \in Owning}
        IN  s.owner = IF owners = {} THEN None ELSE file[Max(owners)].of

\* The type a method call is taken to be on was written for that very name in the body
\* of the function making the call, and is no type parameter of it: nothing leaks from
\* a function beside it, around it or inside it.
ReceiverIsDeclared ==
    \A i \in 1 .. Len(file) : \A r \in ReferencesAt(language, file, i) :
        r.kind = "method" /\ r.qualifier # None /\ file[i].of # "self" =>
            LET functions(k) == {j \in Above(file, k) : IsFunction(language, file[j])}
            IN  \E k \in 1 .. Len(file) :
                    /\ file[k].is = "let" /\ file[k].name = file[i].of
                    /\ file[k].of = r.qualifier
                    /\ functions(i) # {} /\ functions(k) # {}
                    /\ Max(functions(i)) = Max(functions(k))
                    /\ r.qualifier \notin file[Max(functions(i))].names

\* Every call is attributed within the nearest scope that binds it.
ScopesAreNearest == CallerIsNearest /\ OwnerIsNearest /\ ReceiverIsDeclared
=============================================================================
