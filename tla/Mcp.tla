--------------------------------- MODULE Mcp ---------------------------------
(***************************************************************************)
(* The MCP server (gonzalo-mcp: lib.rs) and the graph queries of Service    *)
(* behind it (gonzalo-server: service.rs).  A tool call is a sequence of    *)
(* awaits: it checks that its view exists, then opens the view anew for     *)
(* every query it makes, while `gonzalo index` commits manifests and applies*)
(* them to the view's database and other clients delete, restore and edit.  *)
(*                                                                         *)
(* What a query computes is CodeGraph's; here a view's contents are a       *)
(* version number, and Blank is the database an index run has opened and    *)
(* not filled yet.                                                          *)
(***************************************************************************)
EXTENDS StoreCalls, Sequences, SequencesExt

CONSTANTS Agents, Views,
          Cap,
          MaxCalls,     \* tool calls of each agent
          MaxChanges    \* bound: index runs, edits and deletions of the other clients

VARIABLES writes, rooted,   \* how the server was started
          manifest,         \* view -> None or [version, live]
          db,               \* view -> None or the version its database holds
          indexing,         \* view -> how far its `gonzalo index` has come
          slot,             \* the one record the record tools address
          call,             \* agent -> its tool call
          seen,             \* agent -> the record record_get last gave it
          calls, changes

vars == <<writes, rooted, manifest, db, indexing, slot, call, seen, calls, changes>>

Blank == 0
Idle  == [pc |-> "idle"]

(***************************************************************************)
(* The tool tables                                                         *)
(***************************************************************************)

SymbolTools    == {"search", "node", "callers", "callees", "impact", "explore"}
AggregateTools == {"overview", "top", "list", "unreferenced"}
WriteTools     == {"record_put", "record_delete"}
AllTools == SymbolTools \cup AggregateTools \cup WriteTools
              \cup {"status", "views", "diff", "record_get", "record_list", "no_such_tool"}

\* What list_tools answers.
Tools(w) == (AllTools \ {"no_such_tool"}) \ (IF w THEN {} ELSE WriteTools)

RecordKeyArgs == {"namespace", "collection", "id"}

\* The required arguments of the input schemas.
Required(tool) ==
    CASE tool \in SymbolTools      -> {"repo", "view_id", "name"}
      [] tool = "diff"             -> {"repo", "view_a", "view_b"}
      [] tool = "top"              -> {"repo", "view_id", "by"}
      [] tool \in AggregateTools \ {"top"} -> {"repo", "view_id"}
      [] tool \in {"record_get", "record_delete"} -> RecordKeyArgs
      [] tool = "record_list"      -> {"namespace"}
      [] tool = "record_put"       -> RecordKeyArgs \cup {"body"}
      [] OTHER                     -> {}

\* The arguments the parsers insist on, tool by tool: the selector is parsed
\* before the view is looked up, an aggregate's own arguments after it.
Selector(tool) ==
    CASE tool \in SymbolTools    -> {"repo", "view_id", "name"}
      [] tool = "diff"           -> {"repo", "view_a", "view_b"}
      [] tool \in AggregateTools -> {"repo", "view_id"}
      [] OTHER                   -> {}
RankingArg(tool) == IF tool = "top" THEN {"by"} ELSE {}
RecordArgs(tool) ==
    CASE tool \in {"record_get", "record_delete"} -> RecordKeyArgs
      [] tool = "record_list" -> {"namespace"}
      [] tool = "record_put"  -> RecordKeyArgs \cup {"body"}

\* The views a tool opens, in order: each query of the service opens its own.
Opens(tool, view, other) ==
    CASE tool = "diff"                     -> <<view, other>>
      [] tool \in {"callers", "callees"}   -> <<view, view>>
      [] tool = "node"                     -> <<view, view, view>>
      [] tool \in (SymbolTools \cup AggregateTools) \ {"callers", "callees", "node"} -> <<view>>
      [] OTHER                             -> <<>>

(***************************************************************************)
(* Calls                                                                   *)
(***************************************************************************)

\* A view may have been indexed here, or have come by sync without a database.
Init == /\ writes \in BOOLEAN /\ rooted \in BOOLEAN
        /\ manifest \in [Views -> {None, [version |-> 1, live |-> TRUE]}]
        /\ db \in [Views -> {None, 1}]
        /\ \A v \in Views : db[v] # None => manifest[v] # None
        /\ indexing = [v \in Views |-> "idle"]
        /\ slot = None
        /\ call = [a \in Agents |-> Idle]
        /\ seen = [a \in Agents |-> None]
        /\ calls = [a \in Agents |-> 0] /\ changes = 0

Live(v) == manifest[v] # None /\ manifest[v].live

Goes(a, state) == call' = [call EXCEPT ![a] = state]
Ends(a, result) == Goes(a, [call[a] EXCEPT !.pc = "done", !.result = result])
Server == UNCHANGED <<writes, rooted, manifest, db, indexing, changes>>

ViewTools == SymbolTools \cup AggregateTools \cup {"diff"}

\* A request arrives.  Three ghosts follow the call: the views that changed
\* during it, those whose database was Blank at some time in it, and those
\* that were there all along.
Ask(a, tool, given, view, other) ==
    /\ call[a].pc \in {"idle", "done"} /\ calls[a] < MaxCalls
    /\ calls' = [calls EXCEPT ![a] = @ + 1]
    /\ Goes(a, [pc |-> "sent", tool |-> tool, given |-> given,
                views |-> Opens(tool, view, other), next |-> 1, parts |-> <<>>, todo |-> {},
                result |-> None, touched |-> {}, always |-> {v \in Views : Live(v)},
                blank |-> {v \in ToSet(Opens(tool, view, other)) : db[v] = Blank}])
    /\ UNCHANGED <<slot, seen>> /\ Server

\* dispatch: an unknown tool, the listings, then the arguments.
Dispatch(a) ==
    LET me == call[a] IN
    /\ me.pc = "sent" /\ me.tool \notin {"record_get", "record_list"} \cup WriteTools
    /\ CASE me.tool \in {"status", "views"} ->
              Goes(a, [me EXCEPT !.pc = "list", !.todo = {v \in Views : Live(v)}])
         [] me.tool \in ViewTools ->
              IF Selector(me.tool) \subseteq me.given THEN Goes(a, [me EXCEPT !.pc = "check"])
              ELSE Ends(a, "bad_arguments")
         [] OTHER -> Ends(a, "unknown_tool")
    /\ UNCHANGED <<slot, seen, calls>> /\ Server

\* graph_views: each listed manifest is read on its own, and one that has gone
\* since is left out.
ListView(a) ==
    LET me == call[a] IN
    /\ me.pc = "list"
    /\ IF me.todo = {} THEN Ends(a, "answer")
       ELSE \E v \in me.todo :
              Goes(a, [me EXCEPT !.todo = @ \ {v},
                                 !.parts = IF Live(v) THEN Append(@, v) ELSE @])
    /\ UNCHANGED <<slot, seen, calls>> /\ Server

\* Service::view_exists.
ViewExists(v) == (rooted /\ db[v] # None) \/ Live(v)

\* unknown_view_error, for each view the tool names, then the arguments an
\* aggregate parses for itself.
Check(a) ==
    LET me == call[a] IN
    /\ me.pc = "check"
    /\ IF ~ViewExists(me.views[me.next]) THEN Ends(a, "unknown_view")
       ELSE IF me.tool = "diff" /\ me.next = 1 THEN Goes(a, [me EXCEPT !.next = 2])
       ELSE IF ~(RankingArg(me.tool) \subseteq me.given) THEN Ends(a, "bad_arguments")
       ELSE Goes(a, [me EXCEPT !.pc = "query", !.next = 1])
    /\ UNCHANGED <<slot, seen, calls>> /\ Server

\* Service::load_manifest; None is NotFound.
LoadManifest(v) == IF Live(v) THEN manifest[v].version ELSE None

\* Mutant: the slices are assembled first, the database is the fallback.
ViewFromSlices(v, query) ==
    IF Live(v) /\ query > 1 THEN manifest[v].version
    ELSE IF rooted /\ db[v] # None THEN db[v]
    ELSE LoadManifest(v)

\* Service::view: the database if there is one, else the manifest's slices.
View(v, query) == IF rooted /\ db[v] # None THEN db[v] ELSE LoadManifest(v)

\* One query of the service; callers, callees, node and diff make several.
Query(a) ==
    LET me == call[a]
        v  == me.views[me.next]
    IN  /\ me.pc = "query"
        /\ IF View(v, me.next) = None THEN Ends(a, "not_found")
           ELSE LET parts == Append(me.parts, View(v, me.next))
                IN  Goes(a, IF me.next = Len(me.views)
                            THEN [me EXCEPT !.pc = "done", !.result = "answer", !.parts = parts]
                            ELSE [me EXCEPT !.next = @ + 1, !.parts = parts])
        /\ UNCHANGED <<slot, seen, calls>> /\ Server

(***************************************************************************)
(* The record tools                                                        *)
(***************************************************************************)

\* A record tool whose arguments parse; the write pair only when enabled.
RecordCall(a, tool) ==
    /\ call[a].pc = "sent" /\ call[a].tool = tool
    /\ tool \in WriteTools => writes
    /\ RecordArgs(tool) \subseteq call[a].given
    /\ UNCHANGED calls /\ Server

RefuseRecord(a) ==
    /\ call[a].pc = "sent" /\ call[a].tool \in {"record_get", "record_list"} \cup WriteTools
    /\ IF call[a].tool \in WriteTools /\ ~writes THEN Ends(a, "unknown_tool")
       ELSE /\ ~(RecordArgs(call[a].tool) \subseteq call[a].given)
            /\ Ends(a, "bad_arguments")
    /\ UNCHANGED <<slot, seen, calls>> /\ Server

RecordRead(a) ==
    \/ /\ RecordCall(a, "record_get")
       /\ IF IsLive(slot) THEN Ends(a, "answer") /\ seen' = [seen EXCEPT ![a] = slot]
          ELSE Ends(a, "no_record") /\ UNCHANGED seen
       /\ UNCHANGED slot
    \/ RecordCall(a, "record_list") /\ Ends(a, "answer") /\ UNCHANGED <<slot, seen>>

\* The record record_put builds: Record::create with the given parent.
PutPlanned(expected, kind, body) ==
    PlanPut(slot, [CreateRecord(kind, body) EXCEPT !.parent = expected], expected, Cap)

\* update: the agent passes the revision record_get gave it back, or none.
RecordPut(a, update, kind, body) ==
    LET expected == IF update THEN seen[a].revision ELSE None
        plan     == PutPlanned(expected, kind, body)
    IN  /\ RecordCall(a, "record_put")
        /\ update => seen[a] # None
        /\ slot' = Apply(slot, plan)
        /\ Ends(a, CASE plan.outcome = "Write"    -> "committed"
                     [] plan.outcome = "Conflict" -> "conflict"
                     [] OTHER                     -> "error")
        /\ UNCHANGED seen

RecordDelete(a) ==
    /\ RecordCall(a, "record_delete")
    /\ slot' = Apply(slot, PlanDelete(slot, None, 0, Cap))
    /\ Ends(a, "deleted")
    /\ UNCHANGED seen

(***************************************************************************)
(* Everyone else                                                           *)
(***************************************************************************)

\* One step of the other clients, seen by the calls under way.
Others(touched) ==
    /\ call' = [a \in Agents |->
                  IF call[a].pc \in {"idle", "done"} THEN call[a]
                  ELSE LET opened == ToSet(call[a].views)
                       IN  [call[a] EXCEPT !.touched = @ \cup (touched \cap opened),
                                           !.always = {v \in @ : manifest'[v] # None /\ manifest'[v].live},
                                           !.blank = @ \cup {v \in opened : db'[v] = Blank}]]
    /\ UNCHANGED <<writes, rooted, seen, calls>>

Counted == changes < MaxChanges /\ changes' = changes + 1

\* `gonzalo index`: it opens the database before anything else, commits the
\* manifest, and applies what it staged to the database.
IndexOpens(v) ==
    /\ indexing[v] = "idle"
    /\ db' = [db EXCEPT ![v] = IF @ = None THEN Blank ELSE @]
    /\ indexing' = [indexing EXCEPT ![v] = "opened"]
    /\ UNCHANGED <<manifest, slot>>
    /\ Others({v}) /\ Counted

\* A create over a manifest tombstone is refused.
IndexCommits(v) ==
    /\ indexing[v] = "opened"
    /\ manifest[v] = None \/ Live(v)
    /\ manifest' = [manifest EXCEPT ![v] =
                      [version |-> IF @ = None THEN 1 ELSE @.version + 1, live |-> TRUE]]
    /\ indexing' = [indexing EXCEPT ![v] = "committed"]
    /\ UNCHANGED <<db, slot>>
    /\ Others({v}) /\ UNCHANGED changes

IndexApplies(v) ==
    /\ indexing[v] = "committed" /\ manifest[v] # None
    /\ db' = [db EXCEPT ![v] = manifest[v].version]
    /\ indexing' = [indexing EXCEPT ![v] = "idle"]
    /\ UNCHANGED <<manifest, slot>>
    /\ Others({v}) /\ UNCHANGED changes

IndexDies(v) ==
    /\ indexing[v] # "idle"
    /\ indexing' = [indexing EXCEPT ![v] = "idle"]
    /\ UNCHANGED <<manifest, db, slot>>
    /\ Others({}) /\ UNCHANGED changes

\* delete and undelete of the view, which leave its database alone.
DeleteOrRestore(v) ==
    /\ manifest[v] # None
    /\ manifest' = [manifest EXCEPT ![v].live = ~@]
    /\ UNCHANGED <<db, indexing, slot>>
    /\ Others({v}) /\ Counted

EditRecord(body) ==
    /\ slot' = Apply(slot, IF IsLive(slot)
                           THEN PlanPut(slot, UpdateRecord(slot, body), slot.revision, Cap)
                           ELSE PlanPut(slot, CreateRecord("Topic", body), None, Cap))
    /\ slot' # slot
    /\ UNCHANGED <<manifest, db, indexing>>
    /\ Others({}) /\ Counted

\* What a request gives: all the schema requires, only the selector, nothing.
Requests(tool) == {Required(tool), Selector(tool), {}}

AgentNext(a) ==
    \/ \E tool \in AllTools, view \in Views :
          \E other \in IF tool = "diff" THEN Views ELSE {view}, given \in Requests(tool) : Ask(a, tool, given, view, other)
    \/ Dispatch(a) \/ ListView(a) \/ Check(a) \/ Query(a)
    \/ RefuseRecord(a) \/ RecordRead(a) \/ RecordDelete(a)
    \/ \E update \in BOOLEAN, kind \in {"Topic", "MemoryTier"}, body \in Bodies :
          RecordPut(a, update, kind, body)

OthersNext ==
    \/ \E v \in Views : \/ IndexOpens(v) \/ IndexCommits(v) \/ IndexApplies(v) \/ IndexDies(v)
                        \/ DeleteOrRestore(v)
    \/ \E body \in Bodies : EditRecord(body)

Next == (\E a \in Agents : AgentNext(a)) \/ OthersNext

Spec == Init /\ [][Next]_vars

(***************************************************************************)
(* Properties                                                              *)
(***************************************************************************)

Done(a) == call[a].pc = "done"
Answered(a) == Done(a) /\ call[a].result = "answer"
                       /\ call[a].tool \in ViewTools

\* A query answers from a view that was indexed, whenever the view goes away
\* during the call: an empty answer never stands for a view that is not there.
\* The one exception is a database an index run has opened and not filled
\* (dispatch, view_exists, view; #210).
EmptyIsNeverUnknown ==
    \A a \in Agents : Answered(a) =>
       \A i \in DOMAIN call[a].parts :
          call[a].parts[i] = Blank => rooted /\ call[a].views[i] \in call[a].blank

\* The parts of one answer (names and definition_count; definitions, callers
\* and callees) describe one version of the view unless it changed meanwhile,
\* although each part opens the view anew (call_graph, node).
PartsAgree ==
    \A a \in Agents : Answered(a) =>
       \A i, j \in DOMAIN call[a].parts :
          /\ call[a].views[i] = call[a].views[j]
          /\ call[a].views[i] \notin call[a].touched
          => call[a].parts[i] = call[a].parts[j]

\* A view that is there throughout a listing is listed, though others come and
\* go between the listing of the keys and the reading of each (graph_views).
DiscoveryIsComplete ==
    \A a \in Agents : Done(a) /\ call[a].tool \in {"status", "views"} =>
       call[a].always \subseteq ToSet(call[a].parts)

\* An advertised tool called with what its schema requires is carried out, and
\* a tool that is not advertised is unknown whatever it is given (tools,
\* dispatch and the schemas against the argument parsers).
AdvertisedIsServed ==
    \A a \in Agents : Done(a) =>
       /\ (call[a].result = "unknown_tool") <=> call[a].tool \notin Tools(writes)
       /\ call[a].given = Required(call[a].tool) => call[a].result # "bad_arguments"

\* An update follows the revision the caller read: a live record gives way
\* only to a later revision (record_put's comment on the parent chain).
UpdateFollows ==
    [][IsLive(slot) /\ slot' # slot => slot'.revision.counter > slot.revision.counter]_vars

\* What an agent is told of the views is so: an empty answer is of a view that is
\* there, the parts of an answer are of one version, discovery leaves no view out, and
\* the tools it is offered are served.
ViewAnswersHold == EmptyIsNeverUnknown /\ PartsAgree /\ DiscoveryIsComplete /\ AdvertisedIsServed
=============================================================================
