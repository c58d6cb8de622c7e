------------------------------- MODULE Tickets -------------------------------
(***************************************************************************)
(* Tickets: the connectors' reading and writing of a work item's state       *)
(* (gonzalo-ticket-github, -gitlab, -asana, -jira, -linear; gonzalo-ticket:   *)
(* mapping.rs) and the import of a connection's items as records             *)
(* (gonzalo-ticket: ingest.rs).                                             *)
(*                                                                         *)
(* A connection names its provider, the signal its categories are read       *)
(* from, the configured value -> category map, and what the provider's        *)
(* workflow offers.  A remote item is [closed, reason, status], its status   *)
(* a label, section, column or workflow state with a name.  A ticket's       *)
(* body is the category it was read as.                                     *)
(***************************************************************************)
EXTENDS Integers, Sequences, FiniteSets, FiniteSetsExt, SequencesExt

CONSTANTS None,
          Boards,         \* the connections configured
          Configs,        \* the configurations: board -> its connection
          Items,          \* the external items as a listing with tokens has them; each is
                          \* on every board
          Categories,     \* the targets of set_state
          Lower,          \* value -> the value in lower case
          PageSize,
          MaxChanges      \* bound: edits, moves and deletions by anybody else

VARIABLES conn,           \* board -> its connection
          remote,         \* board -> item -> its state at the provider
          order,          \* board -> the items by last update
          store,          \* record key -> None, or [rev, body, live]
          sync,           \* board -> the import under way
          wrote,          \* the last set_state that succeeded: [board, uid, target], or None
          changes

vars == <<conn, remote, order, store, sync, wrote, changes>>

Uids == {Items[i] : i \in DOMAIN Items}

Terminal(category) == category \in {"Done", "Canceled"}

(***************************************************************************)
(* Reading a state                                                         *)
(***************************************************************************)

\* StateMapping::category_of: the exact value, then one that differs in case only.
CategoryOf(c, value) ==
    LET alike == {v \in DOMAIN c.values : Lower[v] = Lower[value]}
    IN  CASE value \in DOMAIN c.values -> c.values[value]
          [] value \notin DOMAIN c.values /\ alike # {} -> c.values[CHOOSE v \in alike : TRUE]
          [] OTHER -> c.default

\* Workflow states of Jira and Linear have a group each, fixed by the provider.
JiraGroup(group) ==
    CASE group = "indeterminate" -> "InProgress"
      [] group = "done"          -> "Done"
      [] OTHER                   -> "Open"

LinearGroup(group) ==
    CASE group = "triage"    -> "Triage"
      [] group = "backlog"   -> "Backlog"
      [] group = "started"   -> "InProgress"
      [] group = "completed" -> "Done"
      [] group = "canceled"  -> "Canceled"
      [] OTHER               -> "Open"

\* A state the mapping names is what it says, any other what its group says.
ReadJira(c, item) ==
    IF item.status.name \in DOMAIN c.values THEN c.values[item.status.name]
    ELSE JiraGroup(item.status.group)

ReadLinear(c, item) ==
    IF item.status.name \in DOMAIN c.values THEN c.values[item.status.name]
    ELSE LinearGroup(item.status.group)

\* The column of a board.
ReadProject(c, item) == CategoryOf(c, item.status.name)

\* Mutant: the label is looked at before the issue's own state.
ReadLabelFirst(c, item) ==
    CASE c.signal = "label" /\ item.status # None -> CategoryOf(c, item.status.name)
      [] item.closed -> "Done"
      [] OTHER -> "Open"

\* gitlab: a closed issue is done whatever label it still carries.
ReadGitLab(c, item) ==
    CASE item.closed -> "Done"
      [] ~item.closed /\ c.signal = "label" /\ item.status # None -> CategoryOf(c, item.status.name)
      [] OTHER -> "Open"

ReadAsana(c, item) ==
    CASE c.signal = "completed" -> CategoryOf(c, IF item.closed THEN "true" ELSE "false")
      [] c.signal = "section" /\ item.status # None -> CategoryOf(c, item.status.name)
      [] OTHER -> IF item.closed THEN "Done" ELSE "Open"

ReadGitHub(item) ==
    CASE ~item.closed -> "Open"
      [] item.closed /\ item.reason = "not_planned" -> "Canceled"
      [] OTHER -> "Done"

Read(c, item) ==
    CASE c.provider = "github" -> ReadGitHub(item)
      [] c.provider = "project" -> ReadProject(c, item)
      [] c.provider = "gitlab" -> ReadGitLab(c, item)
      [] c.provider = "asana" -> ReadAsana(c, item)
      [] c.provider = "jira" -> ReadJira(c, item)
      [] c.provider = "linear" -> ReadLinear(c, item)

(***************************************************************************)
(* Writing one: set_state returns the item as it leaves it, None for an     *)
(* error before anything was written                                       *)
(***************************************************************************)

SetGitHub(item, target) ==
    [item EXCEPT !.closed = Terminal(target),
                 !.reason = CASE target = "Done" -> "completed"
                              [] target = "Canceled" -> "not_planned"
                              [] OTHER -> None]

\* A move the read path would not report is refused where a label or section drives it.
SetGitLab(c, item, target) ==
    IF ~Terminal(target) /\ c.signal = "label" THEN None
    ELSE [item EXCEPT !.closed = Terminal(target)]

SetAsana(c, item, target) ==
    IF ~Terminal(target) /\ c.signal = "section" THEN None
    ELSE [item EXCEPT !.closed = Terminal(target)]

JiraTarget(target) ==
    CASE target \in {"InProgress", "Pending"} -> "indeterminate"
      [] Terminal(target) -> "done"
      [] OTHER -> "new"

LinearTarget(target) ==
    CASE target = "Triage" -> "triage"
      [] target = "Backlog" -> "backlog"
      [] target \in {"InProgress", "Pending"} -> "started"
      [] target = "Done" -> "completed"
      [] target = "Canceled" -> "canceled"
      [] OTHER -> "unstarted"

StatesOf(c, group) == SelectSeq(c.workflow, LAMBDA s : s.group = group)
FirstOf(states) == IF states = <<>> THEN None ELSE Head(states)

\* Jira: a transition into the target's group, preferably to a state whose name sounds like
\* a cancellation exactly when that is what is asked for.
ChooseTransition(c, target) ==
    LET into == StatesOf(c, JiraTarget(target))
        preferred == IF Terminal(target)
                     THEN SelectSeq(into, LAMBDA s : s.cancels = (target = "Canceled"))
                     ELSE <<>>
    IN  FirstOf(preferred \o into)

\* StateMapping::column_for, and the board's option of that name.
ColumnFor(c, target) ==
    LET columns == {v \in DOMAIN c.values : c.values[v] = target}
    IN  CASE target \in DOMAIN c.targets -> c.targets[target]
          [] target \notin DOMAIN c.targets /\ Cardinality(columns) = 1 -> CHOOSE v \in columns : TRUE
          [] OTHER -> None

OptionFor(c, target) ==
    LET column == ColumnFor(c, target)
        options == IF column = None THEN {}
                   ELSE {o \in ToSet(c.workflow) : Lower[o.name] = Lower[column]}
    IN  IF options = {} THEN None ELSE CHOOSE o \in options : TRUE

Moved(item, status) == IF status = None THEN None ELSE [item EXCEPT !.status = status]

SetProject(c, item, target) == Moved(item, OptionFor(c, target))
SetJira(c, item, target) == Moved(item, ChooseTransition(c, target))
\* Linear: the first state of the team that has the target's type.
SetLinear(c, item, target) == Moved(item, FirstOf(StatesOf(c, LinearTarget(target))))

SetState(c, item, target) ==
    CASE c.provider = "github" -> SetGitHub(item, target)
      [] c.provider = "project" -> SetProject(c, item, target)
      [] c.provider = "gitlab" -> SetGitLab(c, item, target)
      [] c.provider = "asana" -> SetAsana(c, item, target)
      [] c.provider = "jira" -> SetJira(c, item, target)
      [] c.provider = "linear" -> SetLinear(c, item, target)

(***************************************************************************)
(* Records                                                                 *)
(***************************************************************************)

\* Mutant: the connection is no part of the key.
UnscopedKey(b, u) == <<None, u>>

\* record_key: the same item on two boards is two records.
RecordKey(b, u) == <<conn[b].scope, u>>

TicketKeys == {RecordKey(b, u) : b \in Boards, u \in Uids}

\* What get returns, and a put with what it returned as the expectation: a deleted
\* record is no record, and a create over it goes on from its revision.
Live(key) == IF store[key] # None /\ store[key].live THEN store[key] ELSE None
Committed(key, body) ==
    [rev |-> IF store[key] = None THEN 0 ELSE store[key].rev + 1, body |-> body, live |-> TRUE]

(***************************************************************************)
(* The import                                                              *)
(***************************************************************************)

Idle == [pc |-> "idle", cursor |-> None, todo |-> <<>>, seen |-> None,
         touched |-> {}, outcome |-> None]

\* The items at the provider a page of a listing holds, and the cursor of the next:
\* a page of the listing by last update, or what follows a position in a fixed order.
Listing(b) == IF conn[b].paging = "number" THEN order[b] ELSE Items
PageAt(b, cursor) ==
    LET from == IF cursor = None THEN 1 ELSE cursor
        to == from + PageSize - 1
        all == Listing(b)
    IN  [items |-> SubSeq(all, from, IF to > Len(all) THEN Len(all) ELSE to),
         next  |-> IF to < Len(all) THEN to + 1 ELSE None]

StartSync(b) ==
    /\ sync[b].pc = "idle"
    /\ sync' = [sync EXCEPT ![b] = [Idle EXCEPT !.pc = "fetch"]]
    /\ UNCHANGED <<conn, remote, order, store, wrote, changes>>

\* fetch_changed: a page, each item read as a ticket.
Fetch(b) ==
    /\ sync[b].pc = "fetch"
    /\ LET page == PageAt(b, sync[b].cursor)
           tickets == [i \in 1 .. Len(page.items) |->
                          [uid |-> page.items[i], body |-> Read(conn[b], remote[b][page.items[i]])]]
       IN  sync' = [sync EXCEPT ![b].pc = "get", ![b].todo = tickets, ![b].cursor = page.next]
    /\ UNCHANGED <<conn, remote, order, store, wrote, changes>>

\* The loop's end: the next page, or the summary.
NextPage(b) ==
    /\ sync[b].pc = "get" /\ sync[b].todo = <<>>
    /\ sync' = [sync EXCEPT ![b].pc = IF sync[b].cursor = None THEN "idle" ELSE "fetch",
                            ![b].outcome = IF sync[b].cursor = None THEN "ok" ELSE None]
    /\ UNCHANGED <<conn, remote, order, store, wrote, changes>>

\* upsert: an unchanged body is skipped; otherwise the put expects what was read.
Get(b) ==
    /\ sync[b].pc = "get" /\ sync[b].todo # <<>>
    /\ LET t == Head(sync[b].todo)
           seen == Live(RecordKey(b, t.uid))
       IN  sync' = IF seen # None /\ seen.body = t.body
                   THEN [sync EXCEPT ![b].todo = Tail(@)]
                   ELSE [sync EXCEPT ![b].pc = "put", ![b].seen = seen]
    /\ UNCHANGED <<conn, remote, order, store, wrote, changes>>

Put(b) ==
    /\ sync[b].pc = "put"
    /\ LET t == Head(sync[b].todo)
           key == RecordKey(b, t.uid)
       IN  \/ /\ Live(key) = sync[b].seen
              /\ store' = [store EXCEPT ![key] = Committed(key, t.body)]
              /\ sync' = [sync EXCEPT ![b].pc = "get", ![b].todo = Tail(@)]
           \/ /\ Live(key) # sync[b].seen
              /\ sync' = [sync EXCEPT ![b] = [Idle EXCEPT !.outcome = "conflict"]]
              /\ UNCHANGED store
    /\ UNCHANGED <<conn, remote, order, wrote, changes>>

(***************************************************************************)
(* Everybody else                                                          *)
(***************************************************************************)

MovedLast(b, u) ==
    LET n  == Len(order[b])
        at == CHOOSE i \in 1 .. n : order[b][i] = u
    IN  [i \in 1 .. n |-> IF i < at THEN order[b][i] ELSE IF i < n THEN order[b][i + 1] ELSE u]
Touch(boards, u) == [b \in Boards |-> IF b \in boards
                                      THEN [sync[b] EXCEPT !.touched = @ \cup {u}, !.outcome = None]
                                      ELSE sync[b]]

\* set_state through a connection: an error, or the item moved and listed last.
WriteBack(b, u, target) ==
    /\ changes < MaxChanges /\ changes' = changes + 1
    /\ LET item == SetState(conn[b], remote[b][u], target) IN
       /\ item # None
       /\ remote' = [remote EXCEPT ![b][u] = item]
       /\ wrote' = [board |-> b, uid |-> u, target |-> target]
    /\ order' = [order EXCEPT ![b] = MovedLast(b, u)] /\ sync' = Touch({b}, u)
    /\ UNCHANGED <<conn, store>>

\* Somebody moves an item at the provider.
EditRemote(b, u) ==
    /\ changes < MaxChanges /\ changes' = changes + 1
    /\ \E item \in conn[b].items \ {remote[b][u]} : remote' = [remote EXCEPT ![b][u] = item]
    /\ order' = [order EXCEPT ![b] = MovedLast(b, u)] /\ sync' = Touch({b}, u)
    /\ wrote' = None /\ UNCHANGED <<conn, store>>

\* A user edits or deletes the imported record.
EditRecord(key) ==
    /\ changes < MaxChanges /\ changes' = changes + 1 /\ Live(key) # None
    /\ \E live \in BOOLEAN :
          store' = [store EXCEPT ![key].rev = @ + 1, ![key].live = live,
                                 ![key].body = IF live THEN "Edited" ELSE @]
    /\ sync' = Touch({b \in Boards : \E u \in Uids : RecordKey(b, u) = key}, key[2])
    /\ UNCHANGED <<conn, remote, order, wrote>>

\* The boards may have been imported before, when every item read otherwise.
Init == /\ conn \in Configs
        /\ remote \in [Boards -> [Uids -> UNION {conn[b].items : b \in Boards}]]
        /\ \A b \in Boards, u \in Uids : remote[b][u] \in conn[b].items
        /\ order = [b \in Boards |-> Items]
        /\ store \in {[k \in TicketKeys |-> None], [k \in TicketKeys |-> [rev |-> 0, body |-> "Before", live |-> TRUE]]}
        /\ sync = [b \in Boards |-> Idle] /\ wrote = None /\ changes = 0

Next == \/ \E b \in Boards : StartSync(b) \/ Fetch(b) \/ NextPage(b) \/ Get(b) \/ Put(b)
        \/ \E b \in Boards, u \in Uids : EditRemote(b, u) \/ \E t \in Categories : WriteBack(b, u, t)
        \/ \E key \in TicketKeys : EditRecord(key)

Spec == Init /\ [][Next]_vars

(***************************************************************************)
(* Properties                                                              *)
(***************************************************************************)

\* A state that was set, and that set_state reported as set, reads back as what was
\* asked for as far as the provider can say it: done is not read as live nor live as
\* done, and done and canceled are told apart wherever the workflow can.
WriteBackReads ==
    wrote # None =>
        LET c == conn[wrote.board]
            read == Read(c, remote[wrote.board][wrote.uid])
            sayable == {Read(c, item) : item \in c.items}
        IN  /\ Terminal(read) = Terminal(wrote.target)
            /\ Terminal(wrote.target) /\ wrote.target \in sayable => read = wrote.target

\* An import that ends well has mirrored every item nobody else touched while it ran,
\* whatever the imports of other connections did; where pages are numbers, which an
\* update shifts, it has if nothing at all was touched.
QuietSyncMirrors ==
    \A b \in Boards : sync[b].outcome = "ok" =>
        \A u \in Uids \ sync[b].touched :
            conn[b].paging = "token" \/ sync[b].touched = {} =>
                /\ Live(RecordKey(b, u)) # None
                /\ Live(RecordKey(b, u)).body = Read(conn[b], remote[b][u])

(***************************************************************************)
(* The inductive invariant of QuietSyncMirrors.  An import has dealt with    *)
(* the pages before its cursor: an item of them that nobody touched is       *)
(* mirrored, or among the tickets it has yet to upsert, which still say      *)
(* what the provider says.                                                  *)
(***************************************************************************)

\* The categories, and what a user or an earlier import left.
States == {"Triage", "Backlog", "Open", "InProgress", "Pending", "Done", "Canceled",
           "Before", "Edited"}
Ticket == [rev : Nat, body : States, live : BOOLEAN]
Import == [pc : {"idle", "fetch", "get", "put"}, cursor : Nat \cup {None},
           todo : Seq([uid : Uids, body : States]), seen : Ticket \cup {None},
           touched : SUBSET Uids, outcome : {None, "ok", "conflict"}]

\* What the constants are; the modules that instantiate this one assume it.
TicketsAssumption ==
    /\ Items \in Seq(Uids) /\ PageSize \in Nat \ {0}
    /\ None \notin Nat /\ None \notin Ticket /\ None # "ok"
    /\ \A config \in Configs, b \in Boards :
          /\ config[b].provider \in {"github", "project", "gitlab", "asana", "jira", "linear"}
          /\ config[b].default \in States
          /\ \A v \in DOMAIN config[b].values : config[b].values[v] \in States
          /\ \A d \in Boards : config[b].scope = config[d].scope => b = d

Lists(listing) == /\ listing \in Seq(Uids)
                  /\ \A u \in Uids : \E i \in 1 .. Len(listing) : listing[i] = u

TypeOK == /\ conn \in Configs
          /\ DOMAIN remote = Boards /\ \A b \in Boards : DOMAIN remote[b] = Uids
          /\ DOMAIN order = Boards /\ \A b \in Boards : Lists(order[b])
          /\ store \in [TicketKeys -> Ticket \cup {None}]
          /\ sync \in [Boards -> Import]

\* What the provider says of a board's items, and those of which its records say the same.
Says(b) == [u \in Uids |-> Read(conn[b], remote[b][u])]
Mirror(b) == {u \in Uids : Live(RecordKey(b, u)) # None /\ Live(RecordKey(b, u)).body = Says(b)[u]}

\* The items an import answers for, and how much of the listing it has fetched.
Owed(me, paging) == {u \in Uids \ me.touched : paging = "token" \/ me.touched = {}}
Fetched(me, listing) == IF me.cursor # None THEN me.cursor - 1
                        ELSE IF me.pc = "fetch" THEN 0 ELSE Len(listing)

Sound(me, paging, listing, says, mirror) ==
    /\ me.cursor # 0
    /\ me.pc = "put" => me.todo # <<>>
    /\ me.pc \in {"idle", "fetch"} => me.todo = <<>>
    /\ me.pc # "idle" => me.outcome = None
    /\ \A i \in 1 .. Len(me.todo) : me.todo[i].uid \in Owed(me, paging) =>
          me.todo[i].body = says[me.todo[i].uid]
    /\ me.pc # "idle" => \A n \in 1 .. Len(listing) :
          n <= Fetched(me, listing) /\ listing[n] \in Owed(me, paging) =>
             listing[n] \in mirror \/ \E i \in 1 .. Len(me.todo) : me.todo[i].uid = listing[n]
    /\ me.outcome = "ok" => Owed(me, paging) \subseteq mirror

ImportSound(b) == Sound(sync[b], conn[b].paging, Listing(b), Says(b), Mirror(b))

MirrorInv == TypeOK /\ \A b \in Boards : ImportSound(b)
=============================================================================
