----------------------------- MODULE MCClients -----------------------------
(***************************************************************************)
(* Small instances of the programs that are clients of a store, side by     *)
(* side: `part' is chosen at the start and only that instance moves.  "gc"   *)
(* is BlobGc, an indexing run and two sweeps over a blob that a note's body  *)
(* refers to and a manifest names or not; "tickets" imports and writes back  *)
(* the items of two boards, of the providers that Configs pairs; "fleet"     *)
(* redeems one link token at two sites that sync; "soak" is the load         *)
(* generator with two writers.                                              *)
(***************************************************************************)
EXTENDS StoreClients, Sequences

CONSTANTS nil, ref, b1,
          s1, s2, ada, bob,                                                \* of Fleet
          Clients                                                          \* of Soak

MCManifests == {[names |-> S] : S \in SUBSET Blobs}
MCBodies == {nil, ref} \cup MCManifests
MCHash == [body \in MCBodies |->
              CASE body = nil -> 1 [] body = ref -> 2
                [] OTHER -> 3 + Cardinality(body.names)]
MCNames == [body \in MCManifests |-> body.names]
MCBlobOf == [body \in {ref} |-> b1]

Blank == [closed |-> FALSE, reason |-> None, status |-> None]
Named(n, g, x) == [name |-> n, group |-> g, cancels |-> x]
Column(n) == Named(n, None, FALSE)
Doing == Named("Doing", "indeterminate", FALSE)
Done == Named("Done", "done", FALSE)
Wont == Named("Wont do", "done", TRUE)
Jira == [provider |-> "jira", signal |-> None, paging |-> "token", default |-> "Open", targets |-> <<>>,
         values |-> [v \in {"Wont do"} |-> "Canceled"], workflow |-> <<Doing, Wont, Done>>,
         items |-> {[Blank EXCEPT !.status = s] : s \in {Done, Wont}}]
Linear == [provider |-> "linear", signal |-> None, paging |-> "token", default |-> "Open", targets |-> <<>>,
           values |-> <<>>, workflow |-> <<Named("Todo", "unstarted", FALSE), Named("Bin", "canceled", FALSE)>>,
           items |-> {[Blank EXCEPT !.status = Named("Todo", "unstarted", FALSE)],
                      [Blank EXCEPT !.status = Named("Bin", "canceled", FALSE)]}]
GitLab == [provider |-> "gitlab", signal |-> "label", paging |-> "number", default |-> "Open", targets |-> <<>>,
           values |-> [v \in {"review"} |-> "InProgress"], workflow |-> <<>>,
           items |-> {[Blank EXCEPT !.closed = x, !.status = Column("review")] : x \in BOOLEAN}]
GitHub == [provider |-> "github", signal |-> None, paging |-> "number", default |-> "Open", targets |-> <<>>,
           values |-> <<>>, workflow |-> <<>>,
           items |-> {[Blank EXCEPT !.closed = TRUE, !.reason = "completed"],
                      [Blank EXCEPT !.closed = TRUE, !.reason = "not_planned"]}]
Project == [provider |-> "project", signal |-> None, paging |-> "token", default |-> "Triage",
            targets |-> [t \in {"Done"} |-> "Done"],
            values |-> [v \in {"doing", "Done", "Shipped"} |-> IF v = "doing" THEN "InProgress" ELSE "Done"],
            workflow |-> <<Doing, Done>>,
            items |-> {[Blank EXCEPT !.status = s] : s \in {Doing, Done}}]
Asana == [provider |-> "asana", signal |-> "completed", paging |-> "token", default |-> "Open", targets |-> <<>>,
          values |-> [v \in {"true", "false"} |-> IF v = "true" THEN "Done" ELSE "Open"], workflow |-> <<>>,
          items |-> {Blank, [Blank EXCEPT !.closed = TRUE]}]
Scoped(c, s) == [x \in DOMAIN c \cup {"scope"} |-> IF x = "scope" THEN s ELSE c[x]]
Two(c, d) == [b \in Boards |-> IF b = CHOOSE x \in Boards : TRUE THEN Scoped(c, b) ELSE Scoped(d, b)]
MCItems == <<1, 2>>
MCConfigs == {Two(Jira, GitHub), Two(GitLab, Asana), Two(Project, Linear)}
MCLower == [v \in {"Doing", "doing", "Done", "Shipped", "review", "true", "false"} |->
               IF v = "Doing" THEN "doing" ELSE v]

Accounts == {[authenticator |-> "discord", name |-> <<>>, subject |-> <<":">>],
             [authenticator |-> "oidc", name |-> <<"a", ":", "a">>, subject |-> <<"a">>],
             [authenticator |-> "oidc", name |-> <<"a">>, subject |-> <<"a", ":", "a">>],
             [authenticator |-> "oidc", name |-> <<"a">>, subject |-> <<"a", "%", "3", "A", "a">>]}

\* The bodies of a soak: the ids appended to a contended record, or one id.
SoakBodies == UNION {[1 .. n -> 1 .. 2] : n \in 0 .. 5} \cup {<<i>> : i \in 0 .. 7}
Code(s) == LET code[i \in 0 .. Len(s)] == IF i = 0 THEN 1 ELSE 9 * code[i - 1] + s[i] IN code[Len(s)]
SoakHash == [b \in SoakBodies |-> Code(b)]

VARIABLES part,                                                        \* the instance that moves
          token, attempt, bindings, clashed, now,                      \* "fleet"
          keys, me, ops, life, acked, deleted, unanswered, ids, faults  \* "soak"

ASSUME TicketsInstance == T!TicketsAssumption

F == INSTANCE Fleet WITH
        Sites <- {s1, s2}, Redeemers <- {"q", "r"}, Persons <- {ada, bob}, ExpiresAt <- 1, MaxTime <- 1

ASSUME FleetInstance == F!FleetAssumption

S == INSTANCE Soak WITH
        Bodies <- SoakBodies, ContentHash <- SoakHash, EmptyBody <- <<>>, BlobBodies <- {},
        Writers <- Clients, Replicas <- 2, OpsPerWriter <- 1, LifePerWriter <- 1,
        MaxRetries <- 1, Cap <- 3, MaxFaults <- 2, store <- keys

fleetVars == <<token, attempt, bindings, clashed, now>>
soakVars == <<keys, me, ops, life, acked, deleted, unanswered, ids, faults>>

NoFleet == token = None /\ attempt = None /\ bindings = None /\ clashed = None /\ now = None
NoTickets == /\ \A b \in Boards : conn[b] = Two(GitLab, Asana)[b]
             /\ \A b \in Boards, u \in T!Uids : ~remote[b][u].closed
             /\ \A k \in T!TicketKeys : store[k] = None

MCInit == /\ Init /\ T!Init /\ S!Init
          /\ \/ part \in {"gc", "soak"} /\ NoFleet /\ NoTickets
             \/ part = "tickets" /\ NoFleet
             \/ part = "fleet" /\ F!Init /\ NoTickets

MCNext == /\ UNCHANGED part
          /\ \/ part = "gc"      /\ Next   /\ UNCHANGED <<ticketVars, fleetVars, soakVars>>
             \/ part = "tickets" /\ T!Next /\ UNCHANGED <<vars, fleetVars, soakVars>>
             \/ part = "fleet"   /\ F!Next /\ UNCHANGED <<vars, ticketVars, soakVars>>
             \/ part = "soak"    /\ S!Next /\ UNCHANGED <<vars, ticketVars, fleetVars>>

MCSpec == MCInit /\ [][MCNext]_<<vars, part, ticketVars, fleetVars, soakVars>>

\* The oracle raises no alarm over a store that plans every write correctly, however
\* the writers interleave and whichever answers are lost to failing replicas: a
\* resent write is never counted as a lost, repeated or stale one.  The one thing it
\* cannot tell is a unique key's delete that every replica failed to answer.
OracleIsSilent == part = "soak" => S!OracleIsSilent

\* "A token can't be redeemed twice on one store": of the attempts made at one site at
\* most one is accepted, however reads, the clock, writes and syncs interleave; two sites
\* may each accept one while apart, and sync then lets neither pass for the other; and
\* two accounts are never bound under one id (redeem, escape, binding_id).
LinksAreSound == part = "fleet" => F!LinksAreSound
=============================================================================
