-------------------------------- MODULE Fleet --------------------------------
(***************************************************************************)
(* One-time link tokens and the ids of fleet records (gonzalo-domain:       *)
(* fleet/link.rs, fleet/keys.rs, fleet/records.rs).  A person presents a    *)
(* secret at one of several synced sites; the token is read, redeemed and   *)
(* written back on the condition that it is still the revision read, and    *)
(* the account is then bound under an id made of its escaped parts.         *)
(*                                                                         *)
(* A token is minted and then consumed at most once in its life at a site,  *)
(* so the consumption it carries (None: unredeemed) stands for its revision. *)
(* A character is a string of length one and a text a sequence of them.     *)
(***************************************************************************)
EXTENDS Integers, Sequences, FiniteSets, SequencesExt

CONSTANTS None,
          Sites,            \* stores that sync with one another
          Redeemers,        \* attempts to redeem the token
          Accounts,         \* [authenticator, name, subject]: name is an issuer's or other's
          Persons,
          ExpiresAt,
          MaxTime           \* bound: the clock

VARIABLES token,            \* site -> the consumption of the token stored there, or None
          attempt,          \* redeemer -> where it is and what it holds
          bindings,         \* the bindings stored: <<id, account>>
          clashed,          \* history: sync has reported the token as a conflict
          now

vars == <<token, attempt, bindings, clashed, now>>

(***************************************************************************)
(* Ids                                                                     *)
(***************************************************************************)

Replace(text, char, by) ==
    FlattenSeq([i \in 1 .. Len(text) |-> IF text[i] = char THEN by ELSE <<text[i]>>])

escape(text) == Replace(Replace(text, "%", <<"%", "2", "5">>), ":", <<"%", "3", "A">>)

authenticator_segment(account) ==
    IF account.authenticator \in {"oidc", "other"}
    THEN <<account.authenticator, ":">> \o escape(account.name)
    ELSE <<account.authenticator>>

binding_id(account) == authenticator_segment(account) \o <<":">> \o escape(account.subject)

(***************************************************************************)
(* Redeeming                                                               *)
(***************************************************************************)

Init == /\ token = [s \in Sites |-> None]
        /\ \E site \in [Redeemers -> Sites], account \in [Redeemers -> Accounts],
              person \in [Redeemers -> Persons], intended \in Persons \cup {None},
              secret \in [Redeemers -> BOOLEAN] :
             attempt = [r \in Redeemers |->
                 [pc |-> "read", site |-> site[r], account |-> account[r], person |-> person[r],
                  intended |-> intended, secret |-> secret[r], read |-> None, wrote |-> None]]
        /\ bindings = {} /\ clashed = FALSE /\ now = 0

\* The token of this link is fetched.  The secret given with it may be another's.
Fetch(r) ==
    /\ attempt[r].pc = "read"
    /\ attempt' = [attempt EXCEPT ![r].pc = "redeem", ![r].read = token[attempt[r].site]]
    /\ UNCHANGED <<token, bindings, clashed, now>>

\* LinkToken::redeem, its checks in order.
redeem(me) ==
    CASE ~me.secret          -> "WrongSecret"
      [] me.secret /\ now >= ExpiresAt -> "Expired"
      [] me.secret /\ now < ExpiresAt  ->
            IF me.read # None THEN "AlreadyConsumed"
            ELSE IF me.intended \notin {None, me.person} THEN "PersonMismatch" ELSE "Ok"

Redeem(r) ==
    LET me == attempt[r] IN
    /\ me.pc = "redeem"
    /\ IF redeem(me) = "Ok"
       THEN attempt' = [attempt EXCEPT ![r].pc = "put",
               ![r].wrote = [person |-> me.person, binding |-> binding_id(me.account), at |-> now]]
       ELSE attempt' = [attempt EXCEPT ![r].pc = redeem(me)]
    /\ UNCHANGED <<token, bindings, clashed, now>>

\* Store::put with the revision read: a redemption in between is a conflict.
Put(r) ==
    LET me == attempt[r] IN
    /\ me.pc = "put"
    /\ IF token[me.site] = me.read
       THEN /\ token' = [token EXCEPT ![me.site] = me.wrote]
            /\ attempt' = [attempt EXCEPT ![r].pc = "bind"]
       ELSE attempt' = [attempt EXCEPT ![r].pc = "Conflict"] /\ UNCHANGED token
    /\ UNCHANGED <<bindings, clashed, now>>

\* The account's binding is stored under its id.
Bind(r) ==
    /\ attempt[r].pc = "bind"
    /\ bindings' = bindings \cup {<<binding_id(attempt[r].account), attempt[r].account>>}
    /\ attempt' = [attempt EXCEPT ![r].pc = "bound"]
    /\ UNCHANGED <<token, clashed, now>>

\* Mutant: two redemptions are settled like any other edit, for the first site.
SyncSettles(s, t) ==
    /\ token[s] # token[t]
    /\ token' = [token EXCEPT ![t] = IF token[s] = None THEN token[t] ELSE token[s],
                              ![s] = IF token[s] = None THEN token[t] ELSE token[s]]
    /\ clashed' = clashed
    /\ UNCHANGED <<attempt, bindings, now>>

\* Sync of an opaque record: a redemption fast-forwards a peer that still holds the token
\* it was read from; two redemptions are a conflict that is reported and left alone.
Sync(s, t) ==
    /\ token[s] # token[t]
    /\ IF token[s] = None \/ token[t] = None
       THEN /\ token' = [token EXCEPT ![t] = IF token[s] = None THEN token[t] ELSE token[s],
                                      ![s] = IF token[s] = None THEN token[t] ELSE token[s]]
            /\ clashed' = clashed
       ELSE clashed' = TRUE /\ UNCHANGED token
    /\ UNCHANGED <<attempt, bindings, now>>

Tick == now < MaxTime /\ now' = now + 1 /\ UNCHANGED <<token, attempt, bindings, clashed>>

Next == \/ \E r \in Redeemers : Fetch(r) \/ Redeem(r) \/ Put(r) \/ Bind(r)
        \/ \E s, t \in Sites : s # t /\ Sync(s, t)
        \/ Tick

Spec == Init /\ [][Next]_vars

(***************************************************************************)
(* Properties                                                              *)
(***************************************************************************)

Accepted == {r \in Redeemers : attempt[r].pc \in {"bind", "bound"}}

\* "A token can't be redeemed twice on one store": of the attempts made at one site at most
\* one is accepted, however their reads, the clock, the writes and the syncs interleave.
RedeemedOncePerSite ==
    \A q, r \in Accepted : attempt[q].site = attempt[r].site => q = r

\* Two sites may each accept a redemption while apart; sync then never lets one of them
\* pass for the other: every accepted redemption is still what its site's token records.
AcceptedIsRecorded ==
    \A r \in Accepted : token[attempt[r].site] = attempt[r].wrote

\* Ids are unambiguous: two accounts are never bound under one id, whatever separators and
\* percent signs their issuers and subjects contain (escape, binding_id).
IdsTellAccountsApart ==
    \A b, c \in bindings : b[1] = c[1] => b[2] = c[2]

\* A link token makes one binding: it is redeemed once at a site, no accepted redemption
\* is overwritten by sync, and the ids it binds tell accounts apart.
LinksAreSound == RedeemedOncePerSite /\ AcceptedIsRecorded /\ IdsTellAccountsApart

(***************************************************************************)
(* The inductive invariant.  An attempt that goes on to write read the      *)
(* token unredeemed, so of two only one finds it so when it writes.         *)
(***************************************************************************)

Consumption == [person : Persons, binding : {binding_id(a) : a \in Accounts}, at : 0 .. MaxTime]
Attempt == [pc : {"read", "redeem", "put", "bind", "bound", "WrongSecret", "Expired",
                  "AlreadyConsumed", "PersonMismatch", "Conflict"},
            site : Sites, account : Accounts, person : Persons, intended : Persons \cup {None},
            secret : BOOLEAN, read : Consumption \cup {None}, wrote : Consumption \cup {None}]

\* What the constants are; the modules that instantiate this one assume it.
FleetAssumption == MaxTime \in Nat /\ ExpiresAt \in Nat /\ None \notin Consumption

TypeOK == /\ token \in [Sites -> Consumption \cup {None}]
          /\ attempt \in [Redeemers -> Attempt]
          /\ now \in 0 .. MaxTime

AttemptsSound ==
    \A r \in Redeemers : /\ attempt[r].pc = "put" => attempt[r].read = None
                         /\ attempt[r].pc \in {"put", "bind", "bound"} => attempt[r].wrote # None

LinkInv == TypeOK /\ AttemptsSound /\ RedeemedOncePerSite /\ AcceptedIsRecorded
=============================================================================
