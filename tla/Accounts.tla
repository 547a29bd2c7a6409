------------------------------ MODULE Accounts ------------------------------
(***************************************************************************)
(* Linked accounts of a guest over PostgreSQL: the orchestrator, which      *)
(* flips loyalty accounts from discovered to linked and records each link   *)
(* as a provider connection, and the connections themselves, one of which   *)
(* imports hotel reservations as stays.  All links of a request commit at   *)
(* once; what they are about was read before, without a lock.               *)
(*                                                                         *)
(* Connections are created with fresh ids, so that they never conflict.     *)
(* Stays are keyed by their external reference and change owner when        *)
(* another connection imports the same reservations.                        *)
(***************************************************************************)
EXTENDS Integers, FiniteSets, FiniteSetsExt

CONSTANTS
    Requests,       \* the HTTP requests that arrive, each handled once
    Accounts,       \* the guest's loyalty accounts, numbered in primary-key order
    SeedLinked,     \* those the seed creates linked; the others are discovered
    Refs,           \* the reservations of the booking connector, in its order
    Booking,        \* the connector that has reservations
    Unknown,        \* a provider, guest or connection id that does not exist
    NoRequest       \* holder of a free row

Providers == Accounts \cup {Booking}
NoConnection == <<NoRequest, Booking>>

ASSUME AccountsAssumption ==
    /\ Accounts \subseteq Nat /\ IsFiniteSet(Accounts)
    /\ Refs \subseteq Nat /\ IsFiniteSet(Refs)
    /\ SeedLinked \subseteq Accounts
    /\ Accounts \cap Refs = {}
    /\ Booking \notin Accounts
    /\ Unknown \notin Providers
    /\ NoRequest \notin Requests

VARIABLES
    linked,         \* accounts with committed linked = true, discovered = false
    connections,    \* committed provider_connections: the request and the provider
    recorded,       \* all that were ever committed, unlinked ones included
    stays,          \* the committed imported stays: owning connection, inserting request
    registry,       \* the process's connector registry; of the built-in ones only Booking,
                    \* the others import nothing and are like an account's
    holder,         \* holder[x]: the request whose open transaction wrote row x
    pc,             \* pc[r]: where request r stands
    tx              \* tx[r]: what request r has read and written, see CleanTx

db == <<linked, connections, recorded, stays>>
vars == <<db, registry, holder, pc, tx>>

Rows == Accounts \cup Refs
Discovered == Accounts \ linked

-----------------------------------------------------------------------------
(* Transactions *)

\* op: the operation; about: accounts to link, or to look up; seen: accounts linked
\* when the request arrived; pending: rows it has still to write, in ascending order
\* except for an unlink; dropped: stays it deleted; inserts: stays it did not find;
\* flips, moves: accounts and stays it wrote; made: connections it inserted; gone:
\* the connection it deletes.
CleanTx == [op |-> "none", about |-> {}, seen |-> {}, pending |-> {}, dropped |-> {},
            inserts |-> {}, flips |-> {}, moves |-> {}, made |-> {}, gone |-> NoConnection]

InFlight == {"check", "select", "flush", "connect", "clear", "lookup", "upsert",
             "delete", "setnull", "commit"}
Answered == {"done", "refused", "failed"}

\* Variant: rows are written in no particular order.
NextRow_Any(r) == tx[r].pending

\* The row a request writes next: the least one of a flush or an import, any one of
\* a SET NULL.
NextRow(r) == IF pc[r] = "setnull" THEN tx[r].pending ELSE {Min(tx[r].pending)}

Wanted(r) == IF pc[r] \in {"flush", "upsert", "setnull"} THEN NextRow(r) ELSE {}

BlockedBy(r, q) == q # r /\ \E x \in Wanted(r) : holder[x] = q

\* Requests that wait for one another in a circle.
Deadlock(S) == S # {} /\ \A r \in S : \E q \in S : BlockedBy(r, q)

\* COMMIT and ROLLBACK both release what the transaction locked.
Unlock(r) == holder' = [x \in Rows |-> IF holder[x] = r THEN NoRequest ELSE holder[x]]

MayLock(r, x) == holder[x] \in {NoRequest, r}
Lock(r, x) == holder' = [holder EXCEPT ![x] = r]

\* Variant: accounts that were flushed stay linked.
Rollback_KeepsFlips(r, answer) ==
    /\ pc' = [pc EXCEPT ![r] = answer]
    /\ tx' = [tx EXCEPT ![r] = CleanTx]
    /\ linked' = linked \cup tx[r].flips
    /\ Unlock(r)
    /\ UNCHANGED <<connections, recorded, stays, registry>>

\* The exception handler of get_session.  The registry is the process's, and stays.
Rollback(r, answer) ==
    /\ pc' = [pc EXCEPT ![r] = answer]
    /\ tx' = [tx EXCEPT ![r] = CleanTx]
    /\ Unlock(r)
    /\ UNCHANGED <<db, registry>>

-----------------------------------------------------------------------------
Init ==
    /\ linked = SeedLinked
    /\ connections = {}
    /\ recorded = {}
    /\ stays = [x \in {} |-> NoConnection]
    /\ registry = {Booking}
    /\ holder = [x \in Rows |-> NoRequest]
    /\ pc = [r \in Requests |-> "idle"]
    /\ tx = [r \in Requests |-> CleanTx]

Arrive(r, op, about, next) ==
    /\ pc[r] = "idle"
    /\ tx' = [tx EXCEPT ![r].op = op, ![r].about = about, ![r].seen = linked]
    /\ pc' = [pc EXCEPT ![r] = next]
    /\ UNCHANGED <<db, registry, holder>>

\* POST /orchestrator/link; an unknown guest or provider is a 404.
ReceiveLink(r) ==
    \/ \E a \in Accounts : Arrive(r, "link", {a}, "check")
    \/ Arrive(r, "link", {}, "refused")

\* get_account: an account that is linked is a 409.
CheckAccount(r) ==
    /\ pc[r] = "check"
    /\ IF tx[r].about \subseteq linked
       THEN Rollback(r, "refused")
       ELSE /\ pc' = [pc EXCEPT ![r] = "select"]
            /\ UNCHANGED <<db, registry, holder, tx>>

\* POST /orchestrator/auto-scan: the snapshot of what there is to link.
ReceiveScan(r) == Arrive(r, "scan", Discovered, "select")

\* link_account and link_all_discovered read the rows again; of those already
\* linked nothing changes, and nothing is written.
Select(r) ==
    /\ pc[r] = "select"
    /\ LET rows == IF tx[r].op = "scan" THEN Discovered ELSE tx[r].about \cap Discovered IN
       /\ tx' = [tx EXCEPT ![r].pending = rows]
       /\ pc' = [pc EXCEPT ![r] = IF rows = {} THEN "connect" ELSE "flush"]
    /\ UNCHANGED <<db, registry, holder>>

\* One UPDATE of the flush; it waits for another transaction that wrote the row.
Flip(r) ==
    /\ pc[r] = "flush"
    /\ \E a \in NextRow(r) :
         /\ MayLock(r, a)
         /\ Lock(r, a)
         /\ tx' = [tx EXCEPT ![r].pending = @ \ {a}, ![r].flips = @ \cup {a}]
         /\ pc' = [pc EXCEPT ![r] = IF tx[r].pending = {a} THEN "connect" ELSE @]
    /\ UNCHANGED <<db, registry>>

\* _create_sandbox_connection for each account of the first SELECT, whoever linked
\* it in the end; the connectors they need are registered on first use.
Connect(r) ==
    /\ pc[r] = "connect"
    /\ registry' = registry \cup tx[r].about
    /\ tx' = [tx EXCEPT ![r].made = {<<r, a>> : a \in tx[r].about}]
    /\ pc' = [pc EXCEPT ![r] = "commit"]
    /\ UNCHANGED <<db, holder>>

\* POST /connections/{provider}/link, with or without the scope import_bookings: a
\* provider that is not registered is a 404.
ReceiveImport(r) ==
    /\ pc[r] = "idle"
    /\ \/ \E p \in registry, import \in BOOLEAN :
            /\ tx' = [tx EXCEPT ![r].op = "import", ![r].made = {<<r, p>>},
                                ![r].pending = IF p = Booking /\ import THEN Refs ELSE {}]
            /\ pc' = [pc EXCEPT ![r] = IF import THEN "clear" ELSE "commit"]
       \/ /\ pc' = [pc EXCEPT ![r] = "refused"]
          /\ UNCHANGED tx
    /\ UNCHANGED <<db, registry, holder>>

\* Variant: what an earlier connection imported is cleared.
Clear_ByProvider(r) ==
    /\ pc[r] = "clear"
    /\ tx' = [tx EXCEPT ![r].dropped = DOMAIN stays]
    /\ pc' = [pc EXCEPT ![r] = IF tx[r].pending = {} THEN "commit" ELSE "lookup"]
    /\ UNCHANGED <<db, registry, holder>>

\* clear_imported_stays of the connection just made.
Clear(r) ==
    /\ pc[r] = "clear"
    /\ tx' = [tx EXCEPT ![r].dropped = {x \in DOMAIN stays : stays[x].owner \in tx[r].made}]
    /\ pc' = [pc EXCEPT ![r] = IF tx[r].pending = {} THEN "commit" ELSE "lookup"]
    /\ UNCHANGED <<db, registry, holder>>

\* The SELECT of upsert_imported_stay for the next reservation.
Lookup(r) ==
    /\ pc[r] = "lookup"
    /\ tx' = [tx EXCEPT ![r].inserts = @ \cup (NextRow(r) \ (DOMAIN stays \ tx[r].dropped))]
    /\ pc' = [pc EXCEPT ![r] = "upsert"]
    /\ UNCHANGED <<db, registry, holder>>

\* Variant: an import commits each stay by itself.
Upsert_Committed(r) ==
    /\ pc[r] = "upsert"
    /\ \E x \in NextRow(r) :
         /\ MayLock(r, x)
         /\ tx' = [tx EXCEPT ![r].pending = @ \ {x}, ![r].moves = @ \cup {x}]
         /\ pc' = [pc EXCEPT ![r] = IF tx[r].pending = {x} THEN "commit" ELSE "lookup"]
         /\ stays' = IF x \in DOMAIN stays
                     THEN [stays EXCEPT ![x].owner = <<r, Booking>>] ELSE stays
    /\ UNCHANGED <<linked, connections, recorded, registry, holder>>

\* Its flush: an UPDATE of the stay that was found, or an INSERT, which waits for
\* another one of the same reservation and fails once that has committed.
Upsert(r) ==
    /\ pc[r] = "upsert"
    /\ \E x \in NextRow(r) :
         /\ MayLock(r, x)
         /\ \/ /\ x \in tx[r].inserts \cap (DOMAIN stays \ tx[r].dropped)
               /\ Rollback(r, "failed")
            \/ /\ x \notin tx[r].inserts \cap (DOMAIN stays \ tx[r].dropped)
               /\ Lock(r, x)
               /\ tx' = [tx EXCEPT ![r].pending = @ \ {x}, ![r].moves = @ \cup {x}]
               /\ pc' = [pc EXCEPT ![r] = IF tx[r].pending = {x} THEN "commit" ELSE "lookup"]
               /\ UNCHANGED <<db, registry>>

\* DELETE /connections/{id}, of any connection there ever was.
ReceiveUnlink(r) ==
    /\ pc[r] = "idle"
    /\ \E c \in recorded :
         IF c \in connections
         THEN /\ tx' = [tx EXCEPT ![r].op = "unlink", ![r].gone = c]
              /\ pc' = [pc EXCEPT ![r] = "delete"]
         ELSE /\ pc' = [pc EXCEPT ![r] = "refused"]
              /\ UNCHANGED tx
    /\ UNCHANGED <<db, registry, holder>>

\* The DELETE waits for another one of the same row, and then finds nothing.
Delete(r) ==
    /\ pc[r] = "delete"
    /\ \A q \in Requests \ {r} :
           tx[q].gone = tx[r].gone => pc[q] \notin {"setnull", "commit"}
    /\ LET mine == {x \in DOMAIN stays : stays[x].owner = tx[r].gone} IN
       /\ tx' = [tx EXCEPT ![r].pending = mine]
       /\ pc' = [pc EXCEPT ![r] = IF mine = {} THEN "commit" ELSE "setnull"]
    /\ UNCHANGED <<db, registry, holder>>

\* ON DELETE SET NULL, one stay after the other; a stay that another import has
\* taken meanwhile is left alone.
SetNull(r) ==
    /\ pc[r] = "setnull"
    /\ \E x \in NextRow(r) :
         /\ MayLock(r, x)
         /\ Lock(r, x)
         /\ tx' = [tx EXCEPT ![r].pending = @ \ {x},
                             ![r].moves = IF stays[x].owner = tx[r].gone THEN @ \cup {x} ELSE @]
         /\ pc' = [pc EXCEPT ![r] = IF tx[r].pending = {x} THEN "commit" ELSE @]
    /\ UNCHANGED <<db, registry>>

\* The stays as the transaction leaves them.
StaysAfter(r) ==
    [x \in (DOMAIN stays \ tx[r].dropped) \cup tx[r].moves |->
        [owner |-> IF x \notin tx[r].moves THEN stays[x].owner
                   ELSE IF tx[r].op = "unlink" THEN NoConnection ELSE <<r, Booking>>,
         born  |-> IF x \in tx[r].inserts THEN r ELSE stays[x].born]]

\* Everything the transaction wrote becomes visible at once.
Commit(r) ==
    /\ pc[r] = "commit"
    /\ linked' = linked \cup tx[r].flips
    /\ connections' = (connections \cup tx[r].made) \ {tx[r].gone}
    /\ recorded' = recorded \cup tx[r].made
    /\ stays' = StaysAfter(r)
    /\ pc' = [pc EXCEPT ![r] = "done"]
    /\ Unlock(r)
    /\ UNCHANGED <<registry, tx>>

\* PostgreSQL ends a deadlock by failing one of those waiting in it.
DeadlockVictim(r) ==
    /\ \E S \in SUBSET Requests : r \in S /\ Deadlock(S)
    /\ Rollback(r, "failed")

\* A lost connection, a client gone, an exception.
Fail(r) ==
    /\ pc[r] \in InFlight
    /\ Rollback(r, "failed")

Proceed(r) ==
    \/ CheckAccount(r) \/ Select(r) \/ Flip(r) \/ Connect(r)
    \/ Clear(r) \/ Lookup(r) \/ Upsert(r)
    \/ Delete(r) \/ SetNull(r)
    \/ Commit(r) \/ DeadlockVictim(r)

Next ==
    \E r \in Requests :
        \/ ReceiveLink(r) \/ ReceiveScan(r) \/ ReceiveImport(r) \/ ReceiveUnlink(r)
        \/ Proceed(r) \/ Fail(r)

Spec == Init /\ [][Next]_vars

-----------------------------------------------------------------------------
(* Properties *)

\* The orchestrator's records of account a.
Linkings(a) == {c \in recorded : c[2] = a /\ tx[c[1]].op \in {"link", "scan"}}

\* An account that was linked has a connection to show for it, and an account with
\* one is linked, also when a link and a scan cross and one of them fails.  It is
\* recorded twice only by requests that overlap: one that arrives when the account is
\* linked records nothing for it.
LinkedIffRecorded ==
    /\ \A a \in Accounts \ SeedLinked : a \in linked <=> Linkings(a) # {}
    /\ \A a \in Accounts : \A c \in Linkings(a) : a \notin tx[c[1]].seen

\* Imports and unlinks that overlap never split the reservations of the connector:
\* all of them are stays of one connection that exists, or of none.
ImportsMoveTogether ==
    \A x \in DOMAIN stays, y \in Refs :
        /\ y \in DOMAIN stays /\ stays[x].owner = stays[y].owner
        /\ stays[x].owner \in connections \cup {NoConnection}

\* An imported stay is kept, with the check-ins, keys and orders that hang on it: a
\* later import updates it and an unlink frees it, and neither replaces the row.
StaysKept ==
    [][\A x \in DOMAIN stays : x \in DOMAIN stays' /\ stays'[x].born = stays[x].born]_vars

\* Requests lock in one order, so that they can block each other in a circle only
\* when one of them unlinks a connection with stays.
DeadlockNeedsUnlink ==
    \A S \in SUBSET Requests : Deadlock(S) => \E r \in S : tx[r].op = "unlink"

=============================================================================
