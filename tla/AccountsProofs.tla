--------------------------- MODULE AccountsProofs ---------------------------
(***************************************************************************)
(* Proofs about Accounts, for any requests, accounts and reservations: an   *)
(* account is linked exactly if a connection records it, imports move the   *)
(* reservations together and keep their rows, and requests wait for one     *)
(* another in a circle only when one of them unlinks.                       *)
(***************************************************************************)
EXTENDS Accounts, SetFacts, TLAPS

-----------------------------------------------------------------------------
(* The invariant *)

Connections == Requests \X Providers
Operations == {"none", "link", "scan", "import", "unlink"}
Stages == {"idle"} \cup InFlight \cup Answered
Tx == [op : Operations, about : SUBSET Accounts, seen : SUBSET Accounts, pending : SUBSET Rows,
       dropped : SUBSET Refs, inserts : SUBSET Refs, flips : SUBSET Accounts,
       moves : SUBSET Refs, made : SUBSET Connections, gone : Connections \cup {NoConnection}]
Stay == [owner : Connections \cup {NoConnection}, born : Requests]

TypeOK ==
    /\ linked \subseteq Accounts
    /\ recorded \subseteq Connections /\ connections \subseteq recorded
    /\ DOMAIN stays \subseteq Refs /\ stays \in [DOMAIN stays -> Stay]
    /\ registry \subseteq Providers
    /\ holder \in [Rows -> Requests \cup {NoRequest}]
    /\ pc \in [Requests -> Stages]
    /\ tx \in [Requests -> Tx]

\* Connections are recorded by requests that are over.
RecordsOver == \A c \in recorded : pc[c[1]] = "done"

\* Where a request stands fits its operation.
Doing(r) ==
    LET op == tx[r].op IN
    /\ pc[r] = "idle" => tx[r] = CleanTx
    /\ pc[r] = "check" => op = "link"
    /\ pc[r] \in {"select", "flush", "connect"} => op \in {"link", "scan"}
    /\ pc[r] \in {"clear", "lookup", "upsert"} => op = "import"
    /\ pc[r] \in {"delete", "setnull"} => op = "unlink"
    /\ pc[r] = "commit" => op # "none"

\* A request that links: what it is about was not linked when it arrived, and is linked
\* by now, flipped, or still to be flipped.
Linking(r) ==
    LET t == tx[r] IN
    /\ t.dropped = {} /\ t.inserts = {} /\ t.moves = {} /\ t.gone = NoConnection
    /\ t.seen \subseteq linked
    /\ t.op = "scan" => t.about = Accounts \ t.seen
    /\ t.op = "link" => \A a, b \in t.about : a = b
    /\ pc[r] # "check" => t.about \cap t.seen = {}
    /\ pc[r] \in {"check", "select"} => t.flips = {} /\ t.pending = {}
    /\ pc[r] \in {"flush", "connect", "commit"} =>
           /\ t.flips \cup t.pending \subseteq t.about
           /\ t.about \subseteq linked \cup t.flips \cup t.pending
    /\ pc[r] = "flush" <=> t.pending # {}
    /\ t.made = IF pc[r] = "commit" THEN {<<r, a>> : a \in t.about} ELSE {}

\* A request that imports: it moves all reservations or none, holds those it has moved,
\* and inserts those that are no stays.
Importing(r) ==
    LET t == tx[r]
        known == t.inserts \cup DOMAIN stays
    IN
    /\ t.dropped = {} /\ t.flips = {} /\ t.gone = NoConnection
    /\ \E p \in Providers : t.made = {<<r, p>>}
    /\ t.moves \cup t.pending \in {{}, Refs} /\ t.moves \cap t.pending = {}
    /\ t.moves \cup t.pending # {} => t.made = {<<r, Booking>>}
    /\ \A x \in t.moves : holder[x] = r
    /\ pc[r] = "clear" => t.moves = {} /\ t.inserts = {}
    /\ pc[r] \in {"lookup", "upsert"} => t.pending # {}
    /\ pc[r] = "commit" => t.pending = {}
    /\ t.moves \subseteq known /\ t.moves \cap t.inserts \cap DOMAIN stays = {}
    /\ pc[r] # "upsert" => t.inserts \subseteq t.moves
    /\ pc[r] = "upsert" => t.inserts \subseteq t.moves \cup NextRow(r) /\ NextRow(r) \subseteq known

\* A request that unlinks: once it has written a stay, all stays are of the connection
\* that goes, and it holds those it has written; once it has passed one over, none is.
Unlinking(r) ==
    LET t == tx[r]
        theirs == {x \in DOMAIN stays : stays[x].owner = t.gone}
    IN
    /\ t.dropped = {} /\ t.flips = {} /\ t.inserts = {} /\ t.made = {}
    /\ t.gone \in recorded
    /\ \A x \in t.moves : holder[x] = r
    /\ pc[r] = "delete" => t.moves = {} /\ t.pending = {}
    /\ pc[r] = "setnull" <=> t.pending # {}
    /\ t.pending # {} => DOMAIN stays = Refs /\ t.pending \subseteq Refs
    /\ t.moves # {} => theirs = Refs /\ t.moves = Refs \ t.pending
    /\ t.moves = {} /\ pc[r] # "delete" /\ t.pending # Refs => theirs = {}

\* Rows are held by open transactions, for what they wrote.
Holding(r) ==
    \A x \in Rows : holder[x] = r =>
        /\ pc[r] \in InFlight
        /\ tx[r].op # "unlink" => x \in tx[r].flips \cup tx[r].moves

\* All but an unlink write their rows in ascending order.
Ascending(r) ==
    tx[r].op # "unlink" =>
        \A x \in tx[r].flips \cup tx[r].moves, y \in tx[r].pending : x < y

SessionOK(r) ==
    /\ Doing(r) /\ Holding(r)
    /\ pc[r] \in InFlight =>
           /\ tx[r].op \in {"link", "scan"} => Linking(r)
           /\ tx[r].op = "import" => Importing(r)
           /\ tx[r].op = "unlink" => Unlinking(r)
           /\ Ascending(r)

Inv ==
    /\ TypeOK /\ RecordsOver
    /\ LinkedIffRecorded /\ ImportsMoveTogether
    /\ \A r \in Requests : SessionOK(r)

-----------------------------------------------------------------------------
LEMMA CleanType == CleanTx \in Tx
BY DEF CleanTx, Tx, Operations

\* No request is behind NoConnection.
LEMMA NoSuchConnection == NoConnection \notin Connections
BY AccountsAssumption DEF Connections, NoConnection

LEMMA InitInv == Init => Inv
<1> SUFFICES ASSUME Init PROVE Inv
  OBVIOUS
<1>1. TypeOK
  BY CleanType, AccountsAssumption DEF Init, TypeOK, Stages, Providers
<1>2. LinkedIffRecorded /\ ImportsMoveTogether /\ RecordsOver
  BY DEF Init, LinkedIffRecorded, Linkings, ImportsMoveTogether, RecordsOver
<1>3. ASSUME NEW r \in Requests PROVE SessionOK(r)
  BY AccountsAssumption DEF Init, SessionOK, Doing, Holding, InFlight, Rows
<1> QED
  BY <1>1, <1>2, <1>3 DEF Inv

\* A request that a step does not touch keeps its invariant, as long as nothing commits.
LEMMA Undisturbed ==
    ASSUME Inv, NEW q \in Requests, UNCHANGED db, pc'[q] = pc[q], tx'[q] = tx[q],
           \A x \in Rows : holder'[x] = q <=> holder[x] = q
    PROVE  SessionOK(q)'
<1>1. SessionOK(q) /\ tx[q].moves \subseteq Rows
  BY DEF Inv, TypeOK, Tx, Rows
<1>2. linked' = linked /\ recorded' = recorded /\ stays' = stays
  BY DEF db
<1>3. Doing(q)' /\ Ascending(q) = Ascending(q)' /\ Holding(q)'
  BY <1>1 DEF SessionOK, Doing, Ascending, Holding
<1>4. Linking(q) => Linking(q)'
  BY <1>2 DEF Linking
<1>5. Importing(q) => Importing(q)'
  BY <1>1, <1>2 DEF Importing, NextRow
<1>6. Unlinking(q) => Unlinking(q)'
  BY <1>1, <1>2 DEF Unlinking
<1> QED
  BY <1>1, <1>3, <1>4, <1>5, <1>6 DEF SessionOK

\* A step of r that commits nothing has to account for r only.
LEMMA QuietStep ==
    ASSUME Inv, NEW r \in Requests, NEW stage \in Stages, NEW t \in Tx,
           pc[r] # "done", UNCHANGED db,
           pc' = [pc EXCEPT ![r] = stage], tx' = [tx EXCEPT ![r] = t],
           registry' \subseteq Providers,
           holder' \in [Rows -> Requests \cup {NoRequest}],
           \A q \in Requests \ {r} : \A x \in Rows : holder'[x] = q <=> holder[x] = q,
           pc'[r] = stage /\ tx'[r] = t => SessionOK(r)'
    PROVE  Inv'
<1>1. /\ pc'[r] = stage /\ tx'[r] = t
      /\ \A q \in Requests \ {r} : pc'[q] = pc[q] /\ tx'[q] = tx[q]
  BY DEF Inv, TypeOK
<1>2. TypeOK'
  <2>1. pc' \in [Requests -> Stages] /\ tx' \in [Requests -> Tx]
    BY DEF Inv, TypeOK
  <2> QED
    BY <2>1 DEF Inv, TypeOK, db
<1>3. \A c \in recorded : c[1] \in Requests /\ c[1] # r
  BY DEF Inv, RecordsOver, TypeOK, Connections
<1>4. RecordsOver'
  BY <1>1, <1>3 DEF Inv, RecordsOver, db
<1>5. LinkedIffRecorded'
  <2>1. linked' = linked /\ recorded' = recorded /\ \A c \in recorded : tx'[c[1]] = tx[c[1]]
    BY <1>1, <1>3 DEF db
  <2>2. \A a \in Accounts : Linkings(a)' = Linkings(a)
    BY <2>1 DEF Linkings
  <2>3. \A a \in Accounts : \A c \in Linkings(a) : c \in recorded
    BY DEF Linkings
  <2> QED
    BY <2>1, <2>2, <2>3 DEF Inv, LinkedIffRecorded
<1>6. ImportsMoveTogether'
  BY DEF Inv, ImportsMoveTogether, db
<1>7. ASSUME NEW q \in Requests PROVE SessionOK(q)'
  BY <1>1, Undisturbed
<1> QED
  BY <1>2, <1>4, <1>5, <1>6, <1>7 DEF Inv

\* A row lock changes hands between its owner and nobody.
LEMMA LockRow ==
    ASSUME TypeOK, NEW r \in Requests, NEW x \in Rows, MayLock(r, x), Lock(r, x)
    PROVE  /\ holder' \in [Rows -> Requests \cup {NoRequest}]
           /\ \A q \in Requests \ {r} : \A y \in Rows : holder'[y] = q <=> holder[y] = q
           /\ \A y \in Rows : holder'[y] = r <=> y = x \/ holder[y] = r
BY AccountsAssumption DEF TypeOK, MayLock, Lock

LEMMA UnlockRows ==
    ASSUME TypeOK, NEW r \in Requests, Unlock(r)
    PROVE  /\ holder' \in [Rows -> Requests \cup {NoRequest}]
           /\ \A q \in Requests \ {r} : \A y \in Rows : holder'[y] = q <=> holder[y] = q
           /\ \A y \in Rows : holder'[y] # r
BY AccountsAssumption DEF TypeOK, Unlock

\* ROLLBACK leaves nothing of the request.
LEMMA RollbackStep ==
    ASSUME Inv, NEW r \in Requests, NEW answer \in {"refused", "failed"},
           pc[r] \in InFlight, Rollback(r, answer)
    PROVE  Inv'
<1>1. pc[r] # "done" /\ answer \in Stages /\ answer \notin InFlight
  BY DEF InFlight, Stages, Answered
<1>2. pc'[r] = answer /\ tx'[r] = CleanTx => SessionOK(r)'
  BY <1>1, UnlockRows DEF Inv, Rollback, SessionOK, Doing, Holding
<1> QED
  BY <1>1, <1>2, CleanType, UnlockRows, QuietStep DEF Inv, TypeOK, Rollback

-----------------------------------------------------------------------------
(* The steps *)

\* A link or a scan notes what is linked when it arrives.
LEMMA ArriveStep ==
    ASSUME Inv, NEW r \in Requests, NEW op \in {"link", "scan"}, NEW about \in SUBSET Accounts,
           NEW next \in {"check", "select", "refused"}, Arrive(r, op, about, next),
           next = "check" => op = "link" /\ \A a, b \in about : a = b,
           next = "select" => op = "scan" /\ about = Discovered
    PROVE  Inv'
<1> DEFINE t == [tx[r] EXCEPT !.op = op, !.about = about, !.seen = linked]
<1>1. tx[r] = CleanTx /\ tx[r] \in Tx /\ pc[r] = "idle"
  BY DEF Arrive, Inv, SessionOK, Doing, TypeOK
<1>2. /\ t \in Tx /\ t.op = op /\ t.about = about /\ t.seen = linked /\ t.pending = {}
      /\ t.dropped = {} /\ t.inserts = {} /\ t.flips = {} /\ t.moves = {} /\ t.made = {}
      /\ t.gone = NoConnection
  <2>1. t \in Tx /\ t.op = op /\ t.about = about /\ t.seen = linked
    BY <1>1 DEF Tx, Operations, Inv, TypeOK
  <2>2. /\ t.pending = tx[r].pending /\ t.dropped = tx[r].dropped /\ t.inserts = tx[r].inserts
        /\ t.flips = tx[r].flips /\ t.moves = tx[r].moves /\ t.made = tx[r].made
        /\ t.gone = tx[r].gone
    BY <1>1 DEF Tx
  <2> HIDE DEF t
  <2> QED
    BY <1>1, <2>1, <2>2 DEF CleanTx
<1>3. /\ pc' = [pc EXCEPT ![r] = next] /\ tx' = [tx EXCEPT ![r] = t]
      /\ UNCHANGED <<db, registry, holder>>
  BY DEF Arrive
<1> HIDE DEF t
<1>4. ASSUME pc'[r] = next, tx'[r] = t PROVE SessionOK(r)'
  <2>1. Doing(r)' /\ Ascending(r)'
    BY <1>2, <1>4 DEF Doing, Ascending
  <2>2. Holding(r)'
    BY <1>1, <1>3 DEF Inv, SessionOK, Holding, InFlight
  <2>3. pc'[r] \in InFlight => Linking(r)'
    BY <1>2, <1>3, <1>4 DEF Linking, db, Discovered, InFlight
  <2> QED
    BY <1>2, <1>4, <2>1, <2>2, <2>3 DEF SessionOK
<1>5. next \in Stages
  BY DEF Stages, InFlight, Answered
<1> QED
  BY <1>1, <1>2, <1>3, <1>4, <1>5, QuietStep DEF Inv, TypeOK

\* get_account lets a request go on only if its account is not linked yet.
LEMMA CheckAccountStep == ASSUME Inv, NEW r \in Requests, CheckAccount(r) PROVE Inv'
<1>1. CASE tx[r].about \subseteq linked
  BY <1>1, RollbackStep DEF CheckAccount, InFlight
<1>2. CASE ~(tx[r].about \subseteq linked)
  <2>1. /\ pc[r] = "check" /\ tx[r] \in Tx /\ tx' = [tx EXCEPT ![r] = tx[r]]
        /\ pc' = [pc EXCEPT ![r] = "select"] /\ UNCHANGED <<db, registry, holder>>
    BY <1>2 DEF CheckAccount, Inv, TypeOK
  <2>2. tx[r].op = "link" /\ Linking(r) /\ Doing(r) /\ Holding(r) /\ Ascending(r)
    BY <2>1 DEF Inv, SessionOK, Doing, InFlight
  <2>3. tx[r].about \cap tx[r].seen = {}
    BY <1>2, <2>2 DEF Linking
  <2>4. ASSUME pc'[r] = "select", tx'[r] = tx[r] PROVE SessionOK(r)'
    <3>1. Doing(r)' /\ Ascending(r)' /\ Holding(r)'
      BY <2>1, <2>2, <2>4 DEF Doing, Ascending, Holding, InFlight
    <3>2. Linking(r)'
      BY <2>1, <2>2, <2>3, <2>4 DEF Linking, db
    <3> QED
      BY <2>2, <2>4, <3>1, <3>2 DEF SessionOK
  <2> QED
    BY <2>1, <2>4, QuietStep DEF Inv, TypeOK, Stages, InFlight
<1> QED
  BY <1>1, <1>2

\* What is read again is to be linked, and the rest has been linked meanwhile.
LEMMA SelectStep == ASSUME Inv, NEW r \in Requests, Select(r) PROVE Inv'
<1> DEFINE found == IF tx[r].op = "scan" THEN Discovered ELSE tx[r].about \cap Discovered
           next == IF found = {} THEN "connect" ELSE "flush"
           t == [tx[r] EXCEPT !.pending = found]
<1>1. /\ pc[r] = "select" /\ pc' = [pc EXCEPT ![r] = next] /\ tx' = [tx EXCEPT ![r] = t]
      /\ UNCHANGED <<db, registry, holder>>
  BY DEF Select
<1>2. /\ tx[r] \in Tx /\ tx[r].op \in {"link", "scan"}
      /\ Linking(r) /\ Doing(r) /\ Holding(r) /\ Ascending(r)
  BY <1>1 DEF Inv, TypeOK, SessionOK, Doing, InFlight
<1>3. found \subseteq Accounts /\ found \subseteq tx[r].about /\ tx[r].about \subseteq linked \cup found
  BY <1>1, <1>2 DEF Linking, Tx, Discovered
<1> HIDE DEF found
<1>4. /\ t \in Tx /\ t.pending = found /\ t.flips = {} /\ t.moves = {} /\ t.op = tx[r].op
      /\ t.about = tx[r].about /\ t.seen = tx[r].seen /\ t.dropped = {} /\ t.inserts = {}
      /\ t.gone = NoConnection /\ t.made = {}
  <2>1. t \in Tx /\ t.pending = found
    BY <1>2, <1>3 DEF Tx, Rows
  <2>2. /\ t.op = tx[r].op /\ t.about = tx[r].about /\ t.seen = tx[r].seen
        /\ t.dropped = tx[r].dropped /\ t.inserts = tx[r].inserts /\ t.moves = tx[r].moves
        /\ t.flips = tx[r].flips /\ t.gone = tx[r].gone /\ t.made = tx[r].made
    BY <1>2 DEF Tx
  <2> HIDE DEF t
  <2> QED
    BY <1>1, <1>2, <2>1, <2>2 DEF Linking
<1> HIDE DEF t
<1>5. next \in {"connect", "flush"} /\ (next = "flush" <=> found # {})
  OBVIOUS
<1> HIDE DEF next
<1>6. ASSUME pc'[r] = next, tx'[r] = t PROVE SessionOK(r)'
  <2>1. Doing(r)' /\ Ascending(r)'
    BY <1>2, <1>4, <1>6, <1>5 DEF Doing, Ascending
  <2>2. Holding(r)'
    BY <1>1, <1>2, <1>4, <1>6, <1>5 DEF Linking, Holding, InFlight
  <2>3. Linking(r)'
    BY <1>1, <1>2, <1>3, <1>4, <1>6, <1>5 DEF Linking, db
  <2> QED
    BY <1>2, <1>4, <1>6, <2>1, <2>2, <2>3 DEF SessionOK
<1>7. next \in Stages
  BY <1>5 DEF Stages, InFlight
<1> QED
  BY <1>1, <1>4, <1>6, <1>7, QuietStep DEF Inv, TypeOK

\* The least row is flipped, above all that were flipped before.
LEMMA FlipStep == ASSUME Inv, NEW r \in Requests, Flip(r) PROVE Inv'
<1>1. pc[r] = "flush" /\ UNCHANGED <<db, registry>>
  BY DEF Flip
<1>2. /\ tx[r] \in Tx /\ tx[r].op \in {"link", "scan"}
      /\ Linking(r) /\ Doing(r) /\ Holding(r) /\ Ascending(r)
  BY <1>1 DEF Inv, TypeOK, SessionOK, Doing, InFlight
<1> DEFINE least == Min(tx[r].pending)
           next == IF tx[r].pending = {least} THEN "connect" ELSE "flush"
           t == [tx[r] EXCEPT !.pending = @ \ {least}, !.flips = @ \cup {least}]
<1>3. least \in tx[r].pending /\ \A y \in tx[r].pending : least <= y /\ y \in Nat
  <2>1. tx[r].pending # {} /\ tx[r].pending \subseteq Nat
    BY <1>1, <1>2, AccountsAssumption DEF Linking, Tx, Rows
  <2> QED
    BY <2>1, MinOf
<1>4. /\ MayLock(r, least) /\ Lock(r, least)
      /\ pc' = [pc EXCEPT ![r] = next] /\ tx' = [tx EXCEPT ![r] = t]
  BY <1>1 DEF Flip, NextRow, Inv, TypeOK
<1> HIDE DEF least
<1>5. least \in Accounts /\ least \in Rows
  BY <1>2, <1>3 DEF Linking, Tx, Rows
<1>6. /\ t \in Tx /\ t.pending = tx[r].pending \ {least} /\ t.flips = tx[r].flips \cup {least}
      /\ t.op = tx[r].op /\ t.about = tx[r].about /\ t.seen = tx[r].seen
      /\ t.dropped = {} /\ t.inserts = {} /\ t.gone = NoConnection /\ t.made = {} /\ t.moves = {}
  <2>1. t \in Tx /\ t.pending = tx[r].pending \ {least} /\ t.flips = tx[r].flips \cup {least}
    BY <1>2, <1>5 DEF Tx
  <2>2. /\ t.op = tx[r].op /\ t.about = tx[r].about /\ t.seen = tx[r].seen
        /\ t.dropped = tx[r].dropped /\ t.inserts = tx[r].inserts /\ t.moves = tx[r].moves
        /\ t.gone = tx[r].gone /\ t.made = tx[r].made
    BY <1>2 DEF Tx
  <2> HIDE DEF t
  <2> QED
    BY <1>1, <1>2, <2>1, <2>2 DEF Linking
<1> HIDE DEF t
<1>7. /\ holder' \in [Rows -> Requests \cup {NoRequest}]
      /\ \A q \in Requests \ {r} : \A y \in Rows : holder'[y] = q <=> holder[y] = q
      /\ \A y \in Rows : holder'[y] = r <=> y = least \/ holder[y] = r
  BY <1>4, <1>5, LockRow DEF Inv
<1>8. next \in {"connect", "flush"} /\ (next = "flush" <=> tx[r].pending \ {least} # {})
  BY <1>3
<1> HIDE DEF next
<1>9. ASSUME pc'[r] = next, tx'[r] = t PROVE SessionOK(r)'
  <2>1. Doing(r)'
    BY <1>2, <1>6, <1>8, <1>9 DEF Doing
  <2>2. Holding(r)'
    <3>1. tx[r].moves = {}
      BY <1>2 DEF Linking
    <3>2. pc'[r] \in InFlight
      BY <1>8, <1>9 DEF InFlight
    <3>3. \A x \in Rows : holder[x] = r => x \in tx[r].flips
      BY <1>2, <3>1 DEF Holding
    <3> QED
      BY <1>6, <1>7, <1>9, <3>2, <3>3 DEF Holding
  <2>3. Ascending(r)'
    <3>1. \A y \in t.pending : least < y
      <4>1. \A y \in t.pending : y \in tx[r].pending /\ y # least
        BY <1>6
      <4> QED
        BY <1>3, <4>1
    <3>2. \A x \in tx[r].flips, y \in tx[r].pending : x < y
      BY <1>2 DEF Ascending
    <3> QED
      BY <1>6, <1>9, <3>1, <3>2 DEF Ascending
  <2>4. Linking(r)'
    <3>1. /\ t.flips \cup t.pending = tx[r].flips \cup tx[r].pending
          /\ next = "flush" <=> t.pending # {}
      BY <1>3, <1>6, <1>8
    <3>2. /\ tx[r].flips \cup tx[r].pending \subseteq tx[r].about
          /\ tx[r].about \subseteq linked \cup (tx[r].flips \cup tx[r].pending)
          /\ tx[r].about \cap tx[r].seen = {}
      BY <1>1, <1>2 DEF Linking
    <3> QED
      <4>1. t.flips \cup t.pending \subseteq t.about /\ t.about \cap t.seen = {}
        BY <1>6, <3>1, <3>2
      <4>2. t.about \subseteq linked \cup t.flips \cup t.pending
        BY <1>6, <3>1, <3>2
      <4>3. /\ t.seen \subseteq linked
            /\ t.op = "scan" => t.about = Accounts \ t.seen
            /\ t.op = "link" => \A a, b \in t.about : a = b
        BY <1>2, <1>6 DEF Linking
      <4> QED
        BY <1>1, <1>6, <1>8, <1>9, <3>1, <4>1, <4>2, <4>3 DEF Linking, db
  <2> QED
    BY <1>2, <1>6, <1>9, <2>1, <2>2, <2>3, <2>4 DEF SessionOK
<1>10. next \in Stages
  BY <1>8 DEF Stages, InFlight
<1> QED
  BY <1>1, <1>4, <1>6, <1>7, <1>9, <1>10, QuietStep DEF Inv, TypeOK

\* Each account of the first SELECT gets its connection.
LEMMA ConnectStep == ASSUME Inv, NEW r \in Requests, Connect(r) PROVE Inv'
<1> DEFINE made == {<<r, a>> : a \in tx[r].about}
           t == [tx[r] EXCEPT !.made = made]
<1>1. /\ pc[r] = "connect" /\ pc' = [pc EXCEPT ![r] = "commit"] /\ tx' = [tx EXCEPT ![r] = t]
      /\ registry' = registry \cup tx[r].about /\ UNCHANGED <<db, holder>>
  BY DEF Connect
<1>2. /\ tx[r] \in Tx /\ tx[r].op \in {"link", "scan"}
      /\ Linking(r) /\ Doing(r) /\ Holding(r) /\ Ascending(r)
  BY <1>1 DEF Inv, TypeOK, SessionOK, Doing, InFlight
<1>3. made \subseteq Connections /\ registry' \subseteq Providers
  BY <1>1, <1>2 DEF Tx, Connections, Providers, Inv, TypeOK
<1>4. /\ t \in Tx /\ t.made = made /\ t.pending = tx[r].pending /\ t.flips = tx[r].flips
      /\ t.op = tx[r].op /\ t.about = tx[r].about /\ t.seen = tx[r].seen
      /\ t.dropped = tx[r].dropped /\ t.inserts = tx[r].inserts /\ t.moves = tx[r].moves
      /\ t.gone = tx[r].gone
  <2> HIDE DEF made
  <2> QED
    BY <1>2, <1>3 DEF Tx
<1> HIDE DEF t
<1>5. ASSUME pc'[r] = "commit", tx'[r] = t PROVE SessionOK(r)'
  <2>1. Doing(r)' /\ Ascending(r)' /\ Holding(r)'
    BY <1>1, <1>2, <1>4, <1>5 DEF Doing, Ascending, Holding, InFlight
  <2>2. Linking(r)'
    BY <1>1, <1>2, <1>4, <1>5 DEF Linking, db
  <2> QED
    BY <1>2, <1>4, <1>5, <2>1, <2>2 DEF SessionOK
<1> QED
  BY <1>1, <1>3, <1>4, <1>5, QuietStep DEF Inv, TypeOK, Stages, InFlight

\* An import begins with its connection and the reservations of the connector.
LEMMA ReceiveImportStep == ASSUME Inv, NEW r \in Requests, ReceiveImport(r) PROVE Inv'
<1>1. pc[r] = "idle" /\ tx[r] = CleanTx /\ tx[r] \in Tx /\ UNCHANGED <<db, registry, holder>>
  BY DEF ReceiveImport, Inv, SessionOK, Doing, TypeOK
<1>2. \A x \in Rows : holder[x] # r
  BY <1>1 DEF Inv, SessionOK, Holding, InFlight
<1>3. ASSUME NEW p \in registry, NEW import \in BOOLEAN,
             tx' = [tx EXCEPT ![r].op = "import", ![r].made = {<<r, p>>},
                              ![r].pending = IF p = Booking /\ import THEN Refs ELSE {}],
             pc' = [pc EXCEPT ![r] = IF import THEN "clear" ELSE "commit"]
      PROVE  Inv'
  <2> DEFINE rows == IF p = Booking /\ import THEN Refs ELSE {}
             next == IF import THEN "clear" ELSE "commit"
             t == [tx[r] EXCEPT !.op = "import", !.made = {<<r, p>>}, !.pending = rows]
  <2>1. p \in Providers /\ {<<r, p>>} \subseteq Connections /\ rows \in {{}, Refs}
        /\ (rows # {} => p = Booking /\ next = "clear")
    BY DEF Inv, TypeOK, Connections
  <2>2. tx' = [tx EXCEPT ![r] = t] /\ pc' = [pc EXCEPT ![r] = next] /\ next \in {"clear", "commit"}
    BY <1>3 DEF Inv, TypeOK
  <2> HIDE DEF rows, next
  <2>3. /\ t \in Tx /\ t.op = "import" /\ t.made = {<<r, p>>} /\ t.pending = rows
        /\ t.flips = {} /\ t.dropped = {} /\ t.inserts = {} /\ t.moves = {}
        /\ t.gone = NoConnection
    <3>1. t \in Tx /\ t.op = "import" /\ t.made = {<<r, p>>} /\ t.pending = rows
      BY <1>1, <2>1 DEF Tx, Operations, Rows
    <3>2. /\ t.flips = tx[r].flips /\ t.dropped = tx[r].dropped /\ t.inserts = tx[r].inserts
          /\ t.moves = tx[r].moves /\ t.gone = tx[r].gone
      BY <1>1 DEF Tx
    <3> HIDE DEF t
    <3> QED
      BY <1>1, <3>1, <3>2 DEF CleanTx
  <2> HIDE DEF t
  <2>4. ASSUME pc'[r] = next, tx'[r] = t PROVE SessionOK(r)'
    <3>1. Doing(r)' /\ Ascending(r)' /\ Holding(r)'
      BY <1>1, <1>2, <2>2, <2>3, <2>4 DEF Doing, Ascending, Holding
    <3>2. Importing(r)'
      BY <2>1, <2>2, <2>3, <2>4 DEF Importing
    <3> QED
      BY <2>3, <2>4, <3>1, <3>2 DEF SessionOK
  <2> QED
    BY <1>1, <2>2, <2>3, <2>4, QuietStep DEF Inv, TypeOK, Stages, InFlight
<1>4. CASE pc' = [pc EXCEPT ![r] = "refused"] /\ UNCHANGED tx
  <2>1. tx' = [tx EXCEPT ![r] = CleanTx]
    BY <1>1, <1>4 DEF Inv, TypeOK
  <2>2. pc'[r] = "refused" /\ tx'[r] = CleanTx => SessionOK(r)'
    BY <1>1, <1>2 DEF SessionOK, Doing, Holding, InFlight
  <2> QED
    BY <1>1, <1>4, <2>1, <2>2, CleanType, QuietStep DEF Inv, TypeOK, Stages, Answered
<1> QED
  BY <1>3, <1>4 DEF ReceiveImport

\* No stay is of a connection whose request is under way.
LEMMA OwnersOver ==
    ASSUME Inv, NEW x \in DOMAIN stays, NEW r \in Requests, pc[r] # "done"
    PROVE  stays[x].owner \in recorded \cup {NoConnection} /\ stays[x].owner # <<r, Booking>>
<1>1. x \in Refs /\ stays[x].owner \in recorded \cup {NoConnection}
  BY DEF Inv, TypeOK, ImportsMoveTogether
<1>2. <<r, Booking>> \notin recorded
  BY DEF Inv, RecordsOver
<1>3. <<r, Booking>> # NoConnection
  BY AccountsAssumption DEF NoConnection
<1> QED
  BY <1>1, <1>2, <1>3

\* What a new connection imported is nothing.
LEMMA ClearStep == ASSUME Inv, NEW r \in Requests, Clear(r) PROVE Inv'
<1>1. pc[r] = "clear" /\ UNCHANGED <<db, registry, holder>>
  BY DEF Clear
<1>2. /\ tx[r] \in Tx /\ tx[r].op = "import"
      /\ Importing(r) /\ Doing(r) /\ Holding(r) /\ Ascending(r)
  BY <1>1 DEF Inv, TypeOK, SessionOK, Doing, InFlight
<1> DEFINE next == IF tx[r].pending = {} THEN "commit" ELSE "lookup"
<1>3. {x \in DOMAIN stays : stays[x].owner \in tx[r].made} = {}
  <2> SUFFICES ASSUME NEW x \in DOMAIN stays, stays[x].owner \in tx[r].made PROVE FALSE
    OBVIOUS
  <2>1. PICK p \in Providers : tx[r].made = {<<r, p>>}
    BY <1>2 DEF Importing
  <2>2. stays[x].owner \in recorded \cup {NoConnection} /\ stays[x].owner = <<r, p>>
    BY <1>1, <2>1, OwnersOver
  <2>3. \A c \in recorded : c[1] # r
    BY <1>1 DEF Inv, RecordsOver
  <2> QED
    BY <2>2, <2>3, AccountsAssumption DEF NoConnection
<1>4. tx' = [tx EXCEPT ![r] = tx[r]] /\ pc' = [pc EXCEPT ![r] = next]
  <2>1. tx' = [tx EXCEPT ![r].dropped = {}]
    BY <1>3 DEF Clear
  <2>2. tx[r].dropped = {}
    BY <1>2 DEF Importing
  <2>3. [tx[r] EXCEPT !.dropped = {}] = tx[r]
    BY <1>2, <2>2 DEF Tx
  <2>4. tx' = [tx EXCEPT ![r] = [tx[r] EXCEPT !.dropped = {}]]
    BY <2>1
  <2> QED
    BY <2>3, <2>4 DEF Clear
<1>5. next \in {"commit", "lookup"} /\ (next = "commit" <=> tx[r].pending = {})
  OBVIOUS
<1> HIDE DEF next
<1>6. ASSUME pc'[r] = next, tx'[r] = tx[r] PROVE SessionOK(r)'
  <2>1. Doing(r)' /\ Ascending(r)' /\ Holding(r)'
    BY <1>1, <1>2, <1>5, <1>6 DEF Doing, Ascending, Holding, InFlight
  <2>2. Importing(r)'
    BY <1>1, <1>2, <1>5, <1>6 DEF Importing, db
  <2> QED
    BY <1>2, <1>6, <2>1, <2>2 DEF SessionOK
<1>7. next \in Stages
  BY <1>5 DEF Stages, InFlight
<1> QED
  BY <1>1, <1>2, <1>4, <1>6, <1>7, QuietStep DEF Inv, TypeOK

\* The next reservation of an import is the least one.
LEMMA NextReservation ==
    ASSUME Inv, NEW r \in Requests, pc[r] \in {"lookup", "upsert"}
    PROVE  /\ tx[r] \in Tx /\ tx[r].op = "import" /\ Importing(r)
           /\ Doing(r) /\ Holding(r) /\ Ascending(r)
           /\ Min(tx[r].pending) \in tx[r].pending \cap Refs
           /\ \A y \in tx[r].pending : Min(tx[r].pending) <= y /\ y \in Nat
           /\ NextRow(r) = {Min(tx[r].pending)}
<1>1. /\ tx[r] \in Tx /\ tx[r].op = "import" /\ Importing(r)
      /\ Doing(r) /\ Holding(r) /\ Ascending(r)
  BY DEF Inv, TypeOK, SessionOK, Doing, InFlight
<1>2. tx[r].pending # {} /\ tx[r].pending \subseteq Refs
  BY <1>1 DEF Importing
<1>3. tx[r].pending \subseteq Nat
  BY <1>2, AccountsAssumption
<1>4. NextRow(r) = {Min(tx[r].pending)}
  BY DEF NextRow
<1> QED
  BY <1>1, <1>2, <1>3, <1>4, MinOf

\* A reservation that is found is no insert.
LEMMA LookupStep == ASSUME Inv, NEW r \in Requests, Lookup(r) PROVE Inv'
<1> DEFINE least == Min(tx[r].pending)
           fresh == {least} \ DOMAIN stays
           t == [tx[r] EXCEPT !.inserts = @ \cup fresh]
<1>1. pc[r] = "lookup" /\ UNCHANGED <<db, registry, holder>>
  BY DEF Lookup
<1>2. /\ tx[r] \in Tx /\ tx[r].op = "import" /\ Importing(r)
      /\ Doing(r) /\ Holding(r) /\ Ascending(r)
      /\ least \in tx[r].pending \cap Refs /\ NextRow(r) = {least}
  BY <1>1, NextReservation
<1>3. pc' = [pc EXCEPT ![r] = "upsert"] /\ tx' = [tx EXCEPT ![r] = t]
  <2>1. tx[r].dropped = {}
    BY <1>2 DEF Importing
  <2> QED
    BY <1>2, <2>1 DEF Lookup, Inv, TypeOK
<1> HIDE DEF least
<1>4. /\ t \in Tx /\ t.inserts = tx[r].inserts \cup fresh /\ t.pending = tx[r].pending
      /\ t.op = tx[r].op /\ t.flips = tx[r].flips /\ t.dropped = tx[r].dropped
      /\ t.moves = tx[r].moves /\ t.made = tx[r].made /\ t.gone = tx[r].gone
  BY <1>2 DEF Tx
<1> HIDE DEF t
<1>5. ASSUME pc'[r] = "upsert", tx'[r] = t PROVE SessionOK(r)'
  <2>1. Doing(r)' /\ Ascending(r)' /\ Holding(r)'
    BY <1>1, <1>2, <1>4, <1>5 DEF Doing, Ascending, Holding, InFlight
  <2>2. NextRow(r)' = {least}
    BY <1>4, <1>5 DEF NextRow, least
  <2>3. /\ tx[r].inserts \subseteq tx[r].moves /\ tx[r].moves \cap tx[r].pending = {}
        /\ tx[r].moves \subseteq tx[r].inserts \cup DOMAIN stays
        /\ tx[r].moves \cap tx[r].inserts \cap DOMAIN stays = {}
    BY <1>1, <1>2 DEF Importing
  <2>4. /\ t.inserts \subseteq t.moves \cup {least} /\ {least} \subseteq t.inserts \cup DOMAIN stays
        /\ t.moves \subseteq t.inserts \cup DOMAIN stays
        /\ t.moves \cap t.inserts \cap DOMAIN stays = {}
    BY <1>2, <1>4, <2>3
  <2>5. Importing(r)'
    BY <1>1, <1>2, <1>4, <1>5, <2>2, <2>4 DEF Importing, db
  <2> QED
    BY <1>2, <1>4, <1>5, <2>1, <2>5 DEF SessionOK
<1> QED
  BY <1>1, <1>3, <1>4, <1>5, QuietStep DEF Inv, TypeOK, Stages, InFlight

\* The stay is written, above all that were written before, and held.
LEMMA UpsertStep == ASSUME Inv, NEW r \in Requests, Upsert(r) PROVE Inv'
<1> DEFINE least == Min(tx[r].pending)
           next == IF tx[r].pending = {least} THEN "commit" ELSE "lookup"
           t == [tx[r] EXCEPT !.pending = @ \ {least}, !.moves = @ \cup {least}]
<1>1. /\ pc[r] = "upsert" /\ tx[r] \in Tx /\ tx[r].op = "import" /\ Importing(r)
      /\ Doing(r) /\ Holding(r) /\ Ascending(r)
      /\ least \in tx[r].pending \cap Refs /\ NextRow(r) = {least}
      /\ \A y \in tx[r].pending : least <= y /\ y \in Nat
      /\ tx[r].dropped = {}
  <2>1. pc[r] = "upsert"
    BY DEF Upsert
  <2> QED
    BY <2>1, NextReservation DEF Importing
<1>2. CASE least \in tx[r].inserts \cap DOMAIN stays
  <2>1. Rollback(r, "failed")
    BY <1>1, <1>2 DEF Upsert
  <2> QED
    BY <1>1, <2>1, RollbackStep DEF InFlight
<1>3. CASE least \notin tx[r].inserts \cap DOMAIN stays
  <2>1. /\ MayLock(r, least) /\ Lock(r, least) /\ UNCHANGED <<db, registry>>
        /\ pc' = [pc EXCEPT ![r] = next] /\ tx' = [tx EXCEPT ![r] = t]
    BY <1>1, <1>3 DEF Upsert, Inv, TypeOK
  <2>2. next \in {"commit", "lookup"} /\ (next = "commit" <=> tx[r].pending \ {least} = {})
    BY <1>1
  <2> HIDE DEF next, least
  <2>3. least \in Refs /\ least \in Rows
    BY <1>1 DEF Rows
  <2>4. /\ t \in Tx /\ t.pending = tx[r].pending \ {least} /\ t.moves = tx[r].moves \cup {least}
        /\ t.op = tx[r].op /\ t.flips = tx[r].flips /\ t.dropped = tx[r].dropped
        /\ t.inserts = tx[r].inserts /\ t.made = tx[r].made /\ t.gone = tx[r].gone
    BY <1>1, <2>3 DEF Tx
  <2> HIDE DEF t
  <2>5. /\ holder' \in [Rows -> Requests \cup {NoRequest}]
        /\ \A q \in Requests \ {r} : \A y \in Rows : holder'[y] = q <=> holder[y] = q
        /\ \A y \in Rows : holder'[y] = r <=> y = least \/ holder[y] = r
    BY <2>1, <2>3, LockRow DEF Inv
  <2>6. ASSUME pc'[r] = next, tx'[r] = t PROVE SessionOK(r)'
    <3>1. Doing(r)'
      BY <1>1, <2>2, <2>4, <2>6 DEF Doing
    <3>2. Holding(r)'
      <4>1. pc'[r] \in InFlight
        BY <2>2, <2>6 DEF InFlight
      <4>2. \A x \in Rows : holder[x] = r => x \in tx[r].flips \cup tx[r].moves
        BY <1>1 DEF Holding
      <4> QED
        BY <2>4, <2>5, <2>6, <4>1, <4>2 DEF Holding
    <3>3. Ascending(r)'
      <4>1. \A y \in t.pending : least < y
        <5>1. \A y \in t.pending : y \in tx[r].pending /\ y # least
          BY <2>4
        <5> QED
          BY <1>1, <5>1
      <4>2. \A x \in tx[r].flips \cup tx[r].moves, y \in tx[r].pending : x < y
        BY <1>1 DEF Ascending
      <4> QED
        BY <2>4, <2>6, <4>1, <4>2 DEF Ascending
    <3>4. Importing(r)'
      <4>1. /\ tx[r].moves \cup tx[r].pending \in {{}, Refs} /\ tx[r].moves \cap tx[r].pending = {}
            /\ tx[r].moves \subseteq tx[r].inserts \cup DOMAIN stays
            /\ tx[r].moves \cap tx[r].inserts \cap DOMAIN stays = {}
            /\ tx[r].inserts \subseteq tx[r].moves \cup {least}
            /\ {least} \subseteq tx[r].inserts \cup DOMAIN stays
            /\ tx[r].made = {<<r, Booking>>}
            /\ \A x \in tx[r].moves : holder[x] = r /\ x \in Rows
        BY <1>1 DEF Importing, Tx, Rows
      <4>2. /\ t.moves \cup t.pending = tx[r].moves \cup tx[r].pending
            /\ t.moves \cap t.pending = {}
            /\ t.moves \subseteq t.inserts \cup DOMAIN stays
            /\ t.moves \cap t.inserts \cap DOMAIN stays = {}
            /\ t.inserts \subseteq t.moves
        BY <1>1, <1>3, <2>4, <4>1
      <4>3. \A x \in t.moves : holder'[x] = r
        BY <2>3, <2>4, <2>5, <4>1
      <4> QED
        BY <1>1, <2>1, <2>2, <2>4, <2>6, <4>1, <4>2, <4>3 DEF Importing, db, Providers
    <3> QED
      BY <1>1, <2>4, <2>6, <3>1, <3>2, <3>3, <3>4 DEF SessionOK
  <2>7. next \in Stages
    BY <2>2 DEF Stages, InFlight
  <2> QED
    BY <1>1, <2>1, <2>4, <2>5, <2>6, <2>7, QuietStep DEF Inv, TypeOK
<1> QED
  BY <1>2, <1>3

\* An unlink begins with a connection that is there.
LEMMA ReceiveUnlinkStep == ASSUME Inv, NEW r \in Requests, ReceiveUnlink(r) PROVE Inv'
<1>1. pc[r] = "idle" /\ tx[r] = CleanTx /\ tx[r] \in Tx /\ UNCHANGED <<db, registry, holder>>
  BY DEF ReceiveUnlink, Inv, SessionOK, Doing, TypeOK
<1>2. \A x \in Rows : holder[x] # r
  BY <1>1 DEF Inv, SessionOK, Holding, InFlight
<1>3. ASSUME NEW c \in recorded, tx' = [tx EXCEPT ![r].op = "unlink", ![r].gone = c],
             pc' = [pc EXCEPT ![r] = "delete"]
      PROVE  Inv'
  <2> DEFINE t == [tx[r] EXCEPT !.op = "unlink", !.gone = c]
  <2>1. tx' = [tx EXCEPT ![r] = t]
    BY <1>3 DEF Inv, TypeOK
  <2>2. /\ t \in Tx /\ t.op = "unlink" /\ t.gone = c /\ t.pending = {} /\ t.made = {}
        /\ t.flips = {} /\ t.dropped = {} /\ t.inserts = {} /\ t.moves = {}
    <3>1. t \in Tx /\ t.op = "unlink" /\ t.gone = c
      BY <1>1 DEF Tx, Operations, Inv, TypeOK
    <3>2. /\ t.flips = tx[r].flips /\ t.dropped = tx[r].dropped /\ t.inserts = tx[r].inserts
          /\ t.moves = tx[r].moves /\ t.pending = tx[r].pending /\ t.made = tx[r].made
      BY <1>1 DEF Tx
    <3> HIDE DEF t
    <3> QED
      BY <1>1, <3>1, <3>2 DEF CleanTx
  <2> HIDE DEF t
  <2>3. ASSUME pc'[r] = "delete", tx'[r] = t PROVE SessionOK(r)'
    <3>1. Doing(r)' /\ Ascending(r)' /\ Holding(r)'
      BY <1>1, <1>2, <2>2, <2>3 DEF Doing, Ascending, Holding
    <3>2. Unlinking(r)'
      BY <1>1, <2>2, <2>3 DEF Unlinking, db
    <3> QED
      BY <2>2, <2>3, <3>1, <3>2 DEF SessionOK
  <2> QED
    BY <1>1, <1>3, <2>1, <2>2, <2>3, QuietStep DEF Inv, TypeOK, Stages, InFlight
<1>4. CASE pc' = [pc EXCEPT ![r] = "refused"] /\ UNCHANGED tx
  <2>1. tx' = [tx EXCEPT ![r] = CleanTx]
    BY <1>1, <1>4 DEF Inv, TypeOK
  <2>2. pc'[r] = "refused" /\ tx'[r] = CleanTx => SessionOK(r)'
    BY <1>1, <1>2 DEF SessionOK, Doing, Holding, InFlight
  <2> QED
    BY <1>1, <1>4, <2>1, <2>2, CleanType, QuietStep DEF Inv, TypeOK, Stages, Answered
<1> QED
  BY <1>3, <1>4 DEF ReceiveUnlink

\* The connection has all the stays or none.
LEMMA DeleteStep == ASSUME Inv, NEW r \in Requests, Delete(r) PROVE Inv'
<1> DEFINE mine == {x \in DOMAIN stays : stays[x].owner = tx[r].gone}
           next == IF mine = {} THEN "commit" ELSE "setnull"
           t == [tx[r] EXCEPT !.pending = mine]
<1>1. /\ pc[r] = "delete" /\ pc' = [pc EXCEPT ![r] = next] /\ tx' = [tx EXCEPT ![r] = t]
      /\ UNCHANGED <<db, registry, holder>>
  BY DEF Delete
<1>2. /\ tx[r] \in Tx /\ tx[r].op = "unlink"
      /\ Unlinking(r) /\ Doing(r) /\ Holding(r) /\ Ascending(r)
  BY <1>1 DEF Inv, TypeOK, SessionOK, Doing, InFlight
<1>3. mine \subseteq Refs /\ (mine # {} => mine = Refs /\ DOMAIN stays = Refs)
  BY DEF Inv, TypeOK, ImportsMoveTogether
<1>4. next \in {"commit", "setnull"} /\ (next = "setnull" <=> mine # {})
  OBVIOUS
<1> HIDE DEF next
<1>5. /\ t \in Tx /\ t.pending = mine /\ t.inserts = tx[r].inserts
      /\ t.op = tx[r].op /\ t.flips = tx[r].flips /\ t.dropped = tx[r].dropped
      /\ t.moves = tx[r].moves /\ t.made = tx[r].made /\ t.gone = tx[r].gone
  <2> HIDE DEF mine
  <2> QED
    BY <1>2, <1>3 DEF Tx, Rows
<1> HIDE DEF t
<1>6. ASSUME pc'[r] = next, tx'[r] = t PROVE SessionOK(r)'
  <2>1. Doing(r)' /\ Ascending(r)' /\ Holding(r)'
    BY <1>1, <1>2, <1>4, <1>5, <1>6 DEF Doing, Ascending, Holding, InFlight
  <2>2. stays' = stays /\ recorded' = recorded
    BY <1>1 DEF db
  <2>3. {x \in DOMAIN stays : stays[x].owner = t.gone} = mine
    BY <1>5
  <2>4. t.moves = {} /\ (t.pending # Refs => mine = {})
    BY <1>1, <1>2, <1>3, <1>5 DEF Unlinking
  <2>5. Unlinking(r)'
    <3> HIDE DEF mine
    <3> QED
      BY <1>1, <1>2, <1>3, <1>4, <1>5, <1>6, <2>2, <2>3, <2>4 DEF Unlinking
  <2> QED
    BY <1>2, <1>5, <1>6, <2>1, <2>5 DEF SessionOK
<1>7. next \in Stages
  BY <1>4 DEF Stages, InFlight
<1> QED
  BY <1>1, <1>5, <1>6, <1>7, QuietStep DEF Inv, TypeOK

\* A stay is freed if it is still of the connection, and then all of them are.
LEMMA SetNullStep == ASSUME Inv, NEW r \in Requests, SetNull(r) PROVE Inv'
<1>1. pc[r] = "setnull" /\ UNCHANGED <<db, registry>>
  BY DEF SetNull
<1>2. PICK x \in tx[r].pending :
          /\ MayLock(r, x) /\ Lock(r, x)
          /\ tx' = [tx EXCEPT ![r].pending = @ \ {x},
                              ![r].moves = IF stays[x].owner = tx[r].gone THEN @ \cup {x} ELSE @]
          /\ pc' = [pc EXCEPT ![r] = IF tx[r].pending = {x} THEN "commit" ELSE @]
  BY <1>1 DEF SetNull, NextRow
<1>3. /\ tx[r] \in Tx /\ tx[r].op = "unlink"
      /\ Unlinking(r) /\ Doing(r) /\ Holding(r) /\ Ascending(r)
  BY <1>1 DEF Inv, TypeOK, SessionOK, Doing, InFlight
<1>4. x \in Refs /\ x \in Rows /\ DOMAIN stays = Refs /\ tx[r].pending \subseteq Refs
  BY <1>3 DEF Unlinking, Rows
<1> DEFINE theirs == {y \in DOMAIN stays : stays[y].owner = tx[r].gone}
           moves == IF stays[x].owner = tx[r].gone THEN tx[r].moves \cup {x} ELSE tx[r].moves
           next == IF tx[r].pending = {x} THEN "commit" ELSE "setnull"
           t == [tx[r] EXCEPT !.pending = @ \ {x}, !.moves = moves]
<1>5. tx' = [tx EXCEPT ![r] = t] /\ pc' = [pc EXCEPT ![r] = next]
  BY <1>1, <1>2 DEF Inv, TypeOK
<1>6. next \in {"commit", "setnull"} /\ (next = "setnull" <=> tx[r].pending \ {x} # {})
  OBVIOUS
<1> HIDE DEF next
<1>7. /\ theirs \in {{}, Refs} /\ (theirs = Refs <=> stays[x].owner = tx[r].gone)
      /\ moves \subseteq tx[r].moves \cup {x}
      /\ moves # {} => theirs = Refs /\ moves = Refs \ (tx[r].pending \ {x})
      /\ moves = {} => theirs = {}
  <2>1. \A y \in Refs : stays[y].owner = stays[x].owner
    BY <1>4 DEF Inv, ImportsMoveTogether
  <2>2. /\ theirs \in {{}, Refs} /\ (theirs = Refs <=> stays[x].owner = tx[r].gone)
        /\ theirs = {} <=> stays[x].owner # tx[r].gone
    BY <1>4, <2>1
  <2>3. /\ tx[r].moves # {} => theirs = Refs /\ tx[r].moves = Refs \ tx[r].pending
        /\ tx[r].moves = {} /\ tx[r].pending # Refs => theirs = {}
    BY <1>1, <1>3 DEF Unlinking
  <2> HIDE DEF theirs
  <2>4. CASE stays[x].owner = tx[r].gone
    BY <1>4, <2>2, <2>3, <2>4
  <2>5. CASE stays[x].owner # tx[r].gone
    BY <1>4, <2>2, <2>3, <2>5
  <2> QED
    BY <2>4, <2>5
<1> HIDE DEF moves
<1>8. /\ t \in Tx /\ t.pending = tx[r].pending \ {x} /\ t.moves = moves
      /\ t.op = tx[r].op /\ t.flips = tx[r].flips /\ t.dropped = tx[r].dropped
      /\ t.inserts = tx[r].inserts /\ t.made = tx[r].made /\ t.gone = tx[r].gone
  <2>1. moves \subseteq Refs
    BY <1>3, <1>4, <1>7 DEF Tx
  <2> QED
    BY <1>3, <2>1 DEF Tx
<1> HIDE DEF t
<1>9. /\ holder' \in [Rows -> Requests \cup {NoRequest}]
      /\ \A q \in Requests \ {r} : \A y \in Rows : holder'[y] = q <=> holder[y] = q
      /\ \A y \in Rows : holder'[y] = r <=> y = x \/ holder[y] = r
  BY <1>2, <1>4, LockRow DEF Inv
<1>10. ASSUME pc'[r] = next, tx'[r] = t PROVE SessionOK(r)'
  <2>1. Doing(r)' /\ Ascending(r)' /\ Holding(r)'
    BY <1>3, <1>6, <1>8, <1>10 DEF Doing, Ascending, Holding, InFlight
  <2>2. stays' = stays /\ recorded' = recorded
    BY <1>1 DEF db
  <2>3. {y \in DOMAIN stays : stays[y].owner = t.gone} = theirs
    BY <1>8
  <2>4. \A y \in t.moves : holder'[y] = r
    <3>1. \A y \in tx[r].moves : holder[y] = r /\ y \in Rows
      BY <1>3 DEF Unlinking, Tx, Rows
    <3> QED
      BY <1>4, <1>7, <1>8, <1>9, <3>1
  <2>5. Unlinking(r)'
    <3> HIDE DEF theirs
    <3> QED
      BY <1>3, <1>4, <1>6, <1>7, <1>8, <1>10, <2>2, <2>3, <2>4 DEF Unlinking
  <2> QED
    BY <1>3, <1>8, <1>10, <2>1, <2>5 DEF SessionOK
<1>11. next \in Stages
  BY <1>6 DEF Stages, InFlight
<1> QED
  BY <1>1, <1>5, <1>8, <1>9, <1>10, <1>11, QuietStep DEF Inv, TypeOK

\* A commit leaves the stays alone, or all reservations are stays of one owner by then,
\* and the request has held them all.
LEMMA StaysCommitted ==
    ASSUME Inv, NEW r \in Requests, pc[r] = "commit", stays' = StaysAfter(r)
    PROVE  /\ DOMAIN stays' \subseteq Refs /\ stays' \in [DOMAIN stays' -> Stay]
           /\ \A x \in DOMAIN stays : x \in DOMAIN stays' /\ stays'[x].born = stays[x].born
           /\ \/ tx[r].moves = {} /\ stays' = stays
              \/ /\ tx[r].moves = Refs /\ tx[r].moves # {} /\ DOMAIN stays' = Refs
                 /\ \A x \in Refs : holder[x] = r
                 /\ tx[r].op \in {"import", "unlink"}
                 /\ \A x \in Refs : stays'[x].owner =
                        IF tx[r].op = "unlink" THEN NoConnection ELSE <<r, Booking>>
<1> DEFINE t == tx[r]
           owner(x) == IF x \notin t.moves THEN stays[x].owner
                       ELSE IF t.op = "unlink" THEN NoConnection ELSE <<r, Booking>>
           born(x) == IF x \in t.inserts THEN r ELSE stays[x].born
<1>1. /\ t \in Tx /\ t.op \in {"link", "scan", "import", "unlink"}
      /\ t.op \in {"link", "scan"} => Linking(r)
      /\ t.op = "import" => Importing(r)
      /\ t.op = "unlink" => Unlinking(r)
  BY DEF Inv, TypeOK, SessionOK, Doing, InFlight, Tx, Operations
<1>2. /\ t.dropped = {} /\ t.inserts \subseteq t.moves /\ t.inserts \cap DOMAIN stays = {}
      /\ t.moves \subseteq t.inserts \cup DOMAIN stays
  <2>1. CASE t.op \in {"link", "scan"}
    BY <1>1, <2>1 DEF Linking
  <2>2. CASE t.op = "import"
    BY <1>1, <2>2 DEF Importing
  <2>3. CASE t.op = "unlink"
    <3>1. t.moves # {} => Refs \subseteq DOMAIN stays
      BY <1>1, <2>3 DEF Unlinking
    <3> QED
      BY <1>1, <2>3, <3>1 DEF Unlinking, Tx
  <2> QED
    BY <1>1, <2>1, <2>2, <2>3
<1>3. \/ t.moves = {}
      \/ /\ t.moves = Refs /\ t.moves # {} /\ t.op \in {"import", "unlink"}
         /\ \A x \in Refs : holder[x] = r
  <2>1. CASE t.op \in {"link", "scan"}
    BY <1>1, <2>1 DEF Linking
  <2>2. CASE t.op = "import"
    BY <1>1, <2>2 DEF Importing
  <2>3. CASE t.op = "unlink"
    BY <1>1, <2>3 DEF Unlinking
  <2> QED
    BY <1>1, <2>1, <2>2, <2>3
<1>4. stays' = [x \in DOMAIN stays \cup t.moves |-> [owner |-> owner(x), born |-> born(x)]]
  BY <1>2 DEF StaysAfter
<1>5. \A x \in DOMAIN stays \cup t.moves :
          owner(x) \in Connections \cup {NoConnection} /\ born(x) \in Requests
  <2> SUFFICES ASSUME NEW x \in DOMAIN stays \cup t.moves
               PROVE  owner(x) \in Connections \cup {NoConnection} /\ born(x) \in Requests
    OBVIOUS
  <2>1. x \in DOMAIN stays =>
            stays[x].owner \in Connections \cup {NoConnection} /\ stays[x].born \in Requests
    BY DEF Inv, TypeOK, Stay
  <2>2. <<r, Booking>> \in Connections
    BY DEF Connections, Providers
  <2> QED
    BY <1>2, <2>1, <2>2
<1> HIDE DEF owner, born
<1>6. DOMAIN stays' = DOMAIN stays \cup t.moves /\ DOMAIN stays' \subseteq Refs
  BY <1>1, <1>4 DEF Inv, TypeOK, Tx
<1>7. stays' \in [DOMAIN stays' -> Stay]
  BY <1>4, <1>5, <1>6 DEF Stay
<1>8. ASSUME NEW x \in DOMAIN stays
      PROVE  x \in DOMAIN stays' /\ stays'[x].born = stays[x].born
  BY <1>2, <1>4, <1>8 DEF born
<1>9. CASE t.moves = {}
  <2>1. DOMAIN stays' = DOMAIN stays
    BY <1>6, <1>9
  <2>2. ASSUME NEW x \in DOMAIN stays PROVE stays'[x] = stays[x]
    <3>1. stays'[x] = [owner |-> stays[x].owner, born |-> stays[x].born]
      BY <1>2, <1>4, <1>9 DEF owner, born
    <3>2. stays[x] \in Stay
      BY DEF Inv, TypeOK
    <3> QED
      BY <3>1, <3>2 DEF Stay
  <2>3. stays' = stays
    BY <1>7, <2>1, <2>2 DEF Inv, TypeOK
  <2> QED
    BY <1>6, <1>7, <1>8, <1>9, <2>3
<1>10. CASE t.moves # {}
  <2>1. t.moves = Refs /\ t.op \in {"import", "unlink"} /\ \A x \in Refs : holder[x] = r
    BY <1>3, <1>10
  <2>2. DOMAIN stays' = Refs
    BY <1>6, <2>1
  <2>3. \A x \in Refs : stays'[x].owner =
            IF t.op = "unlink" THEN NoConnection ELSE <<r, Booking>>
    BY <1>4, <2>1 DEF owner
  <2> QED
    BY <1>6, <1>7, <1>8, <1>10, <2>1, <2>2, <2>3
<1> QED
  BY <1>9, <1>10

\* What a commit of r leaves of the invariant of another request: the one that commits
\* stays has held them all, so that the other has written none.
LEMMA OthersAfterCommit ==
    ASSUME Inv, NEW r \in Requests, Commit(r), NEW q \in Requests \ {r}
    PROVE  SessionOK(q)'
<1>1. /\ pc[r] = "commit" /\ pc' = [pc EXCEPT ![r] = "done"] /\ UNCHANGED tx /\ Unlock(r)
      /\ linked' = linked \cup tx[r].flips /\ recorded' = recorded \cup tx[r].made
      /\ stays' = StaysAfter(r)
  BY DEF Commit
<1>2. pc'[q] = pc[q] /\ tx'[q] = tx[q] /\ SessionOK(q) /\ tx[q] \in Tx
  BY <1>1 DEF Inv, TypeOK
<1>3. \A x \in Rows : holder'[x] = q <=> holder[x] = q
  BY <1>1, UnlockRows DEF Inv
<1>4. Doing(q)' /\ Holding(q)' /\ (Ascending(q) => Ascending(q)')
  BY <1>2, <1>3 DEF SessionOK, Doing, Holding, Ascending
<1>5. Linking(q) => Linking(q)'
  <2> SUFFICES ASSUME Linking(q) PROVE Linking(q)'
    OBVIOUS
  <2>1. tx[q].seen \subseteq linked'
    BY <1>1 DEF Linking
  <2>2. tx[q].about \subseteq linked \cup tx[q].flips \cup tx[q].pending =>
            tx[q].about \subseteq linked' \cup tx[q].flips \cup tx[q].pending
    BY <1>1
  <2> QED
    BY <1>2, <2>1, <2>2 DEF Linking
<1>6. \/ stays' = stays
      \/ /\ \A x \in Refs : holder[x] = r
         /\ DOMAIN stays' = Refs
         /\ \/ \A x \in Refs : stays'[x].owner = NoConnection
            \/ \A x \in Refs : stays'[x].owner = <<r, Booking>>
  BY <1>1, StaysCommitted
<1>7. DOMAIN stays \subseteq DOMAIN stays'
  BY <1>1, StaysCommitted
<1>8. Importing(q) => Importing(q)'
  <2> SUFFICES ASSUME Importing(q) PROVE Importing(q)'
    OBVIOUS
  <2>1. NextRow(q)' = NextRow(q)
    BY <1>2 DEF NextRow
  <2>2. \A x \in tx[q].moves : holder'[x] = q
    BY <1>2, <1>3 DEF Importing, Tx, Rows
  <2>3. CASE stays' = stays
    BY <1>2, <2>1, <2>2, <2>3 DEF Importing
  <2>4. CASE \A x \in Refs : holder[x] = r
    <3>1. tx[q].moves = {}
      BY <1>2, <2>4 DEF Importing, Tx
    <3> QED
      BY <1>2, <1>7, <2>1, <2>2, <3>1 DEF Importing
  <2> QED
    BY <1>6, <2>3, <2>4
<1>9. Unlinking(q) => Unlinking(q)'
  <2> SUFFICES ASSUME Unlinking(q) PROVE Unlinking(q)'
    OBVIOUS
  <2>1. tx[q].gone \in recorded'
    BY <1>1 DEF Unlinking
  <2>2. \A x \in tx[q].moves : holder'[x] = q
    BY <1>2, <1>3 DEF Unlinking, Tx, Rows
  <2>3. CASE stays' = stays
    BY <1>2, <2>1, <2>2, <2>3 DEF Unlinking
  <2>4. CASE stays' # stays
    <3>1. tx[q].moves = {} /\ DOMAIN stays' = Refs
      BY <1>2, <1>6, <2>4 DEF Unlinking, Tx
    <3>2. tx[q].gone # NoConnection /\ tx[q].gone # <<r, Booking>>
      <4>1. tx[q].gone \in recorded /\ tx[q].gone \in Connections
        BY DEF Unlinking, Inv, TypeOK
      <4> QED
        BY <1>1, <4>1, NoSuchConnection DEF Inv, RecordsOver
    <3>3. {x \in DOMAIN stays' : stays'[x].owner = tx[q].gone} = {}
      BY <1>6, <2>4, <3>1, <3>2
    <3> QED
      BY <1>2, <2>1, <2>2, <3>1, <3>3 DEF Unlinking
  <2> QED
    BY <2>3, <2>4
<1> QED
  BY <1>2, <1>4, <1>5, <1>8, <1>9 DEF SessionOK

\* The commit of a request links what it records, and records nothing for what was linked
\* when it arrived.
LEMMA LinksCommitted ==
    ASSUME Inv, NEW r \in Requests, Commit(r) PROVE LinkedIffRecorded'
<1> DEFINE t == tx[r]
<1>1. /\ pc[r] = "commit" /\ tx' = tx /\ t \in Tx
      /\ linked' = linked \cup t.flips /\ recorded' = recorded \cup t.made
  BY DEF Commit, Inv, TypeOK
<1>2. CASE t.op \in {"link", "scan"}
  <2>1. Linking(r)
    BY <1>1, <1>2 DEF Inv, SessionOK, InFlight
  <2>2. /\ t.made = {<<r, a>> : a \in t.about} /\ t.flips \subseteq t.about
        /\ t.about \subseteq linked \cup t.flips /\ t.about \cap t.seen = {}
    BY <1>1, <2>1 DEF Linking
  <2>3. ASSUME NEW a \in Accounts
        PROVE  Linkings(a)' = Linkings(a) \cup {c \in {<<r, a>>} : a \in t.about}
    <3>1. \A c \in t.made : c[1] = r /\ (c[2] = a <=> c = <<r, a>>)
      BY <2>2
    <3>2. <<r, a>> \in t.made <=> a \in t.about
      BY <2>2
    <3> HIDE DEF t
    <3>3. \A c \in t.made : tx[c[1]].op \in {"link", "scan"}
      BY <1>2, <3>1 DEF t
    <3> QED
      BY <1>1, <3>1, <3>2, <3>3 DEF Linkings
  <2>4. ASSUME NEW a \in Accounts \ SeedLinked
        PROVE  a \in linked' <=> Linkings(a)' # {}
    BY <1>1, <2>2, <2>3 DEF Inv, LinkedIffRecorded
  <2>5. ASSUME NEW a \in Accounts, NEW c \in Linkings(a)'
        PROVE  a \notin tx[c[1]].seen
    BY <2>2, <2>3, <2>5 DEF Inv, LinkedIffRecorded
  <2> QED
    BY <1>1, <2>4, <2>5 DEF LinkedIffRecorded
<1>3. CASE t.op \notin {"link", "scan"}
  <2>1. t.op \in {"import", "unlink"} /\ Doing(r)
    BY <1>1, <1>3 DEF Inv, SessionOK, Doing, Tx, Operations
  <2>2. t.flips = {} /\ \A c \in t.made : c[1] = r
    <3>1. CASE t.op = "import"
      BY <1>1, <3>1 DEF Inv, SessionOK, InFlight, Importing
    <3>2. CASE t.op = "unlink"
      BY <1>1, <3>2 DEF Inv, SessionOK, InFlight, Unlinking
    <3> QED
      BY <2>1, <3>1, <3>2
  <2>3. \A a \in Accounts : Linkings(a)' = Linkings(a)
    BY <1>1, <1>3, <2>2 DEF Linkings
  <2>4. linked' = linked
    BY <1>1, <2>2
  <2> QED
    BY <1>1, <2>3, <2>4 DEF Inv, LinkedIffRecorded
<1> QED
  BY <1>2, <1>3

\* The stays are of a connection that the commit does not delete.
LEMMA OwnersCommitted ==
    ASSUME Inv, NEW r \in Requests, Commit(r) PROVE ImportsMoveTogether'
<1> DEFINE t == tx[r]
<1>1. /\ pc[r] = "commit" /\ t \in Tx /\ stays' = StaysAfter(r)
      /\ connections' = (connections \cup t.made) \ {t.gone}
      /\ t.op \in {"link", "scan", "import", "unlink"}
  BY DEF Commit, Inv, TypeOK, SessionOK, Doing, Tx, Operations
<1>2. CASE t.moves = {}
  <2>1. stays' = stays
    BY <1>1, <1>2, StaysCommitted
  <2>2. \A x \in DOMAIN stays : stays[x].owner # NoConnection => stays[x].owner # t.gone
    <3>1. CASE t.op \in {"link", "scan"}
      BY <1>1, <3>1 DEF Inv, SessionOK, InFlight, Linking
    <3>2. CASE t.op = "import"
      BY <1>1, <3>2 DEF Inv, SessionOK, InFlight, Importing
    <3>3. CASE t.op = "unlink"
      <4>1. Unlinking(r) /\ t.pending = {}
        BY <1>1, <3>3 DEF Inv, SessionOK, InFlight, Unlinking
      <4>2. CASE Refs = {}
        BY <4>2 DEF Inv, TypeOK
      <4>3. CASE Refs # {}
        BY <1>1, <1>2, <4>1, <4>3 DEF Unlinking
      <4> QED
        BY <4>2, <4>3
    <3> QED
      BY <1>1, <3>1, <3>2, <3>3
  <2>3. ASSUME NEW x \in DOMAIN stays, NEW y \in Refs
        PROVE  /\ y \in DOMAIN stays /\ stays[x].owner = stays[y].owner
               /\ stays[x].owner \in connections' \cup {NoConnection}
    BY <1>1, <2>2 DEF Inv, ImportsMoveTogether
  <2> QED
    BY <2>1, <2>3 DEF ImportsMoveTogether
<1>3. CASE t.moves # {}
  <2>1. /\ t.moves = Refs /\ DOMAIN stays' = Refs /\ t.op \in {"import", "unlink"}
        /\ \A x \in Refs : stays'[x].owner =
               IF t.op = "unlink" THEN NoConnection ELSE <<r, Booking>>
    BY <1>1, <1>3, StaysCommitted
  <2>2. t.op = "import" => <<r, Booking>> \in connections'
    <3> SUFFICES ASSUME t.op = "import" PROVE <<r, Booking>> \in connections'
      OBVIOUS
    <3>1. t.made = {<<r, Booking>>} /\ t.gone = NoConnection
      BY <1>1, <1>3 DEF Inv, SessionOK, InFlight, Importing
    <3>2. <<r, Booking>> # NoConnection
      BY AccountsAssumption DEF NoConnection
    <3> QED
      BY <1>1, <3>1, <3>2
  <2> QED
    BY <2>1, <2>2 DEF ImportsMoveTogether
<1> QED
  BY <1>2, <1>3

LEMMA CommitStep == ASSUME Inv, NEW r \in Requests, Commit(r) PROVE Inv'
<1>1. /\ pc[r] = "commit" /\ pc' = [pc EXCEPT ![r] = "done"] /\ tx' = tx /\ tx[r] \in Tx
      /\ linked' = linked \cup tx[r].flips /\ recorded' = recorded \cup tx[r].made
      /\ connections' = (connections \cup tx[r].made) \ {tx[r].gone}
      /\ stays' = StaysAfter(r) /\ Unlock(r) /\ registry' = registry
  BY DEF Commit, Inv, TypeOK
<1>2. TypeOK'
  <2>1. linked' \subseteq Accounts /\ recorded' \subseteq Connections /\ connections' \subseteq recorded'
    BY <1>1 DEF Inv, TypeOK, Tx
  <2>2. DOMAIN stays' \subseteq Refs /\ stays' \in [DOMAIN stays' -> Stay]
    BY <1>1, StaysCommitted
  <2>3. holder' \in [Rows -> Requests \cup {NoRequest}]
    BY <1>1, UnlockRows DEF Inv
  <2>4. pc' \in [Requests -> Stages] /\ tx' \in [Requests -> Tx] /\ registry' \subseteq Providers
    BY <1>1 DEF Inv, TypeOK, Stages, Answered
  <2> QED
    BY <2>1, <2>2, <2>3, <2>4 DEF TypeOK
<1>3. RecordsOver'
  <2>1. \A c \in tx[r].made : c[1] = r
    <3>1. /\ tx[r].op \in {"link", "scan"} => Linking(r)
          /\ tx[r].op = "import" => Importing(r)
          /\ tx[r].op = "unlink" => Unlinking(r)
          /\ tx[r].op \in {"link", "scan", "import", "unlink"}
      BY <1>1 DEF Inv, SessionOK, InFlight, Doing, Tx, Operations
    <3> QED
      BY <1>1, <3>1 DEF Linking, Importing, Unlinking
  <2>2. \A c \in recorded : c[1] \in Requests
    BY DEF Inv, TypeOK, Connections
  <2> QED
    BY <1>1, <2>1, <2>2 DEF Inv, RecordsOver, TypeOK
<1>4. SessionOK(r)'
  <2>1. pc'[r] = "done" /\ tx'[r] = tx[r] /\ \A x \in Rows : holder'[x] # r
    BY <1>1, UnlockRows DEF Inv, TypeOK
  <2> QED
    BY <2>1 DEF SessionOK, Doing, Holding, InFlight
<1>5. ASSUME NEW q \in Requests PROVE SessionOK(q)'
  BY <1>4, OthersAfterCommit
<1> QED
  BY <1>2, <1>3, <1>5, LinksCommitted, OwnersCommitted DEF Inv

-----------------------------------------------------------------------------
LEMMA NextStep == Inv /\ [Next]_vars => Inv'
<1> SUFFICES ASSUME Inv, [Next]_vars PROVE Inv'
  OBVIOUS
<1>1. CASE UNCHANGED vars
  <2>1. TypeOK' /\ RecordsOver' /\ ImportsMoveTogether'
    BY <1>1 DEF Inv, vars, db, TypeOK, RecordsOver, ImportsMoveTogether
  <2>2. LinkedIffRecorded'
    BY <1>1 DEF Inv, vars, db, LinkedIffRecorded, Linkings
  <2>3. ASSUME NEW q \in Requests PROVE SessionOK(q)'
    BY <1>1, Undisturbed DEF vars
  <2> QED
    BY <2>1, <2>2, <2>3 DEF Inv
<1>2. CASE Next
  <2>1. PICK r \in Requests :
            \/ ReceiveLink(r) \/ ReceiveScan(r) \/ ReceiveImport(r) \/ ReceiveUnlink(r)
            \/ Proceed(r) \/ Fail(r)
    BY <1>2 DEF Next
  <2>2. CASE ReceiveLink(r)
    <3>1. CASE \E a \in Accounts : Arrive(r, "link", {a}, "check")
      <4>1. PICK a \in Accounts : Arrive(r, "link", {a}, "check")
        BY <3>1
      <4>2. {a} \in SUBSET Accounts /\ \A b, c \in {a} : b = c
        OBVIOUS
      <4> QED
        BY <4>1, <4>2, ArriveStep
    <3>2. CASE Arrive(r, "link", {}, "refused")
      BY <3>2, ArriveStep
    <3> QED
      BY <2>2, <3>1, <3>2 DEF ReceiveLink
  <2>3. CASE ReceiveScan(r)
    <3>1. Discovered \in SUBSET Accounts
      BY DEF Discovered
    <3> QED
      BY <2>3, <3>1, ArriveStep DEF ReceiveScan
  <2>4. CASE DeadlockVictim(r)
    <3>1. PICK S \in SUBSET Requests : r \in S /\ Deadlock(S)
      BY <2>4 DEF DeadlockVictim
    <3>2. Wanted(r) # {}
      BY <3>1 DEF Deadlock, BlockedBy
    <3>3. pc[r] \in InFlight
      BY <3>2 DEF Wanted, InFlight
    <3> QED
      BY <2>4, <3>3, RollbackStep DEF DeadlockVictim
  <2>5. CASE Fail(r)
    BY <2>5, RollbackStep DEF Fail
  <2>6. CASE ReceiveImport(r) \/ ReceiveUnlink(r)
    BY <2>6, ReceiveImportStep, ReceiveUnlinkStep
  <2>7. CASE CheckAccount(r) \/ Select(r) \/ Flip(r) \/ Connect(r)
    BY <2>7, CheckAccountStep, SelectStep, FlipStep, ConnectStep
  <2>8. CASE Clear(r) \/ Lookup(r) \/ Upsert(r)
    BY <2>8, ClearStep, LookupStep, UpsertStep
  <2>9. CASE Delete(r) \/ SetNull(r) \/ Commit(r)
    BY <2>9, DeleteStep, SetNullStep, CommitStep
  <2> QED
    BY <2>1, <2>2, <2>3, <2>4, <2>5, <2>6, <2>7, <2>8, <2>9 DEF Proceed
<1> QED
  BY <1>1, <1>2

\* The invariant holds in every reachable state.
LEMMA Invariance == Spec => []Inv
<1>1. Init => Inv
  BY InitInv
<1>2. Inv /\ [Next]_vars => Inv'
  BY NextStep
<1> QED
  BY <1>1, <1>2, PTL DEF Spec

-----------------------------------------------------------------------------
(* The results *)

\* Every variable keeps its type: locks are of rows that exist, every open transaction
\* is one that some operation could have begun, and connections stay among the recorded.
THEOREM TypeCorrect == Spec => []TypeOK
<1>1. Inv => TypeOK
  BY DEF Inv
<1> QED
  BY <1>1, Invariance, PTL

\* However links, scans and their failures cross, an account is linked exactly if a
\* connection records it, and one that arrives late records nothing.
THEOREM LinksRecorded == Spec => []LinkedIffRecorded
<1>1. Inv => LinkedIffRecorded
  BY DEF Inv
<1> QED
  BY <1>1, Invariance, PTL

\* However imports and unlinks cross, the reservations are stays of one connection
\* that exists, or of none.
THEOREM ImportsTogether == Spec => []ImportsMoveTogether
<1>1. Inv => ImportsMoveTogether
  BY DEF Inv
<1> QED
  BY <1>1, Invariance, PTL

\* A request that flushes or imports waits for a row above all that it has written.
LEMMA WaitsAbove ==
    ASSUME Inv, NEW r \in Requests, tx[r].op # "unlink", Wanted(r) # {}
    PROVE  /\ Min(tx[r].pending) \in Rows /\ Wanted(r) = {Min(tx[r].pending)}
           /\ \A x \in Rows : holder[x] = r => x < Min(tx[r].pending)
<1>1. pc[r] \in {"flush", "upsert", "setnull"} /\ tx[r] \in Tx
  BY DEF Wanted, Inv, TypeOK
<1>2. /\ Doing(r) /\ Holding(r) /\ Ascending(r)
      /\ tx[r].op \in {"link", "scan"} => Linking(r)
      /\ tx[r].op = "import" => Importing(r)
  BY <1>1 DEF Inv, SessionOK, InFlight
<1>3. pc[r] \in {"flush", "upsert"} /\ tx[r].pending # {} /\ tx[r].pending \subseteq Rows
  BY <1>1, <1>2 DEF Doing, Linking, Importing, Tx
<1>4. Rows \subseteq Nat
  BY AccountsAssumption DEF Rows
<1>5. Min(tx[r].pending) \in tx[r].pending
  BY <1>3, <1>4, MinOf
<1> QED
  BY <1>2, <1>3, <1>5 DEF Wanted, NextRow, Holding, Ascending

\* Requests never wait for one another in a circle of which none unlinks: of the rows
\* they wait for, the owner of the greatest would wait for a greater one.
THEOREM DeadlockOnlyByUnlink == Spec => []DeadlockNeedsUnlink
<1>1. ASSUME Inv, NEW S \in SUBSET Requests, Deadlock(S), \A r \in S : tx[r].op # "unlink"
      PROVE  FALSE
  <2> DEFINE wanted == {Min(tx[r].pending) : r \in S}
  <2>1. \A r \in S : r \in Requests /\ Wanted(r) # {}
    BY <1>1 DEF Deadlock, BlockedBy
  <2>2. ASSUME NEW r \in S
        PROVE  /\ Min(tx[r].pending) \in Rows /\ Wanted(r) = {Min(tx[r].pending)}
               /\ \A x \in Rows : holder[x] = r => x < Min(tx[r].pending)
    BY <1>1, <2>1, WaitsAbove
  <2>3. wanted \subseteq Rows /\ wanted # {}
    BY <1>1, <2>2 DEF Deadlock
  <2>4. Rows \subseteq Nat /\ IsFiniteSet(Rows)
    BY AccountsAssumption, FS_Union DEF Rows
  <2>5. IsFiniteSet(wanted)
    <3> HIDE DEF wanted
    <3> QED
      BY <2>3, <2>4, FS_Subset
  <2>6. PICK greatest \in wanted : \A x \in wanted : x <= greatest
    <3> HIDE DEF wanted
    <3> QED
      BY <2>3, <2>4, <2>5, GreatestNat
  <2>7. PICK r \in S : greatest = Min(tx[r].pending)
    BY <2>6
  <2>8. PICK q \in S : holder[greatest] = q
    <3>1. PICK q \in S : BlockedBy(r, q)
      BY <1>1 DEF Deadlock
    <3> QED
      BY <2>2, <2>7, <3>1 DEF BlockedBy
  <2>9. greatest < Min(tx[q].pending) /\ Min(tx[q].pending) \in wanted
    BY <2>2, <2>3, <2>8
  <2>10. Min(tx[q].pending) <= greatest /\ greatest \in Nat /\ Min(tx[q].pending) \in Nat
    <3> HIDE DEF wanted
    <3> QED
      BY <2>3, <2>4, <2>6, <2>9
  <2> QED
    BY <2>9, <2>10
<1>2. Inv => DeadlockNeedsUnlink
  BY <1>1 DEF DeadlockNeedsUnlink
<1> QED
  BY <1>2, Invariance, PTL

\* No step takes a stay away or replaces it: a commit leaves the rows of all stays.
THEOREM StaysSurvive == Spec => StaysKept
<1> DEFINE Kept == \A x \in DOMAIN stays : x \in DOMAIN stays' /\ stays'[x].born = stays[x].born
<1>1. Inv /\ [Next]_vars => [Kept]_vars
  <2> SUFFICES ASSUME Inv, Next PROVE Kept
    BY DEF vars
  <2>1. PICK r \in Requests :
            \/ ReceiveLink(r) \/ ReceiveScan(r) \/ ReceiveImport(r) \/ ReceiveUnlink(r)
            \/ Proceed(r) \/ Fail(r)
    BY DEF Next
  <2>2. CASE Commit(r)
    BY <2>2, StaysCommitted DEF Commit
  <2>3. CASE ReceiveLink(r) \/ ReceiveScan(r) \/ ReceiveImport(r) \/ ReceiveUnlink(r)
    BY <2>3 DEF ReceiveLink, ReceiveScan, Arrive, ReceiveImport, ReceiveUnlink, db
  <2>4. CASE CheckAccount(r) \/ Select(r) \/ Flip(r) \/ Connect(r) \/ Clear(r) \/ Lookup(r)
    BY <2>4 DEF CheckAccount, Select, Flip, Connect, Clear, Lookup, Rollback, db
  <2>5. CASE Upsert(r) \/ Delete(r) \/ SetNull(r) \/ DeadlockVictim(r) \/ Fail(r)
    BY <2>5 DEF Upsert, Delete, SetNull, DeadlockVictim, Fail, Rollback, db
  <2> QED
    BY <2>1, <2>2, <2>3, <2>4, <2>5 DEF Proceed
<1> HIDE DEF Kept
<1>2. Spec => [][Kept]_vars
  BY <1>1, Invariance, PTL DEF Spec
<1> QED
  BY <1>2 DEF Kept, StaysKept

=============================================================================
