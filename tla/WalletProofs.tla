---------------------------- MODULE WalletProofs ----------------------------
(***************************************************************************)
(* What Wallet's properties rest on, proved for every set of guests and    *)
(* requests, every price and top-up.  Inv is inductive: beside the tables  *)
(* it says what an open transaction may rely on, namely that a written row *)
(* is locked by its writer and that a copy, however stale, stays within    *)
(* bounds that only widen as others commit.  PatientInv makes the copy     *)
(* exact for a guest whose requests do not overlap, and SpendInv relates   *)
(* it to the purchases that a spend summary reads after it.                *)
(***************************************************************************)
EXTENDS Spending, FiniteSetTheorems, TLAPS

Executing == {"ensure", "insert", "loaded", "housed"}

\* The loaded copy of the budget row means something.
HasView(r) == pc[r] \in {"loaded", "housed"} \/ tx[r].dirty

\* A request that is not in flight has no transaction.
NoTxOutsideFlight(r) == pc[r] \notin InFlight => tx[r] = CleanTx

\* The call being executed passed its argument checks; past the stay, it is a
\* purchase the copy covers.
CallChecked(r) ==
    /\ pc[r] \in Executing => Valid(call[r])
    /\ pc[r] = "housed" => call[r].op = "purchase" /\ call[r].amount <= tx[r].view

\* A transaction that wrote the row holds its lock, and one that inserted the
\* row is the only one that can.
WriterLocks(r) ==
    /\ tx[r].dirty => holder[Me(r)] = r
    /\ tx[r].opened => tx[r].dirty /\ Me(r) \notin rows
    /\ HasView(r) /\ ~tx[r].opened => Me(r) \in rows
    /\ ~tx[r].dirty => tx[r].spent = 0 /\ tx[r].added = 0

\* The copy lies between the bounds of the committed tables and the
\* transaction's own movements.
ViewBounded(r) ==
    HasView(r) =>
        /\ 0 <= tx[r].view
        /\ InitialBudget - purchased[Me(r)] - tx[r].spent <= tx[r].view
        /\ tx[r].view <= InitialBudget + toppedUp[Me(r)] + tx[r].added

\* Uncommitted stays and the hotel purchases they are for.
StayPending(r) == tx[r].stays = tx[r].hotels + (IF pc[r] = "housed" THEN 1 ELSE 0)

SessionOK(r) ==
    /\ NoTxOutsideFlight(r)
    /\ CallChecked(r)
    /\ WriterLocks(r)
    /\ ViewBounded(r)
    /\ StayPending(r)

Tables == NonNegative /\ BalanceBounds /\ OpenedOnce /\ StaysMatchHotels

Inv == TypeOK /\ Tables /\ \A r \in Requests : SessionOK(r)

-----------------------------------------------------------------------------
USE DEF Me

\* A session another request's step does not touch keeps its invariant, as long
\* as the tables stand and its lock is not taken away.
LEMMA Undisturbed ==
    ASSUME NEW q \in Requests, TypeOK, SessionOK(q),
           pc'[q] = pc[q], tx'[q] = tx[q], call'[q] = call[q],
           UNCHANGED db, holder[Me(q)] = q => holder'[Me(q)] = q
    PROVE  SessionOK(q)'
BY DEF SessionOK, NoTxOutsideFlight, CallChecked, WriterLocks, ViewBounded,
       StayPending, HasView, Valid, db, TypeOK, Tx, Calls

LEMMA InitInv == Init => Inv
<1> SUFFICES ASSUME Init PROVE Inv
    OBVIOUS
<1>1. TypeOK
    BY WalletAssumption DEF Init, TypeOK, BudgetCall, Calls, Kinds, CleanTx, Tx
<1>2. Tables
    BY DEF Init, Tables, NonNegative, BalanceBounds, OpenedOnce, StaysMatchHotels
<1>3. ASSUME NEW r \in Requests PROVE SessionOK(r)
    BY DEF Init, SessionOK, NoTxOutsideFlight, CallChecked, WriterLocks, ViewBounded,
           StayPending, HasView, Executing, InFlight, CleanTx
<1> QED
    BY <1>1, <1>2, <1>3 DEF Inv

\* A step of r that leaves the tables alone, keeps every other session and takes
\* no lock from one only has to account for r itself.
LEMMA SessionStep ==
    ASSUME Inv, NEW r \in Requests, UNCHANGED db, TypeOK', SessionOK(r)',
           \A q \in Requests \ {r} :
               pc'[q] = pc[q] /\ tx'[q] = tx[q] /\ call'[q] = call[q],
           \A q \in Requests \ {r} : holder[Me(q)] = q => holder'[Me(q)] = q
    PROVE  Inv'
<1>1. Tables'
    BY DEF Inv, Tables, NonNegative, BalanceBounds, OpenedOnce, StaysMatchHotels, db
<1>2. ASSUME NEW q \in Requests PROVE SessionOK(q)'
    <2>1. CASE q = r
        BY <2>1
    <2>2. CASE q # r
        BY <2>2, Undisturbed DEF Inv
    <2> QED
        BY <2>1, <2>2
<1> QED
    BY <1>1, <1>2 DEF Inv

\* ROLLBACK leaves the tables as they were and the session empty.
LEMMA RollbackStep ==
    ASSUME Inv, NEW r \in Requests, NEW answer \in Answered, Rollback(r, answer)
    PROVE  Inv'
<1>1. TypeOK'
    BY WalletAssumption DEF Inv, TypeOK, Rollback, Unlock, BudgetCall, Calls, Kinds,
       CleanTx, Tx, Answered, db
<1>2. SessionOK(r)'
    BY WalletAssumption DEF Inv, TypeOK, Rollback, Unlock, BudgetCall, CleanTx, Answered, SessionOK,
       NoTxOutsideFlight, CallChecked, WriterLocks, ViewBounded, StayPending, HasView,
       Executing, InFlight, db
<1>3. \A q \in Requests \ {r} : holder[Me(q)] = q => holder'[Me(q)] = q
    BY WalletAssumption DEF Rollback, Unlock, Inv, TypeOK
<1>4. \A q \in Requests \ {r} :
          pc'[q] = pc[q] /\ tx'[q] = tx[q] /\ call'[q] = call[q]
    BY DEF Rollback, Inv, TypeOK
<1> QED
    BY <1>1, <1>2, <1>3, <1>4, SessionStep DEF Rollback

LEMMA CallTypes == HttpCalls \cup ToolCalls \subseteq Calls
<1>1. BudgetCall("budget") \in Calls
    BY DEF BudgetCall, Calls, Kinds
<1>2. TopUpCalls \subseteq Calls
    BY WalletAssumption DEF TopUpCalls, Calls, Kinds
<1>3. PurchaseCalls \subseteq Calls
    BY WalletAssumption DEF PurchaseCalls, Calls, Kinds
<1> QED
    BY <1>1, <1>2, <1>3 DEF HttpCalls, ToolCalls

\* What the steps do to a transaction keeps its type.
LEMMA TxLoaded ==
    ASSUME NEW t \in Tx, NEW v \in Int
    PROVE  [t EXCEPT !.view = v] \in Tx
BY DEF Tx

LEMMA TxHoused ==
    ASSUME NEW t \in Tx, NEW n \in Nat
    PROVE  [t EXCEPT !.stays = n] \in Tx
BY DEF Tx

LEMMA TxOpened ==
    ASSUME NEW t \in Tx, NEW v \in Int
    PROVE  [t EXCEPT !.view = v, !.dirty = TRUE, !.opened = TRUE] \in Tx
BY DEF Tx

LEMMA TxToppedUp ==
    ASSUME NEW t \in Tx, NEW v \in Int, NEW n \in Nat
    PROVE  [t EXCEPT !.view = v, !.dirty = TRUE, !.added = n] \in Tx
BY DEF Tx

LEMMA TxPurchased ==
    ASSUME NEW t \in Tx, NEW v \in Int, NEW d \in BOOLEAN, NEW n \in Nat, NEW h \in Nat
    PROVE  [t EXCEPT !.view = v, !.dirty = d, !.spent = n, !.hotels = h] \in Tx
BY DEF Tx

\* The steps that write nothing: arrivals, the chat loop, the reads, the checks.
LEMMA QuietStep ==
    ASSUME Inv, NEW r \in Requests, UNCHANGED <<db, holder>>,
           \/ Receive(r) \/ OpenChat(r) \/ CallTool(r) \/ Reply(r) \/ EnsureBudget(r)
           \/ ReadBudget(r) \/ EnsureHotelStay(r)
           \/ RefusePurchase(r) /\ r \in ChatTurns
    PROVE  Inv'
<1> USE DEF BudgetCall, InFlight, Answered, Executing, HasView, CallEnds
<1>1. TypeOK'
    <2>1. CASE Receive(r)
        BY <2>1, CallTypes DEF Inv, TypeOK, db, Receive
    <2>2. CASE OpenChat(r)
        BY <2>2 DEF Inv, TypeOK, db, OpenChat
    <2>3. CASE CallTool(r)
        BY <2>3, CallTypes DEF Inv, TypeOK, db, CallTool, Tx
    <2>4. CASE Reply(r)
        BY <2>4 DEF Inv, TypeOK, db, Reply, Calls, Kinds
    <2>5. CASE EnsureBudget(r)
        <3>1. tx[r] \in Tx /\ balance[Me(r)] \in Int
            BY WalletAssumption DEF Inv, TypeOK
        <3>2. [tx[r] EXCEPT !.view = balance[Me(r)]] \in Tx
            BY <3>1, TxLoaded
        <3>3. tx' \in [Requests -> Tx]
            BY <2>5, <3>2 DEF Inv, TypeOK, db, EnsureBudget
        <3> QED
            BY <2>5, <3>3 DEF Inv, TypeOK, db, EnsureBudget
    <2>6. CASE ReadBudget(r) \/ (RefusePurchase(r) /\ r \in ChatTurns)
        BY <2>6 DEF Inv, TypeOK, db, ReadBudget, RefusePurchase
    <2>7. CASE EnsureHotelStay(r)
        <3> DEFINE n == tx[r].stays + 1
        <3>1. tx[r] \in Tx
            BY DEF Inv, TypeOK
        <3>2. n \in Nat
            BY <3>1 DEF Tx
        <3>3. tx' = [tx EXCEPT ![r] = [tx[r] EXCEPT !.stays = n]]
            BY <2>7 DEF Inv, TypeOK, db, EnsureHotelStay
        <3> HIDE DEF n
        <3>4. [tx[r] EXCEPT !.stays = n] \in Tx
            BY <3>1, <3>2, TxHoused
        <3>5. tx' \in [Requests -> Tx]
            BY <3>3, <3>4 DEF Inv, TypeOK
        <3> QED
            BY <2>7, <3>5 DEF Inv, TypeOK, db, EnsureHotelStay
    <2> QED
        BY <2>1, <2>2, <2>3, <2>4, <2>5, <2>6, <2>7
<1>2. SessionOK(r)'
    <2> USE DEF SessionOK, NoTxOutsideFlight, CallChecked, WriterLocks, ViewBounded,
                StayPending
    <2>1. CASE Receive(r) \/ OpenChat(r)
        BY <2>1, WalletAssumption DEF Inv, TypeOK, Receive, OpenChat, MaySend, CleanTx, db, Valid
    <2>2. CASE CallTool(r)
        BY <2>2, WalletAssumption DEF Inv, TypeOK, CallTool, db, Valid, Tx
    <2>3. CASE Reply(r)
        BY <2>3, WalletAssumption DEF Inv, TypeOK, Reply, db, Valid, Tx
    <2>4. CASE EnsureBudget(r)
        BY <2>4, WalletAssumption DEF Inv, TypeOK, Tables, NonNegative, BalanceBounds,
           EnsureBudget, db, Valid, Tx
    <2>5. CASE ReadBudget(r)
        BY <2>5, WalletAssumption DEF Inv, TypeOK, ReadBudget, db, Tx
    <2>6. CASE EnsureHotelStay(r)
        BY <2>6, WalletAssumption DEF Inv, TypeOK, EnsureHotelStay, Affordable, db, Tx, Valid
    <2>7. CASE RefusePurchase(r) /\ r \in ChatTurns
        BY <2>7, WalletAssumption DEF Inv, TypeOK, RefusePurchase, db, Tx
    <2> QED
        BY <2>1, <2>2, <2>3, <2>4, <2>5, <2>6, <2>7
<1>3. \A q \in Requests \ {r} :
          pc'[q] = pc[q] /\ tx'[q] = tx[q] /\ call'[q] = call[q]
    BY DEF Inv, TypeOK, Receive, OpenChat, CallTool, Reply, EnsureBudget,
       ReadBudget, EnsureHotelStay, RefusePurchase, Rollback
<1> QED
    BY <1>1, <1>2, <1>3, SessionStep

\* The steps that lock the row and write the session's version of it.
LEMMA WriteStep ==
    ASSUME Inv, NEW r \in Requests, UNCHANGED db, Lock(r), MayLock(r),
           (InsertBudget(r) /\ Me(r) \notin rows) \/ TopUp(r) \/ Purchase(r)
    PROVE  Inv'
<1> USE DEF BudgetCall, InFlight, Answered, Executing, HasView, CallEnds
<1>1. TypeOK'
    <2> USE DEF Inv, TypeOK, db
    <2>1. holder' \in [Guests -> Requests \cup {NoRequest}]
        BY WalletAssumption DEF Lock
    <2>2. pc' \in [Requests -> {"idle"} \cup InFlight \cup Answered] /\ call' = call
        BY DEF InsertBudget, TopUp, Purchase, Rollback
    <2>3. tx[r] \in Tx /\ call[r] \in Calls /\ CallChecked(r)
        BY DEF SessionOK
    <2>4. CASE InsertBudget(r) /\ Me(r) \notin rows
        <3>1. InitialBudget \in Int
            BY WalletAssumption
        <3>2. [tx[r] EXCEPT !.view = InitialBudget, !.dirty = TRUE, !.opened = TRUE] \in Tx
            BY <2>3, <3>1, TxOpened
        <3>3. tx' = [tx EXCEPT ![r] =
                  [tx[r] EXCEPT !.view = InitialBudget, !.dirty = TRUE, !.opened = TRUE]]
            BY <2>4 DEF InsertBudget
        <3>4. tx' \in [Requests -> Tx]
            BY <3>2, <3>3
        <3> QED
            BY <2>1, <2>2, <3>4
    <2>5. CASE TopUp(r)
        <3> DEFINE v == tx[r].view + call[r].amount
                   n == tx[r].added + call[r].amount
        <3>1. call[r].amount \in Nat
            BY <2>3, <2>5 DEF TopUp, CallChecked, Valid, Calls
        <3>2. v \in Int /\ n \in Nat
            BY <2>3, <3>1 DEF Tx
        <3>3. tx' = [tx EXCEPT ![r] =
                        [tx[r] EXCEPT !.view = v, !.dirty = TRUE, !.added = n]]
            BY <2>5 DEF TopUp
        <3> HIDE DEF v, n
        <3>4. [tx[r] EXCEPT !.view = v, !.dirty = TRUE, !.added = n] \in Tx
            BY <2>3, <3>2, TxToppedUp
        <3>5. tx' \in [Requests -> Tx]
            BY <3>3, <3>4
        <3> QED
            BY <2>1, <2>2, <3>5
    <2>6. CASE Purchase(r)
        <3> DEFINE v == tx[r].view - call[r].amount
                   d == tx[r].dirty \/ call[r].amount # 0
                   n == tx[r].spent + call[r].amount
                   h == tx[r].hotels + (IF pc[r] = "housed" THEN 1 ELSE 0)
        <3>1. call[r].amount \in Nat
            BY <2>3, <2>6 DEF Purchase, CallChecked, Valid, Calls
        <3>2. v \in Int /\ n \in Nat /\ h \in Nat
            BY <2>3, <3>1 DEF Tx
        <3>3. d \in BOOLEAN
            BY <2>3 DEF Tx
        <3>4. tx' = [tx EXCEPT ![r] =
                  [tx[r] EXCEPT !.view = v, !.dirty = d, !.spent = n, !.hotels = h]]
            BY <2>6 DEF Purchase
        <3> HIDE DEF v, d, n, h
        <3>5. [tx[r] EXCEPT !.view = v, !.dirty = d, !.spent = n, !.hotels = h] \in Tx
            BY <2>3, <3>2, <3>3, TxPurchased
        <3>6. tx' \in [Requests -> Tx]
            BY <3>4, <3>5
        <3> QED
            BY <2>1, <2>2, <3>6
    <2> QED
        BY <2>4, <2>5, <2>6
<1>2. SessionOK(r)'
    <2> USE DEF SessionOK, NoTxOutsideFlight, CallChecked, WriterLocks, ViewBounded,
                StayPending
    <2>1. CASE InsertBudget(r) /\ Me(r) \notin rows
        BY <2>1, WalletAssumption DEF Inv, TypeOK, InsertBudget, Lock, db, Tx, Rollback
    <2>2. CASE TopUp(r)
        BY <2>2, WalletAssumption DEF Inv, TypeOK, TopUp, Lock, db, Valid, Tx, Calls
    <2>3. CASE Purchase(r)
        <3>1. /\ call[r].amount \in Nat /\ call[r].op = "purchase"
              /\ tx[r] \in Tx /\ SessionOK(r) /\ r \in Requests
              /\ pc[r] \in {"loaded", "housed"}
              /\ call[r].amount <= tx[r].view
            BY <2>3 DEF Inv, TypeOK, Purchase, Affordable, Valid, Calls
        <3>2. /\ tx'[r].view = tx[r].view - call[r].amount
              /\ tx'[r].dirty => tx[r].dirty \/ call[r].amount # 0
              /\ ~tx'[r].dirty => ~tx[r].dirty /\ call[r].amount = 0
              /\ tx'[r].spent = tx[r].spent + call[r].amount
              /\ tx'[r].hotels = tx[r].hotels + (IF pc[r] = "housed" THEN 1 ELSE 0)
              /\ tx'[r].opened = tx[r].opened /\ tx'[r].added = tx[r].added
              /\ tx'[r].stays = tx[r].stays
            BY <2>3, <3>1 DEF Inv, TypeOK, Purchase, Tx
        <3>3. pc'[r] \in {"think", "commit"} /\ holder'[Me(r)] = r /\ call' = call
            BY <2>3, WalletAssumption DEF Inv, TypeOK, Purchase, Lock
        <3>4. UNCHANGED <<rows, purchased, toppedUp>> /\ Me(r) \in Guests
              /\ purchased[Me(r)] \in Nat /\ toppedUp[Me(r)] \in Nat
            BY WalletAssumption DEF db, Inv, TypeOK
        <3>5. NoTxOutsideFlight(r)' /\ CallChecked(r)'
            BY <3>3
        <3>6. WriterLocks(r)'
            BY <3>1, <3>2, <3>3, <3>4 DEF Tx
        <3>7. ViewBounded(r)'
            BY <3>1, <3>2, <3>3, <3>4, WalletAssumption DEF Tx
        <3>8. StayPending(r)'
            BY <3>1, <3>2, <3>3 DEF Tx
        <3> QED
            BY <3>5, <3>6, <3>7, <3>8
    <2> QED
        BY <2>1, <2>2, <2>3
<1>3. \A q \in Requests \ {r} :
          pc'[q] = pc[q] /\ tx'[q] = tx[q] /\ call'[q] = call[q]
    BY DEF Inv, TypeOK, InsertBudget, TopUp, Purchase, Rollback
<1>4. \A q \in Requests \ {r} : holder[Me(q)] = q => holder'[Me(q)] = q
    BY WalletAssumption DEF Lock, MayLock, Inv, TypeOK
<1> QED
    BY <1>1, <1>2, <1>3, <1>4, SessionStep

\* COMMIT, guest by guest.
LEMMA CommitEffects ==
    ASSUME Inv, NEW r \in Requests, Commit(r)
    PROVE  \A g \in Guests :
               /\ purchased'[g] = purchased[g] + (IF g = Me(r) THEN tx[r].spent ELSE 0)
               /\ toppedUp'[g] = toppedUp[g] + (IF g = Me(r) THEN tx[r].added ELSE 0)
               /\ balance'[g] = (IF g = Me(r) /\ tx[r].dirty THEN tx[r].view ELSE balance[g])
               /\ openings'[g] = openings[g] + (IF g = Me(r) /\ tx[r].opened THEN 1 ELSE 0)
<1>1. tx[r] \in Tx /\ Me(r) \in Guests
    BY WalletAssumption DEF Inv, TypeOK
<1>2. tx[r].spent \in Nat /\ tx[r].added \in Nat /\ tx[r].view \in Int
    BY <1>1 DEF Tx
<1> QED
    BY <1>1, <1>2 DEF Commit, Inv, TypeOK

\* What COMMIT makes visible: the writer's copy for its own guest, bounds that
\* only widen for everybody else.
LEMMA CommitTables ==
    ASSUME Inv, NEW r \in Requests, Commit(r)
    PROVE  /\ TypeOK' /\ Tables'
           /\ rows \subseteq rows'
           /\ \A g \in Guests : purchased[g] <= purchased'[g] /\ toppedUp[g] <= toppedUp'[g]
           /\ \A g \in rows' \ rows : g = Me(r) /\ tx[r].opened
<1>1. /\ tx[r] \in Tx /\ SessionOK(r) /\ Me(r) \in Guests /\ pc[r] = "commit"
      /\ InitialBudget \in Nat
    BY WalletAssumption DEF Inv, TypeOK, Commit
<1>2. /\ tx[r].spent \in Nat /\ tx[r].added \in Nat /\ tx[r].view \in Int
      /\ tx[r].stays \in Nat /\ tx[r].hotels \in Nat
      /\ tx[r].dirty \in BOOLEAN /\ tx[r].opened \in BOOLEAN
    BY <1>1 DEF Tx
<1>3. /\ rows' \subseteq Guests /\ rows \subseteq rows'
      /\ \A g \in rows' \ rows : g = Me(r) /\ tx[r].opened
    BY <1>1 DEF Commit, Inv, TypeOK
<1>4. TypeOK'
    <2>1. /\ purchased' \in [Guests -> Nat] /\ toppedUp' \in [Guests -> Nat]
          /\ balance' \in [Guests -> Int] /\ openings' \in [Guests -> Nat]
        BY <1>1, <1>2 DEF Commit, Inv, TypeOK
    <2>2. stays' \in Nat /\ hotels' \in Nat
        BY <1>2 DEF Commit, Inv, TypeOK
    <2>3. /\ holder' \in [Guests -> Requests \cup {NoRequest}]
          /\ pc' \in [Requests -> {"idle"} \cup InFlight \cup Answered]
          /\ call' \in [Requests -> Calls]
          /\ tx' \in [Requests -> Tx]
        BY DEF Commit, Inv, TypeOK, Unlock, Answered, BudgetCall, Calls, Kinds, CleanTx, Tx
    <2> QED
        BY <1>3, <2>1, <2>2, <2>3 DEF TypeOK
<1>5. Tables'
    <2>1. NonNegative'
        BY <1>1, <1>2, CommitEffects DEF Inv, Tables, NonNegative, SessionOK, ViewBounded, HasView
    <2>2. BalanceBounds'
        <3> SUFFICES ASSUME NEW g \in rows'
                     PROVE  /\ InitialBudget - purchased'[g] <= balance'[g]
                            /\ balance'[g] <= InitialBudget + toppedUp'[g]
            BY DEF BalanceBounds
        <3>1. g \in Guests /\ purchased[g] \in Nat /\ toppedUp[g] \in Nat /\ balance[g] \in Int
            BY <1>3 DEF Inv, TypeOK
        <3>2. CASE g = Me(r) /\ tx[r].dirty
            BY <1>1, <1>2, CommitEffects, <3>1, <3>2 DEF SessionOK, ViewBounded, HasView
        <3>3. CASE ~(g = Me(r) /\ tx[r].dirty)
            <4>1. g \in rows
                BY <1>1, <1>3, <3>3 DEF SessionOK, WriterLocks
            <4> QED
                BY <1>1, <1>2, CommitEffects, <3>1, <3>3, <4>1
                DEF Inv, Tables, BalanceBounds, SessionOK, WriterLocks
        <3> QED
            BY <3>2, <3>3
    <2>3. OpenedOnce'
        BY <1>1, <1>2, <1>3, CommitEffects
        DEF Inv, TypeOK, Tables, OpenedOnce, SessionOK, WriterLocks, Commit
    <2>4. StaysMatchHotels'
        BY <1>1, <1>2 DEF Inv, Tables, StaysMatchHotels, Commit, SessionOK, StayPending
    <2> QED
        BY <2>1, <2>2, <2>3, <2>4 DEF Tables
<1>6. \A g \in Guests : purchased[g] <= purchased'[g] /\ toppedUp[g] <= toppedUp'[g]
    BY <1>2, CommitEffects DEF Inv, TypeOK
<1> QED
    BY <1>3, <1>4, <1>5, <1>6

LEMMA CommitStep ==
    ASSUME Inv, NEW r \in Requests, Commit(r)
    PROVE  Inv'
<1>1. SessionOK(r)'
    <2>1. pc'[r] = "done" /\ tx'[r] = CleanTx
        BY DEF Commit, Inv, TypeOK
    <2> QED
        BY <2>1 DEF SessionOK, NoTxOutsideFlight, CallChecked, WriterLocks, ViewBounded,
                    StayPending, HasView, Executing, CleanTx
<1>2. ASSUME NEW q \in Requests, q # r PROVE SessionOK(q)'
    <2>1. /\ pc'[q] = pc[q] /\ tx'[q] = tx[q] /\ call'[q] = call[q]
          /\ SessionOK(q) /\ SessionOK(r) /\ tx[q] \in Tx /\ Me(q) \in Guests
        BY <1>2, WalletAssumption DEF Commit, Inv, TypeOK
    <2>2. holder[Me(q)] = q => holder'[Me(q)] = q
        BY <1>2, <2>1 DEF Commit, Unlock
    <2>3. NoTxOutsideFlight(q)' /\ CallChecked(q)' /\ StayPending(q)'
        BY <2>1 DEF SessionOK, NoTxOutsideFlight, CallChecked, StayPending, Valid
    <2>4. WriterLocks(q)'
        BY <1>2, <2>1, <2>2, CommitTables DEF SessionOK, WriterLocks, HasView, Tx
    <2>5. ViewBounded(q)'
        <3>1. CASE HasView(q)
            <4>1. /\ purchased[Me(q)] \in Nat /\ toppedUp[Me(q)] \in Nat
                  /\ purchased'[Me(q)] \in Nat /\ toppedUp'[Me(q)] \in Nat
                  /\ purchased[Me(q)] <= purchased'[Me(q)]
                  /\ toppedUp[Me(q)] <= toppedUp'[Me(q)]
                BY <2>1, CommitTables DEF Inv, TypeOK
            <4>2. /\ tx[q].view \in Int /\ tx[q].spent \in Nat /\ tx[q].added \in Nat
                  /\ InitialBudget \in Nat
                BY <2>1, WalletAssumption DEF Tx
            <4> QED
                BY <2>1, <3>1, <4>1, <4>2 DEF SessionOK, ViewBounded
        <3>2. CASE ~HasView(q)
            BY <2>1, <3>2 DEF ViewBounded, HasView
        <3> QED
            BY <3>1, <3>2
    <2> QED
        BY <2>3, <2>4, <2>5 DEF SessionOK
<1> QED
    BY <1>1, <1>2, CommitTables DEF Inv

LEMMA NextInv == Inv /\ [Next]_vars => Inv'
<1> SUFFICES ASSUME Inv, [Next]_vars PROVE Inv'
    OBVIOUS
<1>1. CASE UNCHANGED vars
    BY <1>1 DEF vars, db, Inv, TypeOK, Tables, NonNegative, BalanceBounds, OpenedOnce,
       StaysMatchHotels, SessionOK, NoTxOutsideFlight, CallChecked, WriterLocks,
       ViewBounded, StayPending, HasView, Valid
<1>2. ASSUME NEW r \in Requests, Arrive(r) \/ Proceed(r) \/ Fail(r)
      PROVE  Inv'
    <2>1. CASE Receive(r) \/ OpenChat(r) \/ CallTool(r) \/ Reply(r) \/ EnsureBudget(r)
               \/ ReadBudget(r) \/ EnsureHotelStay(r)
        <3>1. UNCHANGED <<db, holder>>
            BY <2>1 DEF Receive, OpenChat, CallTool, Reply, EnsureBudget, ReadBudget,
                        EnsureHotelStay
        <3> QED
            BY <2>1, <3>1, QuietStep
    <2>2. CASE RefusePurchase(r)
        <3>1. CASE Rollback(r, "refused")
            BY <3>1, RollbackStep DEF Answered
        <3>2. CASE ~Rollback(r, "refused")
            <4>1. r \in ChatTurns /\ UNCHANGED <<db, holder>>
                BY <2>2, <3>2 DEF RefusePurchase
            <4> QED
                BY <2>2, <4>1, QuietStep
        <3> QED
            BY <3>1, <3>2
    <2>3. CASE InsertBudget(r)
        <3>1. CASE Me(r) \in rows
            BY <2>3, <3>1, RollbackStep DEF InsertBudget, Answered
        <3>2. CASE Me(r) \notin rows
            <4>1. UNCHANGED db /\ Lock(r) /\ MayLock(r)
                BY <2>3, <3>2 DEF InsertBudget, MayLock
            <4> QED
                BY <2>3, <3>2, <4>1, WriteStep
        <3> QED
            BY <3>1, <3>2
    <2>4. CASE TopUp(r) \/ Purchase(r)
        <3>1. UNCHANGED db /\ Lock(r) /\ MayLock(r)
            BY <2>4 DEF TopUp, Purchase
        <3> QED
            BY <2>4, <3>1, WriteStep
    <2>5. CASE Commit(r)
        BY <2>5, CommitStep
    <2>6. CASE Fail(r)
        BY <2>6, RollbackStep DEF Fail, Answered
    <2> QED
        BY <1>2, <2>1, <2>2, <2>3, <2>4, <2>5, <2>6 DEF Arrive, Proceed
<1> QED
    BY <1>1, <1>2 DEF Next

-----------------------------------------------------------------------------
\* Inv holds for any guests and requests, overlapping and failing as they like.
THEOREM Invariance == Spec => []Inv
BY InitInv, NextInv, PTL DEF Spec

\* TypeOK: the tables, the row locks and the sessions keep their types.
THEOREM TypeCorrect == Spec => []TypeOK
<1>1. Inv => TypeOK
    BY DEF Inv
<1> QED
    BY <1>1, Invariance, PTL

\* NonNegative: no interleaving of check and deduction overdraws a guest.
THEOREM NeverOverdrawn == Spec => []NonNegative
<1>1. Inv => NonNegative
    BY DEF Inv, Tables
<1> QED
    BY <1>1, Invariance, PTL

\* BalanceBounds: a lost update is never to the guest's loss beyond what was
\* bought, nor to the guest's gain beyond what was added.
THEOREM BalanceBounded == Spec => []BalanceBounds
<1>1. Inv => BalanceBounds
    BY DEF Inv, Tables
<1> QED
    BY <1>1, Invariance, PTL

\* OpenedOnce: racing first requests never reopen a budget.
THEOREM NeverReopened == Spec => []OpenedOnce
<1>1. Inv => OpenedOnce
    BY DEF Inv, Tables
<1> QED
    BY <1>1, Invariance, PTL

\* StaysMatchHotels: refused calls of a chat turn leave no stay behind.
THEOREM NoOrphanStay == Spec => []StaysMatchHotels
<1>1. Inv => StaysMatchHotels
    BY DEF Inv, Tables
<1> QED
    BY <1>1, Invariance, PTL

-----------------------------------------------------------------------------
(***************************************************************************)
(* For a guest whose client awaits each answer the budget is exact and the *)
(* service implements BudgetLedger, for every set of guests, of which any  *)
(* may be patient, and of requests.  PatientInv is inductive relative to   *)
(* Inv: it adds that a patient guest has one request in flight, so that    *)
(* the copy this request decides on is the committed balance.              *)
(***************************************************************************)

\* A patient guest's requests follow one another.
OneAtATime ==
    \A q, r \in Requests :
        q # r /\ Me(q) = Me(r) /\ Me(r) \in Patient /\ pc[r] \in InFlight
            => pc[q] \notin InFlight

\* The copy of a patient guest's row is what the committed tables and the
\* transaction's own movements amount to.
ExactView(r) ==
    Me(r) \in Patient /\ HasView(r) =>
        tx[r].view = InitialBudget + toppedUp[Me(r)] + tx[r].added
                                   - purchased[Me(r)] - tx[r].spent

\* A transaction either charges (a purchase, or those of a chat turn) or credits
\* once: only a request outside the chat can top up, and it makes a single call.
OneKind(r) ==
    /\ pc[r] = "think" => r \in ChatTurns
    /\ tx[r].added <= TopUpLimit
    /\ r \in ChatTurns => tx[r].added = 0 /\ call[r].op # "topup"
    /\ r \notin ChatTurns /\ pc[r] # "commit" => tx[r].spent = 0 /\ tx[r].added = 0
    /\ tx[r].added = 0 \/ tx[r].spent = 0

\* A guest without a row has no movements.
NothingBeforeOpening ==
    \A g \in Guests \ rows : purchased[g] = 0 /\ toppedUp[g] = 0

PatientInv ==
    /\ OneAtATime
    /\ Conservation
    /\ NothingBeforeOpening
    /\ \A r \in Requests : ExactView(r) /\ OneKind(r)

-----------------------------------------------------------------------------
USE DEF Me

LEMMA InitPatient == Init => PatientInv
<1> SUFFICES ASSUME Init PROVE PatientInv
    OBVIOUS
<1>1. OneAtATime
    BY DEF Init, OneAtATime, InFlight
<1>2. Conservation /\ NothingBeforeOpening
    BY WalletAssumption DEF Init, Conservation, NothingBeforeOpening
<1>3. ASSUME NEW r \in Requests PROVE ExactView(r) /\ OneKind(r)
    BY WalletAssumption DEF Init, ExactView, OneKind, HasView, CleanTx, BudgetCall
<1> QED
    BY <1>1, <1>2, <1>3 DEF PatientInv

\* A step of r that neither commits nor arrives only has to account for r's own
\* session, which stays in flight or becomes empty.
LEMMA PatientSessionStep ==
    ASSUME Inv, PatientInv, NEW r \in Requests, UNCHANGED db,
           pc[r] \in InFlight, ExactView(r)', OneKind(r)',
           \A q \in Requests \ {r} :
               pc'[q] = pc[q] /\ tx'[q] = tx[q] /\ call'[q] = call[q]
    PROVE  PatientInv'
<1>1. OneAtATime'
    BY DEF PatientInv, OneAtATime
<1>2. Conservation' /\ NothingBeforeOpening'
    BY DEF PatientInv, Conservation, NothingBeforeOpening, db
<1>3. ASSUME NEW q \in Requests PROVE (ExactView(q) /\ OneKind(q))'
    <2>1. CASE q = r
        BY <2>1
    <2>2. CASE q # r
        BY <2>2 DEF PatientInv, ExactView, OneKind, HasView, db
    <2> QED
        BY <2>1, <2>2
<1> QED
    BY <1>1, <1>2, <1>3 DEF PatientInv

\* MaySend lets a patient guest's request in only when no other is in flight.
LEMMA ArriveStep ==
    ASSUME Inv, PatientInv, NEW r \in Requests, Arrive(r)
    PROVE  PatientInv'
<1>1. /\ MaySend(r) /\ UNCHANGED <<db, holder, tx>>
      /\ pc'[r] \in {"ensure", "refused", "think"}
      /\ \A q \in Requests \ {r} : pc'[q] = pc[q] /\ call'[q] = call[q]
      /\ pc'[r] = "think" => r \in ChatTurns
      /\ r \in ChatTurns => call' = call
    BY DEF Arrive, Receive, OpenChat, Inv, TypeOK
<1>2. OneAtATime'
    <2> SUFFICES ASSUME NEW p \in Requests, NEW q \in Requests, p # q,
                        Me(p) = Me(q), Me(q) \in Patient, pc'[q] \in InFlight
                 PROVE  pc'[p] \notin InFlight
        BY DEF OneAtATime
    <2>1. CASE r \notin {p, q}
        BY <1>1, <2>1 DEF PatientInv, OneAtATime, Inv, TypeOK
    <2>2. CASE r = q
        BY <1>1, <2>2 DEF MaySend
    <2>3. CASE r = p
        BY <1>1, <2>3 DEF MaySend
    <2> QED
        BY <2>1, <2>2, <2>3
<1>3. Conservation' /\ NothingBeforeOpening'
    BY <1>1 DEF PatientInv, Conservation, NothingBeforeOpening, db
<1>4. ASSUME NEW q \in Requests PROVE (ExactView(q) /\ OneKind(q))'
    <2>1. CASE q = r
        <3>1. tx[r] = CleanTx
            BY <1>1 DEF MaySend, Inv, SessionOK, NoTxOutsideFlight, InFlight
        <3> QED
            BY <1>1, <2>1, <3>1, WalletAssumption
            DEF ExactView, OneKind, HasView, CleanTx, PatientInv, Inv, TypeOK
    <2>2. CASE q # r
        BY <1>1, <2>2 DEF PatientInv, ExactView, OneKind, HasView, db, Inv, TypeOK
    <2> QED
        BY <2>1, <2>2
<1> QED
    BY <1>2, <1>3, <1>4 DEF PatientInv

LEMMA PatientRollback ==
    ASSUME Inv, PatientInv, NEW r \in Requests, NEW answer \in Answered,
           pc[r] \in InFlight, Rollback(r, answer)
    PROVE  PatientInv'
<1>1. /\ pc'[r] = answer /\ tx'[r] = CleanTx /\ call'[r] = BudgetCall("budget")
      /\ UNCHANGED db
      /\ \A q \in Requests \ {r} :
             pc'[q] = pc[q] /\ tx'[q] = tx[q] /\ call'[q] = call[q]
    BY DEF Rollback, Inv, TypeOK
<1>2. ExactView(r)' /\ OneKind(r)'
    BY <1>1, WalletAssumption DEF ExactView, OneKind, HasView, CleanTx, BudgetCall, Answered
<1> QED
    BY <1>1, <1>2, PatientSessionStep

\* The steps inside a request, from the tool call to the flushed deduction.
LEMMA PatientServiceStep ==
    ASSUME Inv, PatientInv, NEW r \in Requests, UNCHANGED db,
           \/ CallTool(r) \/ Reply(r) \/ EnsureBudget(r) \/ ReadBudget(r)
           \/ EnsureHotelStay(r) \/ TopUp(r) \/ Purchase(r)
           \/ (InsertBudget(r) /\ Me(r) \notin rows)
           \/ (RefusePurchase(r) /\ r \in ChatTurns /\ tx' = tx)
    PROVE  PatientInv'
<1> USE DEF InFlight, HasView
<1>1. /\ pc[r] \in InFlight /\ Me(r) \in Guests /\ InitialBudget \in Nat /\ TopUpLimit \in Nat
      /\ tx[r] \in Tx /\ SessionOK(r) /\ ExactView(r) /\ OneKind(r)
      /\ tx[r].view \in Int /\ tx[r].spent \in Nat /\ tx[r].added \in Nat
      /\ tx[r].dirty \in BOOLEAN /\ tx[r].opened \in BOOLEAN
      /\ toppedUp[Me(r)] \in Nat /\ purchased[Me(r)] \in Nat /\ balance[Me(r)] \in Int
      /\ UNCHANGED <<toppedUp, purchased, balance, rows>>
    BY WalletAssumption
    DEF Inv, PatientInv, TypeOK, Tx, CallTool, Reply, EnsureBudget, ReadBudget, db,
        EnsureHotelStay, TopUp, Purchase, InsertBudget, RefusePurchase
<1>2. \A q \in Requests \ {r} :
          pc'[q] = pc[q] /\ tx'[q] = tx[q] /\ call'[q] = call[q]
    BY DEF Inv, TypeOK, CallTool, Reply, EnsureBudget, ReadBudget, EnsureHotelStay,
           TopUp, Purchase, InsertBudget, RefusePurchase, Rollback
<1>3. ExactView(r)' /\ OneKind(r)'
    <2>1. CASE CallTool(r)
        <3>1. /\ pc'[r] \in {"think", "ensure"} /\ call'[r].op # "topup"
              /\ tx'[r].view = tx[r].view /\ tx'[r].dirty = tx[r].dirty
              /\ tx'[r].spent = tx[r].spent /\ tx'[r].added = tx[r].added
            BY <2>1 DEF CallTool, Inv, TypeOK, Tx, ToolCalls, BudgetCall, PurchaseCalls
        <3> QED
            BY <1>1, <2>1, <3>1 DEF ExactView, OneKind, CallTool
    <2>2. CASE Reply(r)
        BY <1>1, <2>2 DEF Reply, Inv, TypeOK, ExactView, OneKind, BudgetCall
    <2>3. CASE EnsureBudget(r)
        <3>1. /\ call' = call /\ pc'[r] \in {"loaded", "insert"} /\ pc[r] = "ensure"
              /\ tx'[r].dirty = tx[r].dirty
              /\ tx'[r].spent = tx[r].spent /\ tx'[r].added = tx[r].added
              /\ \/ tx[r].dirty /\ tx'[r].view = tx[r].view
                 \/ ~tx[r].dirty /\ Me(r) \in rows /\ tx'[r].view = balance[Me(r)]
                 \/ ~tx[r].dirty /\ pc'[r] = "insert"
            BY <1>1, <2>3 DEF EnsureBudget, Inv, TypeOK, Tx
        <3>2. ~tx[r].dirty => tx[r].spent = 0 /\ tx[r].added = 0
            BY <1>1 DEF SessionOK, WriterLocks
        <3>3. ExactView(r)'
            BY <1>1, <3>1, <3>2 DEF ExactView, PatientInv, Conservation
        <3>4. OneKind(r)'
            BY <1>1, <3>1 DEF OneKind
        <3> QED
            BY <3>3, <3>4
    <2>4. CASE ReadBudget(r) \/ (RefusePurchase(r) /\ r \in ChatTurns /\ tx' = tx)
        <3>1. call' = call /\ tx' = tx /\ pc[r] = "loaded"
            BY <2>4 DEF ReadBudget, RefusePurchase, Rollback, CleanTx, Inv, TypeOK, Tx
        <3>2. pc'[r] \in {"think", "commit", "refused"} /\ (pc'[r] = "think" => r \in ChatTurns)
            BY <1>1, <2>4 DEF ReadBudget, RefusePurchase, Rollback, CallEnds, Inv, TypeOK
        <3> QED
            BY <1>1, <3>1, <3>2 DEF ExactView, OneKind
    <2>5. CASE EnsureHotelStay(r)
        <3>1. /\ call' = call /\ pc'[r] = "housed" /\ pc[r] = "loaded"
              /\ tx'[r].view = tx[r].view /\ tx'[r].dirty = tx[r].dirty
              /\ tx'[r].spent = tx[r].spent /\ tx'[r].added = tx[r].added
            BY <2>5 DEF EnsureHotelStay, Inv, TypeOK, Tx
        <3> QED
            BY <1>1, <3>1 DEF ExactView, OneKind
    <2>6. CASE TopUp(r)
        <3>1. call[r].amount \in 1 .. TopUpLimit /\ call[r].op = "topup" /\ pc[r] = "loaded"
            BY <1>1, <2>6 DEF TopUp, SessionOK, CallChecked, Executing, Valid, Inv, TypeOK, Calls
        <3>2. /\ call' = call /\ pc'[r] \in {"think", "commit"}
              /\ pc'[r] = "think" => r \in ChatTurns
              /\ tx'[r].view = tx[r].view + call[r].amount
              /\ tx'[r].spent = tx[r].spent /\ tx'[r].added = tx[r].added + call[r].amount
            BY <1>1, <2>6 DEF TopUp, CallEnds, Inv, TypeOK, Tx
        <3>3. r \notin ChatTurns /\ tx[r].spent = 0 /\ tx[r].added = 0
            BY <1>1, <3>1 DEF OneKind
        <3> QED
            BY <1>1, <3>1, <3>2, <3>3 DEF ExactView, OneKind
    <2>7. CASE Purchase(r)
        <3>1. call[r].amount \in Nat /\ call[r].op = "purchase" /\ pc[r] \in {"loaded", "housed"}
            BY <1>1, <2>7 DEF Purchase, SessionOK, CallChecked, Executing, Valid, Inv, TypeOK, Calls
        <3>2. /\ call' = call /\ pc'[r] \in {"think", "commit"}
              /\ pc'[r] = "think" => r \in ChatTurns
              /\ tx'[r].view = tx[r].view - call[r].amount
              /\ tx'[r].spent = tx[r].spent + call[r].amount /\ tx'[r].added = tx[r].added
            BY <1>1, <2>7, <3>1 DEF Purchase, CallEnds, Inv, TypeOK, Tx
        <3>3. tx[r].added = 0
            BY <1>1, <3>1 DEF OneKind
        <3> QED
            BY <1>1, <3>1, <3>2, <3>3 DEF ExactView, OneKind
    <2>8. CASE InsertBudget(r) /\ Me(r) \notin rows
        <3>1. /\ call' = call /\ pc'[r] = "loaded" /\ pc[r] = "insert"
              /\ tx'[r].view = InitialBudget
              /\ tx'[r].spent = tx[r].spent /\ tx'[r].added = tx[r].added
            BY <2>8 DEF InsertBudget, Inv, TypeOK, Tx
        <3>2. tx[r].spent = 0 /\ tx[r].added = 0
            BY <1>1, <2>8, <3>1, WalletAssumption DEF SessionOK, WriterLocks, InsertBudget
        <3>3. purchased[Me(r)] = 0 /\ toppedUp[Me(r)] = 0
            BY <1>1, <2>8 DEF PatientInv, NothingBeforeOpening
        <3> QED
            BY <1>1, <3>1, <3>2, <3>3 DEF ExactView, OneKind
    <2> QED
        BY <2>1, <2>2, <2>3, <2>4, <2>5, <2>6, <2>7, <2>8
<1> QED
    BY <1>1, <1>2, <1>3, PatientSessionStep

\* COMMIT moves a patient guest's balance by exactly what the request did.
LEMMA PatientCommit ==
    ASSUME Inv, PatientInv, NEW r \in Requests, Commit(r)
    PROVE  PatientInv'
<1>1. /\ pc[r] = "commit" /\ tx[r] \in Tx /\ SessionOK(r) /\ ExactView(r) /\ Me(r) \in Guests
      /\ pc'[r] = "done" /\ tx'[r] = CleanTx /\ call'[r] = BudgetCall("budget")
      /\ \A q \in Requests \ {r} :
             pc'[q] = pc[q] /\ tx'[q] = tx[q] /\ call'[q] = call[q]
    BY WalletAssumption DEF Commit, Inv, PatientInv, TypeOK
<1>2. /\ tx[r].spent \in Nat /\ tx[r].added \in Nat /\ tx[r].view \in Int
      /\ tx[r].dirty \in BOOLEAN /\ tx[r].opened \in BOOLEAN /\ InitialBudget \in Nat
    BY <1>1, WalletAssumption DEF Tx
<1>3. /\ tx[r].opened => tx[r].dirty
      /\ ~tx[r].opened /\ tx[r].dirty => Me(r) \in rows
      /\ ~tx[r].dirty => tx[r].spent = 0 /\ tx[r].added = 0
      /\ rows' = IF tx[r].opened THEN rows \cup {Me(r)} ELSE rows
    BY <1>1 DEF SessionOK, WriterLocks, HasView, Commit
<1>4. OneAtATime'
    BY <1>1 DEF OneAtATime, PatientInv, InFlight
<1>5. Conservation'
    <2> SUFFICES ASSUME NEW g \in rows', g \in Patient
                 PROVE  balance'[g] = InitialBudget + toppedUp'[g] - purchased'[g]
        BY DEF Conservation
    <2>1. /\ g \in Guests /\ balance[g] \in Int /\ toppedUp[g] \in Nat /\ purchased[g] \in Nat
        BY WalletAssumption DEF Inv, TypeOK
    <2>2. CASE g = Me(r) /\ tx[r].dirty
        BY <1>1, <1>2, <2>1, <2>2, CommitEffects DEF ExactView, HasView
    <2>3. CASE ~(g = Me(r) /\ tx[r].dirty)
        <3>1. g \in rows
            BY <1>3, <2>3
        <3> QED
            BY <1>2, <1>3, <2>1, <2>3, <3>1, CommitEffects DEF PatientInv, Conservation
    <2> QED
        BY <2>2, <2>3
<1>6. NothingBeforeOpening'
    <2> SUFFICES ASSUME NEW g \in Guests, g \notin rows'
                 PROVE  purchased'[g] = 0 /\ toppedUp'[g] = 0
        BY DEF NothingBeforeOpening
    <2>1. /\ g \notin rows /\ toppedUp[g] = 0 /\ purchased[g] = 0
        BY <1>3 DEF PatientInv, NothingBeforeOpening
    <2>2. g = Me(r) => ~tx[r].dirty
        BY <1>3, <2>1
    <2> QED
        BY <1>2, <1>3, <2>1, <2>2, CommitEffects
<1>7. ASSUME NEW q \in Requests PROVE (ExactView(q) /\ OneKind(q))'
    <2>1. CASE q = r
        BY <1>1, <2>1, WalletAssumption
        DEF ExactView, OneKind, HasView, CleanTx, BudgetCall
    <2>2. CASE q # r
        <3>1. OneKind(q)'
            BY <1>1, <2>2 DEF PatientInv, OneKind
        <3>2. CASE Me(q) \in Patient /\ HasView(q)
            <4>1. pc[q] \in InFlight
                BY <3>2 DEF Inv, SessionOK, NoTxOutsideFlight, HasView, InFlight, CleanTx
            <4>2. Me(q) # Me(r)
                BY <1>1, <2>2, <3>2, <4>1 DEF PatientInv, OneAtATime, InFlight
            <4>3. toppedUp'[Me(q)] = toppedUp[Me(q)] /\ purchased'[Me(q)] = purchased[Me(q)]
                BY <4>2, CommitEffects, WalletAssumption DEF Inv, TypeOK
            <4> QED
                BY <1>1, <2>2, <3>1, <4>3 DEF PatientInv, ExactView, HasView
        <3>3. CASE ~(Me(q) \in Patient /\ HasView(q))
            BY <1>1, <2>2, <3>1, <3>3 DEF ExactView, HasView
        <3> QED
            BY <3>2, <3>3
    <2> QED
        BY <2>1, <2>2
<1> QED
    BY <1>4, <1>5, <1>6, <1>7 DEF PatientInv

LEMMA NextPatient == Inv /\ PatientInv /\ [Next]_vars => PatientInv'
<1> SUFFICES ASSUME Inv, PatientInv, [Next]_vars PROVE PatientInv'
    OBVIOUS
<1>1. CASE UNCHANGED vars
    BY <1>1 DEF vars, db, PatientInv, OneAtATime, Conservation, NothingBeforeOpening,
       ExactView, OneKind, HasView
<1>2. ASSUME NEW r \in Requests, Arrive(r) \/ Proceed(r) \/ Fail(r)
      PROVE  PatientInv'
    <2>1. CASE Arrive(r)
        BY <2>1, ArriveStep
    <2>2. CASE Commit(r)
        BY <2>2, PatientCommit
    <2>3. CASE \E answer \in Answered : pc[r] \in InFlight /\ Rollback(r, answer)
        BY <2>3, PatientRollback
    <2>4. CASE CallTool(r) \/ Reply(r) \/ EnsureBudget(r) \/ ReadBudget(r)
               \/ EnsureHotelStay(r) \/ TopUp(r) \/ Purchase(r)
        <3>1. UNCHANGED db
            BY <2>4 DEF CallTool, Reply, EnsureBudget, ReadBudget, EnsureHotelStay, TopUp,
                        Purchase
        <3> QED
            BY <2>4, <3>1, PatientServiceStep
    <2>5. CASE InsertBudget(r)
        <3>1. CASE Me(r) \in rows
            BY <2>3, <2>5, <3>1 DEF InsertBudget, InFlight, Answered
        <3>2. CASE Me(r) \notin rows
            BY <2>5, <3>2, PatientServiceStep DEF InsertBudget
        <3> QED
            BY <3>1, <3>2
    <2>6. CASE RefusePurchase(r)
        <3>1. CASE Rollback(r, "refused")
            BY <2>3, <2>6, <3>1 DEF RefusePurchase, InFlight, Answered
        <3>2. CASE ~Rollback(r, "refused")
            BY <2>6, <3>2, PatientServiceStep DEF RefusePurchase
        <3> QED
            BY <3>1, <3>2
    <2>7. CASE Fail(r)
        BY <2>3, <2>7 DEF Fail, Answered
    <2> QED
        BY <1>2, <2>1, <2>2, <2>4, <2>5, <2>6, <2>7 DEF Proceed
<1> QED
    BY <1>1, <1>2 DEF Next

\* Conservation: for a guest whose client awaits each answer the balance is the
\* opening budget plus top-ups less purchases, whatever the other guests' requests
\* do and whichever of the guest's own fail or are refused half way.
THEOREM BudgetConserved == Spec => []Conservation
<1>1. PatientInv => Conservation
    BY DEF PatientInv
<1> QED
    BY <1>1, InitInv, NextInv, InitPatient, NextPatient, PTL DEF Spec

-----------------------------------------------------------------------------
(* Refinement of the ledger *)

\* Only a commit moves the tables the ledger is read from.
LEMMA OnlyCommitWrites ==
    ASSUME NEW r \in Requests, Arrive(r) \/ Proceed(r) \/ Fail(r), ~Commit(r)
    PROVE  UNCHANGED db
BY DEF Arrive, Receive, OpenChat, Proceed, CallTool, Reply, EnsureBudget, InsertBudget,
       ReadBudget, TopUp, RefusePurchase, EnsureHotelStay, Purchase, Fail, Rollback

LEMMA LedgerInit == Init => Ledger!Init
BY WalletAssumption DEF Init, Ledger!Init

\* A commit of a patient guest's request charges the account, credits it, or
\* leaves the ledger as it is; anybody else's commit does not touch the ledger.
LEMMA LedgerCommit ==
    ASSUME Inv, PatientInv, NEW r \in Requests, Commit(r)
    PROVE  [Ledger!Next]_(Ledger!ledgerVars)
<1> DEFINE funds == [g \in Patient |-> IF g \in rows THEN balance[g] ELSE InitialBudget]
<1>1. /\ pc[r] = "commit" /\ tx[r] \in Tx /\ SessionOK(r) /\ Me(r) \in Guests
      /\ ExactView(r) /\ OneKind(r)
      /\ purchased[Me(r)] \in Nat /\ toppedUp[Me(r)] \in Nat /\ balance[Me(r)] \in Int
    BY WalletAssumption DEF Commit, Inv, PatientInv, TypeOK
<1>2. /\ tx[r].spent \in Nat /\ tx[r].added \in Nat /\ tx[r].view \in Int
      /\ tx[r].dirty \in BOOLEAN /\ tx[r].opened \in BOOLEAN
      /\ InitialBudget \in Nat /\ TopUpLimit \in Nat
    BY <1>1, WalletAssumption DEF Tx
<1>3. /\ tx[r].opened => tx[r].dirty /\ Me(r) \notin rows
      /\ ~tx[r].opened /\ tx[r].dirty => Me(r) \in rows
      /\ ~tx[r].dirty => tx[r].spent = 0 /\ tx[r].added = 0
      /\ rows' = IF tx[r].opened THEN rows \cup {Me(r)} ELSE rows
    BY <1>1 DEF SessionOK, WriterLocks, HasView, Commit
\* What the account of the request's guest holds afterwards.
<1>4. Me(r) \in Patient =>
          /\ funds'[Me(r)] = funds[Me(r)] + tx[r].added - tx[r].spent
          /\ tx[r].spent <= funds[Me(r)] + tx[r].added
    <2> SUFFICES ASSUME Me(r) \in Patient
                 PROVE  /\ funds'[Me(r)] = funds[Me(r)] + tx[r].added - tx[r].spent
                        /\ tx[r].spent <= funds[Me(r)] + tx[r].added
        OBVIOUS
    <2>1. funds[Me(r)] = InitialBudget + toppedUp[Me(r)] - purchased[Me(r)]
        BY <1>1, <1>2 DEF PatientInv, Conservation, NothingBeforeOpening
    <2>2. CASE tx[r].dirty
        <3>1. /\ tx[r].view = InitialBudget + toppedUp[Me(r)] + tx[r].added
                                            - purchased[Me(r)] - tx[r].spent
              /\ 0 <= tx[r].view
            BY <1>1, <2>2 DEF ExactView, HasView, SessionOK, ViewBounded
        <3>2. funds'[Me(r)] = tx[r].view
            BY <1>1, <1>3, <2>2, CommitEffects
        <3> QED
            BY <1>1, <1>2, <2>1, <3>1, <3>2
    <2>3. CASE ~tx[r].dirty
        <3>1. funds'[Me(r)] = funds[Me(r)] /\ tx[r].spent = 0 /\ tx[r].added = 0
            BY <1>1, <1>3, <2>3, CommitEffects
        <3>2. 0 <= funds[Me(r)] /\ funds[Me(r)] \in Int
            BY <1>1, <1>2 DEF Inv, Tables, NonNegative
        <3> QED
            BY <3>1, <3>2
    <2> QED
        BY <2>2, <2>3
\* Every other account is as before.
<1>5. ASSUME NEW g \in Patient, g # Me(r)
      PROVE  funds'[g] = funds[g] /\ purchased'[g] = purchased[g] /\ toppedUp'[g] = toppedUp[g]
    BY <1>3, <1>5, CommitEffects, WalletAssumption DEF Inv, TypeOK
<1>6. Me(r) \in Patient =>
          /\ purchased'[Me(r)] = purchased[Me(r)] + tx[r].spent
          /\ toppedUp'[Me(r)] = toppedUp[Me(r)] + tx[r].added
    BY <1>1, CommitEffects
<1>7. Me(r) \in Patient => funds[Me(r)] \in Int
    BY <1>1, <1>2
<1> HIDE DEF funds
<1>8. CASE Me(r) \notin Patient \/ (tx[r].spent = 0 /\ tx[r].added = 0)
    <2>1. \A g \in Patient :
              funds'[g] = funds[g] /\ purchased'[g] = purchased[g] /\ toppedUp'[g] = toppedUp[g]
        BY <1>1, <1>4, <1>5, <1>6, <1>7, <1>8
    <2> QED
        BY <2>1 DEF Ledger!ledgerVars, funds
<1>9. CASE Me(r) \in Patient /\ tx[r].added = 0
    <2> DEFINE n == tx[r].spent
    <2>1. n \in 0 .. funds[Me(r)]
        BY <1>2, <1>4, <1>7, <1>9
    <2>2. funds' = [funds EXCEPT ![Me(r)] = @ - n]
        BY <1>2, <1>4, <1>5, <1>7, <1>9 DEF funds
    <2>3. [g \in Patient |-> purchased[g]]' =
              [[g \in Patient |-> purchased[g]] EXCEPT ![Me(r)] = @ + n]
        BY <1>5, <1>6, <1>9
    <2>4. [g \in Patient |-> toppedUp[g]]' = [g \in Patient |-> toppedUp[g]]
        BY <1>1, <1>5, <1>6, <1>9
    <2>5. Ledger!Charge(Me(r))
        BY <2>1, <2>2, <2>3, <2>4 DEF Ledger!Charge, funds
    <2> QED
        BY <1>9, <2>5 DEF Ledger!Next
<1>10. CASE Me(r) \in Patient /\ tx[r].added # 0
    <2> DEFINE n == tx[r].added
    <2>1. n \in 1 .. TopUpLimit /\ tx[r].spent = 0
        BY <1>1, <1>2, <1>10 DEF OneKind
    <2>2. funds' = [funds EXCEPT ![Me(r)] = @ + n]
        BY <1>2, <1>4, <1>5, <1>7, <1>10, <2>1 DEF funds
    <2>3. [g \in Patient |-> toppedUp[g]]' =
              [[g \in Patient |-> toppedUp[g]] EXCEPT ![Me(r)] = @ + n]
        BY <1>5, <1>6, <1>10
    <2>4. [g \in Patient |-> purchased[g]]' = [g \in Patient |-> purchased[g]]
        BY <1>1, <1>5, <1>6, <2>1
    <2>5. Ledger!Credit(Me(r))
        BY <2>1, <2>2, <2>3, <2>4 DEF Ledger!Credit, funds
    <2> QED
        BY <1>10, <2>5 DEF Ledger!Next
<1> QED
    BY <1>8, <1>9, <1>10

LEMMA LedgerStep ==
    Inv /\ PatientInv /\ [Next]_vars => [Ledger!Next]_(Ledger!ledgerVars)
<1> SUFFICES ASSUME Inv, PatientInv, [Next]_vars
             PROVE  [Ledger!Next]_(Ledger!ledgerVars)
    OBVIOUS
<1>1. CASE UNCHANGED db
    BY <1>1 DEF db, Ledger!ledgerVars
<1>2. CASE \E r \in Requests : Commit(r)
    BY <1>2, LedgerCommit
<1> QED
    BY <1>1, <1>2, OnlyCommitWrites DEF Next, vars

\* ImplementsLedger: for the patient guests every behaviour of the service is one
\* of the ledger, in which each charge and each credit is a single step.
THEOREM LedgerImplemented == Spec => ImplementsLedger
BY InitInv, NextInv, InitPatient, NextPatient, LedgerInit, LedgerStep, PTL
DEF Spec, ImplementsLedger, Ledger!Spec

-----------------------------------------------------------------------------
(***************************************************************************)
(* The spend summary, for any prices and purchases.  A summary loads the   *)
(* balance and later the list of purchases; SpendInv says what the one may *)
(* know of the other: they disagree only by purchases committed in between *)
(* of which a patient guest has none.                                      *)
(***************************************************************************)

Sums == [amount : Nat, count : Nat, largest : Nat]
Lists == [Kinds -> Sums]
Insights == [asked : BOOLEAN, listed : BOOLEAN, list : Lists]

SpendTyped ==
    /\ basket \in [Requests -> Lists]
    /\ bought \in [Guests -> Lists]
    /\ insight \in [Requests -> Insights]

\* What was not bought cost nothing.
Sound(p) == \A k \in Kinds : p[k].count = 0 => p[k].amount = 0

\* The flushed purchases of a transaction are what it has spent, from a budget it has
\* found or opened.
BasketOK(r) ==
    /\ Sound(basket[r]) /\ TotalSpent(basket[r]) = tx[r].spent
    /\ TxCount(basket[r]) > 0 => tx[r].dirty \/ Me(r) \in rows

BoughtOK(g) ==
    /\ Sound(bought[g]) /\ TotalSpent(bought[g]) = purchased[g]
    /\ TxCount(bought[g]) > 0 => g \in rows

\* The balance that a summary has loaded.
Loaded(r) ==
    /\ 0 <= tx[r].view /\ InitialBudget - purchased[Me(r)] <= tx[r].view
    /\ Me(r) \in Patient => tx[r].view = InitialBudget + toppedUp[Me(r)] - purchased[Me(r)]

SummaryOK(r) ==
    /\ insight[r].asked =>
          /\ r \notin ChatTurns /\ call[r].op = "budget"
          /\ pc[r] \in {"ensure", "insert", "loaded", "commit"}
          /\ pc[r] = "commit" => Loaded(r)
    /\ insight[r].listed =>
          /\ insight[r].asked /\ pc[r] = "commit"
          /\ Sound(insight[r].list)
          /\ InitialBudget <= tx[r].view + TotalSpent(insight[r].list)
          /\ Me(r) \in Patient =>
                /\ TotalSpent(insight[r].list) = purchased[Me(r)]
                /\ TxCount(insight[r].list) > 0 => Me(r) \in rows

SpendInv ==
    /\ SpendTyped
    /\ \A g \in Guests : BoughtOK(g)
    /\ \A r \in Requests : BasketOK(r) /\ SummaryOK(r)

\* What sums of purchases are.
LEMMA ListType ==
    ASSUME NEW p \in Lists
    PROVE  /\ p["flight"] \in Sums /\ p["hotel"] \in Sums
           /\ TotalSpent(p) \in Nat /\ TxCount(p) \in Nat
           /\ TotalSpent(p) = p["flight"].amount + p["hotel"].amount
           /\ TxCount(p) = p["flight"].count + p["hotel"].count
BY DEF Lists, Sums, Kinds, TotalSpent, TxCount

LEMMA NoPurchasesType ==
    /\ NoPurchases \in Lists /\ Sound(NoPurchases)
    /\ TotalSpent(NoPurchases) = 0 /\ TxCount(NoPurchases) = 0
    /\ NoInsight \in Insights /\ NoInsight.asked = FALSE /\ NoInsight.listed = FALSE
<1>1. /\ NoPurchase \in Sums /\ NoPurchase.amount = 0 /\ NoPurchase.count = 0
  BY DEF NoPurchase, Sums
<1>2. NoPurchases \in Lists /\ \A k \in Kinds : NoPurchases[k] = NoPurchase
  BY <1>1 DEF NoPurchases, Lists
<1>3. Sound(NoPurchases)
  BY <1>1, <1>2 DEF Sound
<1>4. TotalSpent(NoPurchases) = 0 /\ TxCount(NoPurchases) = 0
  BY <1>1, <1>2, ListType DEF Kinds
<1>5. NoInsight \in Insights /\ NoInsight.asked = FALSE /\ NoInsight.listed = FALSE
  BY <1>2 DEF NoInsight, Insights
<1> QED
  BY <1>2, <1>3, <1>4, <1>5

LEMMA MergeType ==
    ASSUME NEW a \in Sums, NEW b \in Sums
    PROVE  /\ Merge(a, b) \in Sums
           /\ Merge(a, b).amount = a.amount + b.amount
           /\ Merge(a, b).count = a.count + b.count
<1> DEFINE most == Greatest(a.largest, b.largest)
<1>1. most \in Nat
  BY DEF Greatest, Sums
<1> HIDE DEF most
<1>2. /\ a.amount + b.amount \in Nat /\ a.count + b.count \in Nat
  BY DEF Sums
<1> DEFINE amount == a.amount + b.amount
           count == a.count + b.count
<1>3. Merge(a, b) = [amount |-> amount, count |-> count, largest |-> most]
  BY DEF Merge, most
<1> QED
  BY <1>1, <1>2, <1>3 DEF Sums

\* The purchases of two groups together.
LEMMA MergeAllType ==
    ASSUME NEW p \in Lists, NEW q \in Lists, Sound(p), Sound(q)
    PROVE  /\ MergeAll(p, q) \in Lists /\ Sound(MergeAll(p, q))
           /\ TotalSpent(MergeAll(p, q)) = TotalSpent(p) + TotalSpent(q)
           /\ TxCount(MergeAll(p, q)) = TxCount(p) + TxCount(q)
<1>1. \A k \in Kinds : /\ p[k] \in Sums /\ q[k] \in Sums
                       /\ MergeAll(p, q)[k] = Merge(p[k], q[k])
  BY DEF MergeAll, Lists
<1>2. \A k \in Kinds : /\ MergeAll(p, q)[k] \in Sums
                       /\ MergeAll(p, q)[k].amount = p[k].amount + q[k].amount
                       /\ MergeAll(p, q)[k].count = p[k].count + q[k].count
  BY <1>1, MergeType
<1>3. MergeAll(p, q) \in Lists
  BY <1>1, <1>2 DEF MergeAll, Lists
<1>4. Sound(MergeAll(p, q))
  <2> SUFFICES ASSUME NEW k \in Kinds, MergeAll(p, q)[k].count = 0
               PROVE  MergeAll(p, q)[k].amount = 0
    BY DEF Sound
  <2>1. p[k].count = 0 /\ q[k].count = 0
    BY <1>1, <1>2 DEF Sums
  <2> QED
    BY <1>2, <2>1 DEF Sound
<1>5. /\ TotalSpent(MergeAll(p, q)) = TotalSpent(p) + TotalSpent(q)
      /\ TxCount(MergeAll(p, q)) = TxCount(p) + TxCount(q)
  BY <1>1, <1>2, <1>3, ListType DEF Kinds, Sums
<1> QED
  BY <1>3, <1>4, <1>5

\* One more purchase of a kind.
LEMMA OneMore ==
    ASSUME NEW p \in Lists, Sound(p), NEW kind \in Kinds, NEW row \in Sums, row.count = 1,
           NEW q, q = [p EXCEPT ![kind] = Merge(p[kind], row)]
    PROVE  q \in Lists /\ Sound(q) /\ TotalSpent(q) = TotalSpent(p) + row.amount
<1>1. p[kind] \in Sums /\ row.count \in Nat /\ row.amount \in Nat
  BY DEF Lists, Sums
<1> DEFINE m == Merge(p[kind], row)
<1>2. m \in Sums /\ m.amount = p[kind].amount + row.amount /\ m.count = p[kind].count + row.count
  BY <1>1, MergeType
<1> HIDE DEF m
<1>3. q \in Lists /\ q[kind] = m /\ \A k \in Kinds \ {kind} : q[k] = p[k]
  BY <1>2 DEF Lists, m
<1>4. Sound(q)
  <2>1. m.count # 0
    BY <1>1, <1>2 DEF Sums
  <2> QED
    BY <1>3, <2>1 DEF Sound
<1>5. TotalSpent(q) = TotalSpent(p) + row.amount
  <2>1. /\ p["flight"].amount \in Nat /\ p["hotel"].amount \in Nat
    BY ListType DEF Sums
  <2>2. CASE kind = "flight"
    <3>1. q["hotel"] = p["hotel"] /\ q["flight"] = m
      BY <1>3, <2>2 DEF Kinds
    <3>2. TotalSpent(q) = m.amount + p["hotel"].amount
      BY <1>3, <3>1, ListType
    <3>3. TotalSpent(p) = p["flight"].amount + p["hotel"].amount
      BY ListType
    <3> QED
      BY <1>1, <1>2, <2>1, <2>2, <3>2, <3>3
  <2>3. CASE kind = "hotel"
    <3>1. q["flight"] = p["flight"] /\ q["hotel"] = m
      BY <1>3, <2>3 DEF Kinds
    <3>2. TotalSpent(q) = p["flight"].amount + m.amount
      BY <1>3, <3>1, ListType
    <3>3. TotalSpent(p) = p["flight"].amount + p["hotel"].amount
      BY ListType
    <3> QED
      BY <1>1, <1>2, <2>1, <2>3, <3>2, <3>3
  <2> QED
    BY <2>2, <2>3 DEF Kinds
<1> QED
  BY <1>3, <1>4, <1>5

LEMMA SpendInitInv == SpendInit => SpendInv
<1> SUFFICES ASSUME SpendInit PROVE SpendInv
  OBVIOUS
<1>1. SpendTyped
  BY NoPurchasesType DEF SpendInit, SpendTyped
<1>2. \A g \in Guests : BoughtOK(g)
  <2> SUFFICES ASSUME NEW g \in Guests PROVE BoughtOK(g)
    OBVIOUS
  <2>1. bought[g] = NoPurchases /\ purchased[g] = 0
    BY DEF SpendInit, Init
  <2> QED
    BY <2>1, NoPurchasesType DEF BoughtOK
<1>3. \A r \in Requests : BasketOK(r) /\ SummaryOK(r)
  BY NoPurchasesType DEF SpendInit, Init, BasketOK, SummaryOK, CleanTx
<1> QED
  BY <1>1, <1>2, <1>3 DEF SpendInv

\* A step of a request leaves the others where they are.
LEMMA OthersStand ==
    ASSUME Inv, NEW r \in Requests, Arrive(r) \/ Proceed(r) \/ Fail(r)
    PROVE  \A q \in Requests \ {r} : pc'[q] = pc[q] /\ tx'[q] = tx[q] /\ call'[q] = call[q]
BY DEF Inv, TypeOK, Arrive, Receive, OpenChat, Proceed, CallTool, Reply, EnsureBudget,
       InsertBudget, ReadBudget, TopUp, RefusePurchase, EnsureHotelStay, Purchase, Commit,
       Fail, Rollback

\* A step that commits nothing has to account for its own request only.
LEMMA SpendFrame ==
    ASSUME Inv, SpendInv, NEW r \in Requests, UNCHANGED <<db, bought>>,
           basket' \in [Requests -> Lists], insight' \in [Requests -> Insights],
           BasketOK(r)', SummaryOK(r)',
           \A q \in Requests \ {r} :
               /\ pc'[q] = pc[q] /\ tx'[q] = tx[q] /\ call'[q] = call[q]
               /\ insight'[q] = insight[q] /\ basket'[q] = basket[q]
    PROVE  SpendInv'
<1>1. SpendTyped'
  BY DEF SpendInv, SpendTyped
<1>2. rows' = rows /\ purchased' = purchased /\ toppedUp' = toppedUp /\ bought' = bought
  BY DEF db
<1>3. ASSUME NEW g \in Guests PROVE BoughtOK(g)'
  BY <1>2 DEF SpendInv, BoughtOK
<1>4. ASSUME NEW q \in Requests PROVE BasketOK(q)' /\ SummaryOK(q)'
  <2>1. CASE q = r
    BY <2>1
  <2>2. CASE q # r
    <3>1. BasketOK(q) /\ SummaryOK(q)
      BY DEF SpendInv
    <3>2. BasketOK(q)'
      BY <1>2, <2>2, <3>1 DEF BasketOK
    <3>3. SummaryOK(q)'
      BY <1>2, <2>2, <3>1 DEF SummaryOK, Loaded
    <3> QED
      BY <3>2, <3>3
  <2> QED
    BY <2>1, <2>2
<1> QED
  BY <1>1, <1>3, <1>4 DEF SpendInv

LEMMA AskInsightsStep ==
    ASSUME Inv, SpendInv, NEW r \in Requests, AskInsights(r) PROVE SpendInv'
<1>1. PICK c \in HttpCalls :
          call' = [call EXCEPT ![r] = c] /\ pc' = [pc EXCEPT ![r] = IF Valid(c) THEN "ensure" ELSE "refused"]
  BY DEF AskInsights, Receive
<1>2. UNCHANGED <<db, tx, basket, bought>> /\ r \notin ChatTurns /\ pc[r] = "idle"
  BY DEF AskInsights, Receive, MaySend
<1>3. call'[r].op = "budget" /\ c.op = "budget" /\ pc'[r] = "ensure"
  <2>1. call'[r] = c /\ call'[r].op = "budget"
    BY <1>1 DEF AskInsights, Inv, TypeOK
  <2>2. Valid(c)
    BY <2>1 DEF Valid
  <2> QED
    BY <1>1, <2>1, <2>2 DEF Inv, TypeOK
<1>4. insight[r] \in Insights /\ insight' = [insight EXCEPT ![r].asked = TRUE]
  BY DEF SpendInv, SpendTyped, AskInsights
<1>5. /\ insight' \in [Requests -> Insights] /\ basket' \in [Requests -> Lists]
      /\ insight'[r].listed = insight[r].listed
      /\ \A q \in Requests \ {r} : insight'[q] = insight[q]
  BY <1>2, <1>4 DEF SpendInv, SpendTyped, Insights
<1>6. ~insight[r].listed
  BY <1>2 DEF SpendInv, SummaryOK
<1>7. BasketOK(r)'
  BY <1>2 DEF SpendInv, BasketOK, db
<1>8. SummaryOK(r)'
  BY <1>2, <1>3, <1>5, <1>6 DEF SummaryOK
<1>9. Arrive(r)
  BY DEF AskInsights, Arrive
<1> QED
  BY <1>2, <1>5, <1>7, <1>8, <1>9, OthersStand, SpendFrame

LEMMA ListPurchasesStep ==
    ASSUME Inv, SpendInv, NEW r \in Requests, ListPurchases(r) PROVE SpendInv'
<1> DEFINE list == bought[Me(r)]
<1>1. UNCHANGED <<vars, basket, bought>> /\ pc[r] = "commit" /\ insight[r].asked
  BY DEF ListPurchases
<1>2. insight[r] \in Insights /\ Me(r) \in Guests
  BY WalletAssumption DEF SpendInv, SpendTyped
<1>3. list \in Lists /\ BoughtOK(Me(r)) /\ BasketOK(r) /\ SummaryOK(r)
  BY <1>2 DEF SpendInv, SpendTyped
<1>4. insight' = [insight EXCEPT ![r] = [insight[r] EXCEPT !.listed = TRUE, !.list = list]]
  BY DEF ListPurchases
<1>5. Sound(list) /\ TotalSpent(list) = purchased[Me(r)] /\ (TxCount(list) > 0 => Me(r) \in rows)
  BY <1>3 DEF BoughtOK
<1>6. /\ tx[r].view \in Int /\ purchased[Me(r)] \in Nat /\ InitialBudget \in Nat
  BY <1>2, WalletAssumption DEF Inv, TypeOK, Tx
<1> HIDE DEF list
<1>7. /\ insight' \in [Requests -> Insights] /\ basket' \in [Requests -> Lists]
      /\ insight'[r].listed = TRUE /\ insight'[r].asked = insight[r].asked /\ insight'[r].list = list
      /\ \A q \in Requests \ {r} : insight'[q] = insight[q]
  BY <1>1, <1>2, <1>3, <1>4 DEF SpendInv, SpendTyped, Insights
<1>8. BasketOK(r)'
  BY <1>1, <1>3 DEF BasketOK, vars, db
<1>9. Loaded(r)
  BY <1>1, <1>3 DEF SummaryOK
<1>10. /\ pc' = pc /\ tx' = tx /\ call' = call /\ rows' = rows /\ purchased' = purchased
       /\ toppedUp' = toppedUp
  BY <1>1 DEF vars, db
<1>11. Loaded(r)'
  BY <1>9, <1>10 DEF Loaded
<1>12. InitialBudget <= tx[r].view + TotalSpent(list)
  BY <1>5, <1>6, <1>9 DEF Loaded
<1>13. SummaryOK(r)'
  BY <1>1, <1>3, <1>5, <1>7, <1>10, <1>11, <1>12 DEF SummaryOK
<1>14. UNCHANGED <<db, bought>>
  BY <1>1 DEF vars
<1>15. \A q \in Requests \ {r} :
          /\ pc'[q] = pc[q] /\ tx'[q] = tx[q] /\ call'[q] = call[q]
          /\ insight'[q] = insight[q] /\ basket'[q] = basket[q]
  BY <1>1, <1>7, <1>10
<1> QED
  BY <1>7, <1>8, <1>13, <1>14, <1>15, SpendFrame

LEMMA RecordStep ==
    ASSUME Inv, SpendInv, NEW r \in Requests, Record(r) PROVE SpendInv'
<1> DEFINE row == [amount |-> call[r].amount, count |-> 1, largest |-> call[r].amount]
           kind == call[r].kind
           p == basket[r]
           m == [p EXCEPT ![kind] = Merge(p[kind], row)]
<1>1. /\ Purchase(r) /\ UNCHANGED <<db, bought, insight>> /\ SessionOK(r)
      /\ tx[r] \in Tx /\ call[r] \in Calls /\ p \in Lists /\ BasketOK(r) /\ SummaryOK(r)
      /\ call[r].op = "purchase" /\ pc[r] \in {"loaded", "housed"}
  BY DEF Record, Purchase, Inv, TypeOK, SpendInv, SpendTyped
<1>2. kind \in Kinds /\ call[r].amount \in Nat
  BY <1>1 DEF SessionOK, CallChecked, Executing, Valid, Calls
<1>3. row \in Sums /\ row.count = 1 /\ row.amount = call[r].amount
  BY <1>2 DEF Sums
<1>4. basket' = [basket EXCEPT ![r] = m]
  BY DEF Record
<1>5. tx'[r].spent = tx[r].spent + call[r].amount /\ (tx[r].dirty => tx'[r].dirty)
  BY <1>1 DEF Purchase, Inv, TypeOK, Tx
<1>6. tx[r].dirty \/ Me(r) \in rows
  BY <1>1 DEF SessionOK, WriterLocks, HasView
<1> HIDE DEF row, kind
<1>7. m \in Lists /\ Sound(m) /\ TotalSpent(m) = TotalSpent(p) + call[r].amount
  BY <1>1, <1>2, <1>3, OneMore DEF BasketOK
<1> HIDE DEF m
<1>8. /\ basket' \in [Requests -> Lists] /\ basket'[r] = m
      /\ \A q \in Requests \ {r} : basket'[q] = basket[q]
  BY <1>4, <1>7 DEF SpendInv, SpendTyped
<1>9. BasketOK(r)'
  BY <1>1, <1>5, <1>6, <1>7, <1>8 DEF BasketOK, db
<1>10. ~insight[r].asked /\ ~insight[r].listed
  BY <1>1 DEF SummaryOK
<1>11. SummaryOK(r)'
  BY <1>1, <1>10 DEF SummaryOK
<1>12. Proceed(r) /\ insight' \in [Requests -> Insights]
  BY <1>1 DEF Proceed, SpendInv, SpendTyped
<1> QED
  BY <1>1, <1>8, <1>9, <1>11, <1>12, OthersStand, SpendFrame

\* A request of another kind that ends leaves nothing, and one that goes on keeps what it
\* has bought.
LEMMA OtherStep ==
    ASSUME Inv, PatientInv, SpendInv, NEW r \in Requests, Other(r) PROVE SpendInv'
<1>1. /\ tx[r] \in Tx /\ SessionOK(r) /\ BasketOK(r) /\ SummaryOK(r) /\ OneKind(r) /\ ExactView(r)
      /\ call[r] \in Calls /\ bought' = bought /\ Me(r) \in Guests
      /\ insight[r] \in Insights /\ basket[r] \in Lists
  BY WalletAssumption DEF Inv, TypeOK, SpendInv, SpendTyped, PatientInv, Other, Carry
<1>2. /\ UNCHANGED db
      /\ \A q \in Requests \ {r} : pc'[q] = pc[q] /\ tx'[q] = tx[q] /\ call'[q] = call[q]
  <2>1. Arrive(r) \/ Proceed(r) \/ Fail(r)
    BY DEF Other, Proceed
  <2>2. UNCHANGED db
    BY DEF Other, Arrive, Receive, OpenChat, CallTool, Reply, EnsureBudget, InsertBudget,
           ReadBudget, TopUp, RefusePurchase, EnsureHotelStay, Fail, Rollback
  <2> QED
    BY <2>1, <2>2, OthersStand
<1>3. CASE pc'[r] \in Answered
  <2>1. basket' = [basket EXCEPT ![r] = NoPurchases] /\ insight' = [insight EXCEPT ![r] = NoInsight]
    BY <1>3 DEF Other, Carry
  <2>2. /\ basket' \in [Requests -> Lists] /\ insight' \in [Requests -> Insights]
        /\ basket'[r] = NoPurchases /\ insight'[r] = NoInsight
        /\ \A q \in Requests \ {r} : insight'[q] = insight[q] /\ basket'[q] = basket[q]
    BY <2>1, NoPurchasesType DEF SpendInv, SpendTyped
  <2>3. tx'[r] = CleanTx
    <3>1. CASE Arrive(r)
      <4>1. tx' = tx /\ pc[r] \notin InFlight
        BY <3>1 DEF Arrive, Receive, OpenChat, MaySend, InFlight
      <4> QED
        BY <1>1, <4>1 DEF SessionOK, NoTxOutsideFlight
    <3>2. CASE \E answer \in Answered : Rollback(r, answer)
      BY <3>2 DEF Rollback, Inv, TypeOK
    <3>3. CASE ~Arrive(r) /\ ~\E answer \in Answered : Rollback(r, answer)
      BY <1>3, <3>3 DEF Other, CallTool, Reply, EnsureBudget, InsertBudget, ReadBudget, TopUp,
                        RefusePurchase, EnsureHotelStay, Fail, Answered, CallEnds, Inv, TypeOK
    <3> QED
      BY <3>1, <3>2, <3>3
  <2>4. BasketOK(r)' /\ SummaryOK(r)'
    BY <2>2, <2>3, NoPurchasesType DEF BasketOK, SummaryOK, CleanTx
  <2> QED
    BY <1>1, <1>2, <2>2, <2>4, SpendFrame
<1>4. CASE pc'[r] \notin Answered
  <2>1. basket' = basket /\ insight' = insight
    BY <1>4 DEF Other, Carry
  <2>2. ~\E answer \in Answered : Rollback(r, answer)
    BY <1>4 DEF Rollback, Inv, TypeOK
  <2>3. tx'[r].spent = tx[r].spent /\ (tx[r].dirty => tx'[r].dirty)
    BY <1>1, <2>2 DEF Other, Arrive, Receive, OpenChat, CallTool, Reply, EnsureBudget, InsertBudget,
           ReadBudget, TopUp, RefusePurchase, EnsureHotelStay, Fail, Answered, Inv, TypeOK, Tx
  <2>4. BasketOK(r)'
    BY <1>1, <1>2, <2>1, <2>3 DEF BasketOK, db
  <2>5. SummaryOK(r)'
    <3>1. CASE ~insight[r].asked
      BY <1>1, <2>1, <3>1 DEF SummaryOK
    <3>2. CASE insight[r].asked
      <4>1. /\ r \notin ChatTurns /\ call[r].op = "budget"
            /\ pc[r] \in {"ensure", "insert", "loaded", "commit"}
        BY <1>1, <3>2 DEF SummaryOK
      <4>2. EnsureBudget(r) \/ (InsertBudget(r) /\ Me(r) \notin rows) \/ ReadBudget(r)
        BY <2>2, <4>1 DEF Other, Arrive, Receive, OpenChat, CallTool, Reply, InsertBudget, TopUp,
                RefusePurchase, EnsureHotelStay, Fail, Answered, MaySend
      <4>3. pc[r] # "commit" /\ ~insight[r].listed /\ call' = call
        BY <1>1, <4>2 DEF EnsureBudget, InsertBudget, ReadBudget, SummaryOK
      <4>4. CASE ReadBudget(r)
        <5>1. pc'[r] = "commit" /\ tx' = tx /\ pc[r] = "loaded"
          BY <4>1, <4>4 DEF ReadBudget, CallEnds, Inv, TypeOK
        <5>2. tx[r].spent = 0 /\ tx[r].added = 0 /\ HasView(r)
          BY <1>1, <4>1, <5>1 DEF OneKind, HasView
        <5>3. /\ tx[r].view \in Int /\ purchased[Me(r)] \in Nat /\ toppedUp[Me(r)] \in Nat
              /\ InitialBudget \in Nat
          BY <1>1, WalletAssumption DEF Inv, TypeOK, Tx
        <5>4. Loaded(r)
          BY <1>1, <5>2, <5>3 DEF SessionOK, ViewBounded, ExactView, Loaded
        <5>5. Loaded(r)'
          BY <1>2, <5>1, <5>4 DEF Loaded, db
        <5> QED
          BY <2>1, <4>1, <4>3, <5>1, <5>5 DEF SummaryOK
      <4>5. CASE ~ReadBudget(r)
        <5>1. pc'[r] \in {"insert", "loaded"}
          BY <4>2, <4>5, <2>2 DEF EnsureBudget, InsertBudget, Inv, TypeOK
        <5> QED
          BY <2>1, <4>1, <4>3, <5>1 DEF SummaryOK
      <4> QED
        BY <4>4, <4>5
    <3> QED
      BY <3>1, <3>2
  <2> QED
    BY <1>1, <1>2, <2>1, <2>4, <2>5, SpendFrame
    DEF SpendInv, SpendTyped
<1> QED
  BY <1>3, <1>4

\* A commit adds the basket to what its guest has bought; a summary of the same guest that
\* is under way is one of a guest who is not patient.
LEMMA PublishStep ==
    ASSUME Inv, PatientInv, SpendInv, NEW r \in Requests, Publish(r) PROVE SpendInv'
<1> DEFINE u == MergeAll(bought[Me(r)], basket[r])
<1>1. /\ Commit(r) /\ tx[r] \in Tx /\ SessionOK(r) /\ BasketOK(r) /\ Me(r) \in Guests
      /\ basket[r] \in Lists /\ bought[Me(r)] \in Lists /\ BoughtOK(Me(r)) /\ pc[r] = "commit"
  BY WalletAssumption DEF Publish, Commit, Inv, TypeOK, SpendInv, SpendTyped
<1>2. /\ bought' = [bought EXCEPT ![Me(r)] = u]
      /\ basket' = [basket EXCEPT ![r] = NoPurchases]
      /\ insight' = [insight EXCEPT ![r] = NoInsight]
  BY DEF Publish
<1>3. /\ u \in Lists /\ Sound(u)
      /\ TotalSpent(u) = TotalSpent(bought[Me(r)]) + TotalSpent(basket[r])
      /\ TxCount(u) = TxCount(bought[Me(r)]) + TxCount(basket[r])
  BY <1>1, MergeAllType DEF BoughtOK, BasketOK
<1> HIDE DEF u
<1>4. /\ SpendTyped' /\ bought'[Me(r)] = u
      /\ basket'[r] = NoPurchases /\ insight'[r] = NoInsight
      /\ \A q \in Requests \ {r} : insight'[q] = insight[q] /\ basket'[q] = basket[q]
      /\ \A g \in Guests \ {Me(r)} : bought'[g] = bought[g]
  BY <1>1, <1>2, <1>3, NoPurchasesType DEF SpendInv, SpendTyped
<1>5. /\ rows \subseteq rows'
      /\ \A g \in Guests : purchased[g] \in Nat /\ purchased'[g] \in Nat /\ purchased[g] <= purchased'[g]
  BY <1>1, CommitTables DEF Inv, TypeOK
<1>6. tx'[r] = CleanTx /\ tx[r].spent \in Nat
  BY <1>1 DEF Commit, Inv, TypeOK, Tx
<1>7. \A q \in Requests \ {r} : pc'[q] = pc[q] /\ tx'[q] = tx[q] /\ call'[q] = call[q]
  BY <1>1, OthersStand DEF Proceed
<1>8. \A g \in Guests \ {Me(r)} : purchased'[g] = purchased[g] /\ toppedUp'[g] = toppedUp[g]
  BY <1>1, CommitEffects DEF Inv, TypeOK
<1>9. purchased'[Me(r)] = purchased[Me(r)] + tx[r].spent
  BY <1>1, CommitEffects
<1>10. ASSUME NEW g \in Guests PROVE BoughtOK(g)'
  <2>1. CASE g = Me(r)
    <3>1. TotalSpent(u) = purchased'[Me(r)]
      BY <1>1, <1>3, <1>9 DEF BoughtOK, BasketOK
    <3>2. ASSUME TxCount(u) > 0 PROVE Me(r) \in rows'
      <4>1. TxCount(bought[Me(r)]) > 0 \/ TxCount(basket[r]) > 0
        BY <1>1, <1>3, <3>2, ListType
      <4>2. CASE Me(r) \in rows
        BY <1>5, <4>2
      <4>3. CASE Me(r) \notin rows
        <5>1. tx[r].dirty
          BY <1>1, <4>1, <4>3 DEF BoughtOK, BasketOK
        <5>2. tx[r].opened
          BY <1>1, <4>3, <5>1 DEF SessionOK, WriterLocks, HasView
        <5> QED
          BY <1>1, <5>2 DEF Commit
      <4> QED
        BY <4>2, <4>3
    <3> QED
      BY <1>3, <1>4, <2>1, <3>1, <3>2 DEF BoughtOK
  <2>2. CASE g # Me(r)
    <3>1. BoughtOK(g) /\ bought'[g] = bought[g] /\ purchased'[g] = purchased[g]
      BY <1>4, <1>8, <2>2 DEF SpendInv
    <3> QED
      BY <1>5, <3>1 DEF BoughtOK
  <2> QED
    BY <2>1, <2>2
<1>11. ASSUME NEW q \in Requests PROVE BasketOK(q)' /\ SummaryOK(q)'
  <2>1. CASE q = r
    BY <1>4, <1>6, <2>1, NoPurchasesType DEF BasketOK, SummaryOK, CleanTx
  <2>2. CASE q # r
    <3>1. BasketOK(q) /\ SummaryOK(q) /\ Me(q) \in Guests /\ tx[q].view \in Int
      BY WalletAssumption DEF SpendInv, Inv, TypeOK, Tx
    <3>2. BasketOK(q)'
      BY <1>4, <1>5, <1>7, <2>2, <3>1 DEF BasketOK
    <3>3. CASE ~insight[q].asked
      BY <1>4, <2>2, <3>1, <3>2, <3>3 DEF SummaryOK
    <3>4. CASE insight[q].asked
      <4>1. pc[q] \in InFlight
        BY <3>1, <3>4 DEF SummaryOK, InFlight
      <4>2. Me(q) \in Patient =>
                purchased'[Me(q)] = purchased[Me(q)] /\ toppedUp'[Me(q)] = toppedUp[Me(q)]
        <5>1. Me(q) \in Patient => Me(q) # Me(r)
          BY <1>1, <2>2, <4>1 DEF PatientInv, OneAtATime, InFlight
        <5> QED
          BY <1>8, <3>1, <5>1
      <4>3. pc[q] = "commit" => Loaded(q)'
        <5>1. tx'[q] = tx[q] /\ purchased[Me(q)] \in Nat /\ purchased'[Me(q)] \in Nat
              /\ purchased[Me(q)] <= purchased'[Me(q)] /\ InitialBudget \in Nat
          BY <1>5, <1>7, <2>2, <3>1, WalletAssumption
        <5>2. pc[q] = "commit" => Loaded(q)
          BY <3>1, <3>4 DEF SummaryOK
        <5> QED
          BY <3>1, <4>2, <5>1, <5>2 DEF Loaded
      <4>4. SummaryOK(q)'
        BY <1>4, <1>5, <1>7, <2>2, <3>1, <3>4, <4>2, <4>3 DEF SummaryOK
      <4> QED
        BY <3>2, <4>4
    <3> QED
      BY <3>3, <3>4
  <2> QED
    BY <2>1, <2>2
<1> QED
  BY <1>4, <1>10, <1>11 DEF SpendInv

LEMMA SpendNextInv == Inv /\ PatientInv /\ SpendInv /\ [SpendNext]_spendVars => SpendInv'
<1> SUFFICES ASSUME Inv, PatientInv, SpendInv, [SpendNext]_spendVars PROVE SpendInv'
  OBVIOUS
<1>1. CASE UNCHANGED spendVars
  <2>1. /\ rows' = rows /\ purchased' = purchased /\ toppedUp' = toppedUp
        /\ pc' = pc /\ tx' = tx /\ call' = call
        /\ basket' = basket /\ bought' = bought /\ insight' = insight
    BY <1>1 DEF spendVars, vars, db
  <2>2. SpendTyped'
    BY <2>1 DEF SpendInv, SpendTyped
  <2>3. ASSUME NEW g \in Guests PROVE BoughtOK(g)'
    BY <2>1 DEF SpendInv, BoughtOK
  <2>4. ASSUME NEW q \in Requests PROVE BasketOK(q)' /\ SummaryOK(q)'
    <3>1. BasketOK(q) /\ SummaryOK(q)
      BY DEF SpendInv
    <3>2. BasketOK(q)'
      BY <2>1, <3>1 DEF BasketOK
    <3>3. SummaryOK(q)'
      BY <2>1, <3>1 DEF SummaryOK, Loaded
    <3> QED
      BY <3>2, <3>3
  <2> QED
    BY <2>2, <2>3, <2>4 DEF SpendInv
<1>2. CASE SpendNext
  BY <1>2, AskInsightsStep, ListPurchasesStep, RecordStep, PublishStep, OtherStep DEF SpendNext
<1> QED
  BY <1>1, <1>2

\* Spending, whose steps are those of the wallet, is the wallet with purchases in detail:
\* all that is proved of the wallet holds beside the summaries.
THEOREM SpendComposed == SpendSpec => Spec
<1>1. SpendInit => Init
  BY DEF SpendInit
<1>2. [SpendNext]_spendVars => [Next]_vars
  <2>1. ASSUME NEW r \in Requests,
               AskInsights(r) \/ ListPurchases(r) \/ Record(r) \/ Publish(r) \/ Other(r)
        PROVE  [Next]_vars
    BY <2>1 DEF AskInsights, ListPurchases, Record, Publish, Other, Next, Arrive, Proceed
  <2> QED
    BY <2>1 DEF SpendNext, spendVars
<1> QED
  BY <1>1, <1>2, PTL DEF SpendSpec, Spec

\* A share of the whole is at most everything.
LEMMA PctBound ==
    ASSUME NEW part \in Nat, NEW whole \in Nat, part <= whole
    PROVE  Pct(part, whole) \in 0 .. 1000
<1>1. CASE whole = 0
  BY <1>1 DEF Pct
<1>2. CASE whole > 0
  <2> DEFINE n == 2000 * part + whole
             q == n \div (2 * whole)
             double == 2 * whole
  <2>1. double \in Nat /\ double > 0 /\ n \in Nat /\ 2 * n <= 2001 * double
    BY <1>2
  <2>2. q = n \div double
    OBVIOUS
  <2> HIDE DEF n, double, q
  <2>3. q \in Nat /\ double * q <= n
    BY <2>1, <2>2
  <2>4. \A c, a, b \in Nat : a <= b => c * a <= c * b
    OBVIOUS
  <2>5. q < 1001
    <3> SUFFICES ASSUME 1001 <= q PROVE FALSE
      BY <2>3
    <3>1. double * 1001 <= double * q
      BY <2>1, <2>3, <2>4
    <3>2. double * 1001 <= n
      BY <2>1, <2>3, <3>1
    <3> QED
      BY <2>1, <3>2
  <2>6. Pct(part, whole) = q
    BY <1>2 DEF Pct, q, n
  <2> QED
    BY <2>3, <2>5, <2>6
<1> QED
  BY <1>1, <1>2

\* The dearest of the categories holds an even share of what they amount to.
LEMMA HeadlineShare ==
    ASSUME NEW p \in Lists, Sound(p), NEW h \in Headlines(p)
    PROVE  h.amount * Cardinality(Categories(p)) >= TotalSpent(p)
<1> DEFINE Of(k) == [kind |-> k, amount |-> p[k].amount, count |-> p[k].count,
                     pct |-> Pct(p[k].amount, TotalSpent(p))]
           f == Of("flight")
           t == Of("hotel")
           here == {k \in Kinds : p[k].count > 0}
<1>1. /\ p["flight"] \in Sums /\ p["hotel"] \in Sums
      /\ TotalSpent(p) = p["flight"].amount + p["hotel"].amount
  BY ListType
<1>2. /\ p["flight"].amount \in Nat /\ p["hotel"].amount \in Nat
      /\ p["flight"].count \in Nat /\ p["hotel"].count \in Nat
  BY <1>1 DEF Sums
<1>3. Categories(p) = {Of(k) : k \in here}
  BY DEF Categories
<1>4. /\ h \in Categories(p) /\ \A b \in Categories(p) : Before(h, b)
  BY DEF Headlines
<1>5. f.amount = p["flight"].amount /\ t.amount = p["hotel"].amount /\ f # t
  OBVIOUS
<1>6. /\ here \subseteq {"flight", "hotel"}
      /\ "flight" \in here <=> p["flight"].count > 0
      /\ "hotel" \in here <=> p["hotel"].count > 0
  BY DEF Kinds
<1>7. /\ "flight" \notin here => f.amount = 0
      /\ "hotel" \notin here => t.amount = 0
  BY <1>2, <1>5, <1>6 DEF Sound, Kinds
<1>8. Categories(p) = {a \in {f, t} : (a = f => "flight" \in here) /\ (a = t => "hotel" \in here)}
  <2>1. Categories(p) \subseteq {a \in {f, t} : (a = f => "flight" \in here) /\ (a = t => "hotel" \in here)}
    BY <1>3, <1>5, <1>6
  <2>2. {a \in {f, t} : (a = f => "flight" \in here) /\ (a = t => "hotel" \in here)} \subseteq Categories(p)
    BY <1>3
  <2> QED
    BY <2>1, <2>2
<1>9. TotalSpent(p) = f.amount + t.amount /\ f.amount \in Nat /\ t.amount \in Nat
  BY <1>1, <1>2, <1>5
<1> HIDE DEF f, t, here
<1>10. CASE "flight" \in here /\ "hotel" \in here
  <2>1. Categories(p) = {f, t}
    BY <1>8, <1>10
  <2>2. Cardinality({f, t}) = 2
    <3>1. IsFiniteSet({f}) /\ Cardinality({f}) = 1
      BY FS_Singleton
    <3>0. t \notin {f}
      BY <1>5
    <3>2. Cardinality({f} \cup {t}) = Cardinality({f}) + 1
      BY <3>0, <3>1, FS_AddElement, Zenon
    <3>3. {f} \cup {t} = {f, t}
      OBVIOUS
    <3> QED
      BY <3>1, <3>2, <3>3
  <2>3. h \in {f, t} /\ h.amount >= f.amount /\ h.amount >= t.amount
    BY <1>4, <1>9, <2>1 DEF Before
  <2> QED
    BY <1>9, <2>1, <2>2, <2>3
<1>11. CASE ~("flight" \in here /\ "hotel" \in here)
  <2>1. Categories(p) = {h}
    BY <1>4, <1>8, <1>11
  <2>2. h \in {f, t} /\ Cardinality(Categories(p)) = 1
    BY <1>8, <2>1, FS_Singleton
  <2>3. (h = f => t.amount = 0) /\ (h = t => f.amount = 0)
    BY <1>4, <1>5, <1>7, <1>8, <1>11
  <2> QED
    BY <1>9, <2>2, <2>3
<1> QED
  BY <1>10, <1>11

\* SummaryHolds: whatever commits between its two SELECTs, a summary never understates the
\* budget, its shares are shares, its headline is the dearest kind, and a guest whose
\* requests do not overlap is shown the budget to the cent.
THEOREM SummariesHold == SpendSpec => []SummaryHolds
<1>1. Inv /\ PatientInv /\ SpendInv => SummaryHolds
  <2> SUFFICES ASSUME Inv, PatientInv, SpendInv, NEW r \in Requests, Shown(r)
               PROVE  LET list == insight[r].list IN
                      /\ InitialBudget <= BudgetShown(r)
                      /\ Pct(TotalSpent(list), BudgetShown(r)) \in 0 .. 1000
                      /\ \A h \in Headlines(list) :
                             h.amount * Cardinality(Categories(list)) >= TotalSpent(list)
                      /\ Me(r) \in Patient =>
                             /\ BudgetShown(r) = InitialBudget + toppedUp[Me(r)]
                             /\ "headroom" \in Lines(r) => Me(r) \in rows /\ balance[Me(r)] > 0
    BY DEF SummaryHolds
  <2> DEFINE list == insight[r].list
  <2>1. /\ pc[r] = "commit" /\ insight[r].listed /\ insight[r].asked
        /\ SummaryOK(r) /\ insight[r] \in Insights /\ Loaded(r)
    BY DEF Shown, SpendInv, SpendTyped, SummaryOK
  <2>2. list \in Lists /\ Sound(list)
    BY <2>1 DEF SummaryOK, Insights
  <2>3. /\ tx[r].view \in Nat /\ InitialBudget \in Nat /\ TotalSpent(list) \in Nat
        /\ TxCount(list) \in Nat /\ Me(r) \in Guests
        /\ toppedUp[Me(r)] \in Nat /\ purchased[Me(r)] \in Nat
    BY <2>1, <2>2, ListType, WalletAssumption DEF Inv, TypeOK, Tx, Loaded
  <2>4. BudgetShown(r) = tx[r].view + TotalSpent(list)
    BY DEF BudgetShown
  <2>5. InitialBudget <= BudgetShown(r)
    BY <2>1, <2>4 DEF SummaryOK
  <2>6. Pct(TotalSpent(list), BudgetShown(r)) \in 0 .. 1000
    <3>1. BudgetShown(r) \in Nat /\ TotalSpent(list) <= BudgetShown(r)
      BY <2>3, <2>4
    <3> QED
      BY <2>3, <3>1, PctBound
  <2>7. \A h \in Headlines(list) :
            h.amount * Cardinality(Categories(list)) >= TotalSpent(list)
    BY <2>2, HeadlineShare
  <2>8. ASSUME Me(r) \in Patient
        PROVE  /\ BudgetShown(r) = InitialBudget + toppedUp[Me(r)]
               /\ "headroom" \in Lines(r) => Me(r) \in rows /\ balance[Me(r)] > 0
    <3>1. /\ TotalSpent(list) = purchased[Me(r)]
          /\ TxCount(list) > 0 => Me(r) \in rows
          /\ tx[r].view = InitialBudget + toppedUp[Me(r)] - purchased[Me(r)]
      BY <2>1, <2>8 DEF SummaryOK, Loaded
    <3>2. BudgetShown(r) = InitialBudget + toppedUp[Me(r)]
      BY <2>3, <2>4, <3>1
    <3>3. ASSUME "headroom" \in Lines(r) PROVE TxCount(list) # 0 /\ BudgetShown(r) - TotalSpent(list) > 0
      BY <3>3 DEF Lines
    <3>4. ASSUME "headroom" \in Lines(r) PROVE Me(r) \in rows /\ balance[Me(r)] > 0
      <4>1. Me(r) \in rows /\ tx[r].view > 0
        BY <2>3, <2>4, <3>1, <3>3, <3>4
      <4>2. balance[Me(r)] = InitialBudget + toppedUp[Me(r)] - purchased[Me(r)]
        BY <2>8, <4>1 DEF PatientInv, Conservation
      <4> QED
        BY <3>1, <4>1, <4>2
    <3> QED
      BY <3>2, <3>4
  <2> QED
    BY <2>5, <2>6, <2>7, <2>8
<1>2. SpendInit => Init
  BY DEF SpendInit
<1> QED
  BY <1>1, <1>2, InitInv, NextInv, InitPatient, NextPatient, SpendInitInv, SpendNextInv,
     SpendComposed, PTL DEF Spec, SpendSpec

=============================================================================
