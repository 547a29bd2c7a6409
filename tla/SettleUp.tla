------------------------------ MODULE SettleUp ------------------------------
(***************************************************************************)
(* A PaxPal expense group over PostgreSQL: members add expenses and settle *)
(* up while other requests do the same.  settle_up reads the open expenses *)
(* and the budgets of all concerned at different moments, computes every   *)
(* new balance on these copies, marks whatever is open by then, and only   *)
(* at the end flushes: the expenses' rows first, then the budgets', each   *)
(* table in primary-key order, locking row by row.  A budget that has to   *)
(* be opened on the way flushes what is pending earlier than that.         *)
(*                                                                         *)
(* A restart of the container ends what is in flight and seeds the         *)
(* database again, which writes the seeded expenses over.                  *)
(***************************************************************************)
EXTENDS Integers, FiniteSets, FiniteSetsExt, Functions

CONSTANTS
    Members,        \* the group's guests, numbered in primary-key order
    SeedExpenses,   \* ids of the expenses the seed creates
    SeedPayer,      \* SeedPayer[e]: who paid seed expense e
    SeedAmount,     \* SeedAmount[e]: its amount_cents
    Requests,       \* the HTTP requests that arrive, each handled once
    Caller,         \* Caller[r]: the authenticated member
    ExpenseOf,      \* ExpenseOf[r]: the id an expense added by r gets
    Amounts,        \* amounts of added expenses
    InitialBudget,  \* settings.demo_budget_cents
    Opened,         \* members whose budget exists at first
    MaxInFlight,    \* bound on concurrent requests
    MaxBoots,       \* bound on restarts
    NoRow           \* neither a member nor an expense, and no request

ExpenseIds == SeedExpenses \cup {ExpenseOf[r] : r \in Requests}

\* Expense rows come before budget rows: the unit of work sorts the mappers by
\* class name, GroupExpenseORM before WalletBudgetORM.
ASSUME SettleUpAssumption ==
    /\ Members \subseteq Nat /\ IsFiniteSet(Members) /\ Members # {}
    /\ ExpenseIds \subseteq Nat /\ IsFiniteSet(SeedExpenses) /\ IsFiniteSet(Requests)
    /\ \A q, r \in Requests : ExpenseOf[q] = ExpenseOf[r] => q = r     \* fresh ids
    /\ \A r \in Requests : ExpenseOf[r] \notin SeedExpenses
    /\ \A e \in ExpenseIds, g \in Members : e < g
    /\ SeedPayer \in [SeedExpenses -> Members]
    /\ SeedAmount \in [SeedExpenses -> Nat \ {0}]
    /\ Caller \in [Requests -> Members]
    /\ Amounts \subseteq Nat \ {0}
    /\ InitialBudget \in Nat
    /\ Opened \subseteq Members
    /\ NoRow \notin Members \cup ExpenseIds \cup Requests

VARIABLES
    rows,       \* members with a committed wallet_budgets row
    balance,    \* balance[g]: its committed balance_cents
    expenses,   \* the committed group_expenses, by id
    paidOut,    \* paidOut[g]: settledCents of all of g's answered settlements
    received,   \* received[g]: transfers to g in all answered settlements
    holder,     \* holder[x]: the request whose open transaction locked row x
    pc,         \* pc[r]: where request r stands
    tx,         \* tx[r]: the open transaction of r, see CleanTx
    boots       \* restarts so far

db == <<rows, balance, expenses, paidOut, received>>
vars == <<db, holder, pc, tx, boots>>

Rows == Members \cup ExpenseIds

-----------------------------------------------------------------------------
(* The arithmetic of _group_out, on a set of open expenses *)

Me(r) == Caller[r]

Open == {e \in DOMAIN expenses : ~expenses[e].settled}

Paid(g, view) ==
    SumFunctionOnSet([e \in view |-> expenses[e].amount], {e \in view : expenses[e].payer = g})

Unsettled(view) == SumFunctionOnSet([e \in view |-> expenses[e].amount], view)

Net(g, view) == Paid(g, view) - Unsettled(view) \div Cardinality(Members)

Creditors(view) == {g \in Members : Net(g, view) > 0}

TotalCredit(view) == SumFunctionOnSet([g \in Members |-> Net(g, view)], Creditors(view))

Owed(r) == -Net(Me(r), tx[r].view)

\* Variant: every creditor gets a rounded-down part, the last one too.
Part_RoundedDown(r, c) == (Owed(r) * Net(c, tx[r].view)) \div TotalCredit(tx[r].view)

\* What creditor c gets when it is the next one: in proportion to its credit and
\* rounded down, except that the last one gets what is left.
Part(r, c) ==
    IF tx[r].todo = {c}
    THEN tx[r].left
    ELSE (Owed(r) * Net(c, tx[r].view)) \div TotalCredit(tx[r].view)

-----------------------------------------------------------------------------
(* Transactions *)

\* view, marks: expenses the first and the second SELECT returned; todo: creditors
\* not yet handled; left: the amount not yet handed out; copy: the loaded balances;
\* moves: change of each balance, as the response reports it; dirty: budgets changed
\* and not flushed; written, opened: budget rows flushed, inserted; pending: rows the
\* flush under way still has to lock; insert: the budget row it will insert; cost:
\* of the expense to add.
CleanTx ==
    [view |-> {}, marks |-> {}, todo |-> {}, left |-> 0,
     copy |-> [g \in Members |-> 0], moves |-> [g \in Members |-> 0],
     dirty |-> {}, written |-> {}, opened |-> {},
     pending |-> {}, insert |-> NoRow, cost |-> 0]

InFlight == {"view", "mine", "open", "pay", "mark", "flush", "commit"}
Answered == {"done", "refused", "failed"}

\* The rows request r waits for: the least one it still has to lock, then the
\* key it is about to insert.
Wanted(r) ==
    IF pc[r] \in {"open", "flush"} /\ tx[r].pending # {} THEN {Min(tx[r].pending)}
    ELSE IF pc[r] = "open" THEN {tx[r].insert}
    ELSE {}

BlockedBy(r, q) == q # r /\ \E x \in Wanted(r) : holder[x] = q

\* Requests that wait for one another in a circle.
Deadlock(S) == S # {} /\ \A r \in S : \E q \in S : BlockedBy(r, q)

\* Variant: a transaction that ends keeps its row locks.
Unlock_Never(r) == UNCHANGED holder

\* COMMIT and ROLLBACK both release what the transaction locked.
Unlock(r) == holder' = [x \in Rows |-> IF holder[x] = r THEN NoRow ELSE holder[x]]

\* Variant: the budgets that were already flushed survive the rollback.
Rollback_KeepsFlushed(r, answer) ==
    /\ pc' = [pc EXCEPT ![r] = answer]
    /\ tx' = [tx EXCEPT ![r] = CleanTx]
    /\ balance' = [g \in Members |->
                      IF g \in tx[r].written THEN tx[r].copy[g] ELSE balance[g]]
    /\ Unlock(r)
    /\ UNCHANGED <<rows, expenses, paidOut, received, boots>>

\* The exception handler of get_session.
Rollback(r, answer) ==
    /\ pc' = [pc EXCEPT ![r] = answer]
    /\ tx' = [tx EXCEPT ![r] = CleanTx]
    /\ Unlock(r)
    /\ UNCHANGED <<db, boots>>

-----------------------------------------------------------------------------
SeedRow(e) == [payer |-> SeedPayer[e], amount |-> SeedAmount[e], settled |-> FALSE]

Init ==
    /\ rows = Opened
    /\ balance = [g \in Members |-> IF g \in Opened THEN InitialBudget ELSE 0]
    /\ expenses = [e \in SeedExpenses |-> SeedRow(e)]
    /\ paidOut = [g \in Members |-> 0]
    /\ received = [g \in Members |-> 0]
    /\ holder = [x \in Rows |-> NoRow]
    /\ pc = [r \in Requests |-> "idle"]
    /\ tx = [r \in Requests |-> CleanTx]
    /\ boots = 0

MaySend(r) ==
    /\ pc[r] = "idle"
    /\ Cardinality({q \in Requests : pc[q] \in InFlight}) < MaxInFlight

\* POST /groups/{id}/expenses: the INSERT, visible when it commits.
AddExpense(r) ==
    /\ MaySend(r)
    /\ \E n \in Amounts : tx' = [tx EXCEPT ![r].cost = n]
    /\ pc' = [pc EXCEPT ![r] = "commit"]
    /\ UNCHANGED <<db, holder, boots>>

\* POST /groups/{id}/settle.
ReceiveSettle(r) ==
    /\ MaySend(r)
    /\ pc' = [pc EXCEPT ![r] = "view"]
    /\ UNCHANGED <<db, holder, tx, boots>>

\* _group_out: the round this settlement is about.
View(r) ==
    /\ pc[r] = "view"
    /\ tx' = [tx EXCEPT ![r].view = Open]
    /\ pc' = [pc EXCEPT ![r] = "mine"]
    /\ UNCHANGED <<db, holder, boots>>

\* Variant: the debtor's balance is not compared with the debt.
Decide_Unchecked(r, mine) ==
    IF Owed(r) <= 0 THEN "commit" ELSE "pay"

\* What follows once the caller's budget is known: nothing is owed, too much is
\* owed, or the creditors are paid.
Decide(r, mine) ==
    IF Owed(r) <= 0 THEN "commit" ELSE IF Owed(r) > mine THEN "refused" ELSE "pay"

\* The caller's budget, read with mine in it.
Mine(r, mine, opened) ==
    LET next == Decide(r, mine) IN
    IF next = "refused"
    THEN Rollback(r, "refused")
    ELSE /\ tx' = [tx EXCEPT ![r].copy[Me(r)] = mine,
                             ![r].todo = Creditors(tx[r].view),
                             ![r].left = Owed(r),
                             ![r].opened = @ \cup opened,
                             ![r].insert = NoRow]
         /\ pc' = [pc EXCEPT ![r] = next]
         /\ IF opened = {}
            THEN UNCHANGED holder
            ELSE holder' = [holder EXCEPT ![Me(r)] = r]
         /\ UNCHANGED <<db, boots>>

\* ensure_budget of the caller.
EnsureMine(r) ==
    /\ pc[r] = "mine"
    /\ \/ /\ Me(r) \in rows
          /\ Mine(r, balance[Me(r)], {})
       \/ /\ Me(r) \notin rows
          /\ tx' = [tx EXCEPT ![r].insert = Me(r)]
          /\ pc' = [pc EXCEPT ![r] = "open"]
          /\ UNCHANGED <<db, holder, boots>>

\* The copy of creditor c, read as it stands, with its part added.
Credit(r, c, theirs, n) ==
    [tx[r] EXCEPT !.todo = @ \ {c}, !.left = @ - n,
                  !.copy[c] = theirs + n, !.moves[c] = @ + n,
                  !.dirty = @ \cup {c}]

\* One round of the loop over the creditors, in the order the SELECT returned
\* them.  A creditor without a budget row gets one before it is credited, in a
\* flush that also writes the creditors before it.
PayCreditor(r) ==
    /\ pc[r] = "pay"
    /\ \E c \in tx[r].todo :
         LET n == Part(r, c) IN
         \/ /\ n <= 0
            /\ tx' = [tx EXCEPT ![r].todo = @ \ {c}]
            /\ UNCHANGED pc
         \/ /\ n > 0 /\ c \in rows
            /\ tx' = [tx EXCEPT ![r] = Credit(r, c, balance[c], n)]
            /\ UNCHANGED pc
         \/ /\ n > 0 /\ c \notin rows
            /\ tx' = [tx EXCEPT ![r].insert = c, ![r].pending = tx[r].dirty]
            /\ pc' = [pc EXCEPT ![r] = "open"]
    /\ UNCHANGED <<db, holder, boots>>

\* The INSERT of the missing budget row: a unique violation when another request
\* has committed one meanwhile.
OpenBudget(r) ==
    /\ pc[r] = "open"
    /\ tx[r].pending = {}
    /\ LET g == tx[r].insert IN
       /\ holder[g] = NoRow
       /\ \/ /\ g \in rows
             /\ Rollback(r, "failed")
          \/ /\ g \notin rows /\ g = Me(r)
             /\ Mine(r, InitialBudget, {g})
          \/ /\ g \notin rows /\ g # Me(r)
             /\ tx' = [tx EXCEPT ![r] =
                          [Credit(r, g, InitialBudget, Part(r, g)) EXCEPT
                              !.opened = @ \cup {g}, !.insert = NoRow]]
             /\ pc' = [pc EXCEPT ![r] = "pay"]
             /\ holder' = [holder EXCEPT ![g] = r]
             /\ UNCHANGED <<db, boots>>

\* The loop is over: the debt is taken from the caller's copy, and a second SELECT
\* returns the expenses to mark, which may not be those of the view.
Mark(r) ==
    /\ pc[r] = "pay"
    /\ tx[r].todo = {}
    /\ tx' = [tx EXCEPT ![r] =
                 [tx[r] EXCEPT !.marks = Open,
                               !.copy[Me(r)] = @ - Owed(r),
                               !.moves[Me(r)] = @ - Owed(r),
                               !.dirty = @ \cup {Me(r)},
                               !.pending = Open \cup tx[r].dirty \cup {Me(r)}]]
    /\ pc' = [pc EXCEPT ![r] = "flush"]
    /\ UNCHANGED <<db, holder, boots>>

\* Variant: rows are written in the order the transaction changed them in.
NextRow_Any(r) == tx[r].pending

\* The row a flush writes next.
NextRow(r) == {Min(tx[r].pending)}

\* One UPDATE of the flush; it waits for another transaction that wrote the row.
FlushRow(r) ==
    /\ pc[r] \in {"open", "flush"}
    /\ tx[r].pending # {}
    /\ \E x \in NextRow(r) :
         /\ holder[x] \in {NoRow, r}
         /\ holder' = [holder EXCEPT ![x] = r]
         /\ tx' = [tx EXCEPT ![r].pending = @ \ {x},
                             ![r].dirty = @ \ {x},
                             ![r].written = @ \cup ({x} \cap Members)]
         /\ pc' = [pc EXCEPT ![r] =
                      IF pc[r] = "flush" /\ tx[r].pending = {x} THEN "commit" ELSE @]
    /\ UNCHANGED <<db, boots>>

\* The expenses as the transaction leaves them: one added, or the marked ones settled.
Recorded(r) ==
    IF tx[r].cost > 0
    THEN [e \in DOMAIN expenses \cup {ExpenseOf[r]} |->
             IF e = ExpenseOf[r]
             THEN [payer |-> Me(r), amount |-> tx[r].cost, settled |-> FALSE]
             ELSE expenses[e]]
    ELSE [e \in DOMAIN expenses |->
             [expenses[e] EXCEPT !.settled = @ \/ e \in tx[r].marks]]

\* Everything the transaction wrote becomes visible at once.
Commit(r) ==
    /\ pc[r] = "commit"
    /\ rows' = rows \cup tx[r].opened
    /\ balance' = [g \in Members |->
                      IF g \in tx[r].opened \cup tx[r].written
                      THEN tx[r].copy[g] ELSE balance[g]]
    /\ expenses' = Recorded(r)
    /\ paidOut' = [paidOut EXCEPT ![Me(r)] = @ - tx[r].moves[Me(r)]]
    /\ received' = [g \in Members |->
                       received[g] + (IF g = Me(r) THEN 0 ELSE tx[r].moves[g])]
    /\ pc' = [pc EXCEPT ![r] = "done"]
    /\ tx' = [tx EXCEPT ![r] = CleanTx]
    /\ Unlock(r)
    /\ UNCHANGED boots

\* PostgreSQL ends a deadlock by failing one of those waiting in it.
DeadlockVictim(r) ==
    /\ \E S \in SUBSET Requests : r \in S /\ Deadlock(S)
    /\ Rollback(r, "failed")

\* A lost connection, a client gone, an exception.
Fail(r) ==
    /\ pc[r] \in InFlight
    /\ Rollback(r, "failed")

\* _upsert: the seeded rows are written over, settled or not.
Seeded == [e \in DOMAIN expenses |-> IF e \in SeedExpenses THEN SeedRow(e) ELSE expenses[e]]

\* The container restarts: docker-entrypoint.sh seeds before it serves.
Boot ==
    /\ boots < MaxBoots
    /\ boots' = boots + 1
    /\ expenses' = Seeded
    /\ pc' = [r \in Requests |-> IF pc[r] \in InFlight THEN "failed" ELSE pc[r]]
    /\ tx' = [r \in Requests |-> CleanTx]
    /\ holder' = [x \in Rows |-> NoRow]
    /\ UNCHANGED <<rows, balance, paidOut, received>>

Proceed(r) ==
    \/ View(r) \/ EnsureMine(r) \/ PayCreditor(r) \/ OpenBudget(r)
    \/ Mark(r) \/ FlushRow(r) \/ Commit(r) \/ DeadlockVictim(r)

Next ==
    \/ \E r \in Requests : AddExpense(r) \/ ReceiveSettle(r) \/ Proceed(r) \/ Fail(r)
    \/ Boot

Spec == Init /\ [][Next]_vars

\* Every await of a request returns, and PostgreSQL resolves deadlocks.
Fairness == \A r \in Requests : WF_vars(Proceed(r))

FairSpec == Spec /\ Fairness

-----------------------------------------------------------------------------
(* Properties *)

\* Settlements that overlap, and write each other's balances over, never leave a
\* member with less than nothing.
NonNegative == \A g \in Members : balance[g] >= 0

\* Whatever is lost, no balance moves further than the answered settlements say:
\* a member keeps all but what it was told it paid, and holds at most what it was
\* told it got.  In particular an unanswered settlement moves nothing.
BalanceBounds ==
    \A g \in rows :
        /\ InitialBudget - paidOut[g] <= balance[g]
        /\ balance[g] <= InitialBudget + received[g]

\* Settlements lock in one global order, so that they can block each other in a
\* circle only when one of them had to open a budget half way.
DeadlockNeedsOpening ==
    \A S \in SUBSET Requests :
        Deadlock(S) => \E r \in S : tx[r].opened \cup ({tx[r].insert} \cap Members) # {}

\* Every request is answered, deadlocks and restarts included.
EveryRequestAnswered ==
    \A r \in Requests : pc[r] \in InFlight ~> pc[r] \in Answered

\* Without overlap a settlement is one step of Tab: the debtor pays the whole debt,
\* to the cent, to members who are owed, and the round it paid for is closed.
TabSpec == INSTANCE Tab WITH
    OpeningBudget <- InitialBudget,
    FirstRound <- [g \in Members |-> SumFunctionOnSet(SeedAmount, {e \in SeedExpenses : SeedPayer[e] = g})],
    funds <- [g \in Members |-> IF g \in rows THEN balance[g] ELSE InitialBudget],
    spent <- [g \in Members |-> Paid(g, Open)]

ImplementsTab == TabSpec!Spec

\* What seed.py says of its re-run: it is safe, rows that exist are not inserted
\* again.  So an expense that was settled stays settled.
RerunIsSafe ==
    [][\A e \in DOMAIN expenses : expenses[e].settled => expenses'[e].settled]_vars

=============================================================================
