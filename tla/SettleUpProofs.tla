--------------------------- MODULE SettleUpProofs ---------------------------
(***************************************************************************)
(* Settlements of any number of members, expenses and requests, with sums  *)
(* over whatever expenses are open: no balance falls below zero, none      *)
(* moves further than the answers say, and only a budget opened half way   *)
(* lets settlements wait for one another in a circle.  Requests that take  *)
(* turns keep one step of Tab for each settlement, to the cent.            *)
(***************************************************************************)
EXTENDS SettleUp, SetFacts

Stages == InFlight \cup Answered \cup {"idle"}
Expense == [payer : Members, amount : Nat \ {0}, settled : BOOLEAN]
Tx == [view : SUBSET ExpenseIds, marks : SUBSET ExpenseIds, todo : SUBSET Members, left : Int,
       copy : [Members -> Int], moves : [Members -> Int],
       dirty : SUBSET Members, written : SUBSET Members, opened : SUBSET Members,
       pending : SUBSET Rows, insert : Members \cup {NoRow}, cost : Nat]

\* The types of the tables, the row locks and the open transactions.
TypeOK ==
    /\ rows \subseteq Members
    /\ balance \in [Members -> Int]
    /\ DOMAIN expenses \subseteq ExpenseIds /\ expenses \in [DOMAIN expenses -> Expense]
    /\ paidOut \in [Members -> Nat] /\ received \in [Members -> Nat]
    /\ holder \in [Rows -> Requests \cup {NoRow}]
    /\ pc \in [Requests -> Stages]
    /\ tx \in [Requests -> Tx]
    /\ boots \in Nat

\* An expense keeps its payer and its amount: the seed writes what it wrote before, and
\* an id is given out once.
ExpensesOK ==
    /\ \A e \in DOMAIN expenses \cap SeedExpenses :
           expenses[e].payer = SeedPayer[e] /\ expenses[e].amount = SeedAmount[e]
    /\ \A r \in Requests : ExpenseOf[r] \in DOMAIN expenses => pc[r] = "done"

\* What Owed and Part are of a transaction t of r.
Debt(r, t) == -Net(Me(r), t.view)
PartOf(r, t, c) ==
    IF t.todo = {c} THEN t.left ELSE (Debt(r, t) * Net(c, t.view)) \div TotalCredit(t.view)

\* A copy is as old as it may be: what it was before this transaction moved it lay
\* between what the answered settlements say, and still does as they become more.
Within(t, g) ==
    /\ InitialBudget - paidOut[g] <= t.copy[g] - t.moves[g]
    /\ t.copy[g] - t.moves[g] <= InitialBudget + received[g]

Touched(t) == t.dirty \cup t.written \cup t.opened

\* Creditors are being paid.
Paying(r, p, t) == p = "pay" \/ (p = "open" /\ t.insert # Me(r))

\* What request r in stage p with the transaction t may rely on.
Session(r, p, t) ==
    /\ p \notin InFlight \/ p = "view" => t = CleanTx
    /\ p = "mine" \/ (p = "open" /\ t.insert = Me(r)) =>
           /\ Touched(t) = {} /\ t.pending = {}
           /\ \A g \in Members : t.moves[g] = 0
    /\ (p = "open") <=> (t.insert # NoRow)
    /\ t.view \subseteq DOMAIN expenses /\ t.pending \cap Members \subseteq t.dirty
    /\ \A g \in Members : IF g = Me(r) THEN t.moves[g] <= 0 ELSE t.moves[g] >= 0
    /\ Paying(r, p, t) =>
           /\ 0 < Debt(r, t) /\ Debt(r, t) <= t.copy[Me(r)]
           /\ \A g \in t.todo \cup {Me(r)} : t.moves[g] = 0
           /\ Within(t, Me(r))
           /\ t.todo \subseteq Creditors(t.view)
           /\ p = "open" => t.insert \in t.todo /\ PartOf(r, t, t.insert) > 0
    /\ \A g \in Touched(t) : t.copy[g] >= 0 /\ Within(t, g)

\* What r has locked comes before what it still has to lock, unless it opens a budget.
Ascending(r, p, t, locks) ==
    t.opened = {} /\ t.insert = NoRow =>
        \A x \in Rows : locks[x] = r => p \in {"flush", "commit"} /\ \A y \in t.pending : x < y

SessionsOK ==
    \A r \in Requests, p \in Stages, t \in Tx :
        pc[r] = p /\ tx[r] = t => Session(r, p, t) /\ Ascending(r, p, t, holder)

Inv == TypeOK /\ ExpensesOK /\ NonNegative /\ BalanceBounds /\ SessionsOK

-----------------------------------------------------------------------------
(* Constants and sums *)

LEMMA FiniteImage ==
    ASSUME NEW S, IsFiniteSet(S), NEW f
    PROVE  IsFiniteSet({f[x] : x \in S})
<1> DEFINE T == {f[x] : x \in S}
           g == [x \in S |-> f[x]]
<1>1. g \in Surjection(S, T)
  BY DEF Surjection
<1> QED
  BY <1>1, FS_Surjection

LEMMA FiniteRows ==
    /\ IsFiniteSet(Members) /\ Cardinality(Members) \in Nat \ {0}
    /\ IsFiniteSet(ExpenseIds) /\ IsFiniteSet(Rows)
    /\ Members \subseteq Nat /\ ExpenseIds \subseteq Nat /\ Rows \subseteq Nat
    /\ Members \cap ExpenseIds = {}
    /\ NoRow \notin Members /\ NoRow \notin Requests /\ NoRow \notin Rows
<1>1. IsFiniteSet(Members) /\ Cardinality(Members) \in Nat \ {0}
  BY SettleUpAssumption, FS_CardinalityType, FS_EmptySet
<1>2. IsFiniteSet(ExpenseIds)
  <2>1. IsFiniteSet({ExpenseOf[r] : r \in Requests})
    BY SettleUpAssumption, FiniteImage
  <2> QED
    BY <2>1, SettleUpAssumption, FS_Union DEF ExpenseIds
<1>3. IsFiniteSet(Rows)
  BY <1>1, <1>2, FS_Union DEF Rows
<1>4. Members \cap ExpenseIds = {}
  <2>1. \A n \in Nat : ~(n < n)
    OBVIOUS
  <2> QED
    BY <2>1, SettleUpAssumption
<1>5. /\ Members \subseteq Nat /\ ExpenseIds \subseteq Nat /\ Rows \subseteq Nat
      /\ NoRow \notin Members /\ NoRow \notin Requests /\ NoRow \notin Rows
  BY SettleUpAssumption DEF Rows
<1> QED
  BY <1>1, <1>2, <1>3, <1>4, <1>5

LEMMA RequestsOf ==
    /\ \A r \in Requests : Me(r) \in Members /\ ExpenseOf[r] \in ExpenseIds
                           /\ ExpenseOf[r] \notin SeedExpenses
    /\ \A q, r \in Requests : ExpenseOf[q] = ExpenseOf[r] => q = r
    /\ \A e \in SeedExpenses : SeedPayer[e] \in Members /\ SeedAmount[e] \in Nat \ {0}
    /\ SeedExpenses \subseteq ExpenseIds /\ Amounts \subseteq Nat \ {0}
    /\ InitialBudget \in Nat /\ Opened \subseteq Members
BY SettleUpAssumption DEF Me, ExpenseIds

\* What a round adds up to.
LEMMA NetType ==
    ASSUME TypeOK, NEW view, view \subseteq DOMAIN expenses
    PROVE  /\ \A g : Paid(g, view) \in Nat /\ Net(g, view) \in Int
           /\ Unsettled(view) \in Nat /\ TotalCredit(view) \in Int
           /\ \A c \in Creditors(view) : TotalCredit(view) >= Net(c, view) /\ TotalCredit(view) > 0
<1> DEFINE w == [e \in view |-> expenses[e].amount]
           S(g) == {e \in view : expenses[e].payer = g}
<1>1. IsFiniteSet(view)
  BY FiniteRows, FS_Subset DEF TypeOK
<1>2. \A e \in view : w[e] \in Nat
  BY DEF TypeOK, Expense
<1> HIDE DEF w
<1>3. Unsettled(view) \in Nat
  <2>1. SumFunctionOnSet(w, view) \in Nat
    BY <1>1, <1>2, SumType
  <2> QED
    BY <2>1 DEF Unsettled, w
<1>4. ASSUME NEW g PROVE Paid(g, view) \in Nat
  <2>1. S(g) \subseteq view /\ IsFiniteSet(S(g))
    BY <1>1, FS_Subset
  <2> HIDE DEF S
  <2>2. SumFunctionOnSet(w, S(g)) \in Nat
    BY <1>2, <2>1, SumType
  <2> QED
    BY <2>2 DEF Paid, w, S
<1>5. \A g : Net(g, view) \in Int
  <2>1. Unsettled(view) \div Cardinality(Members) \in Int
    BY <1>3, FiniteRows
  <2> QED
    BY <1>4, <2>1 DEF Net
<1> DEFINE v == [g \in Members |-> Net(g, view)]
           C == Creditors(view)
<1>6. C \subseteq Members /\ IsFiniteSet(C)
  BY FiniteRows, FS_Subset DEF Creditors
<1>7. \A c \in C : v[c] = Net(c, view) /\ v[c] \in Nat /\ v[c] > 0
  BY <1>5, <1>6 DEF Creditors
<1> HIDE DEF v, C
<1>8. TotalCredit(view) = SumFunctionOnSet(v, C)
  BY DEF TotalCredit, v, C
<1>9. SumFunctionOnSet(v, C) \in Nat
  BY <1>6, <1>7, SumType
<1>10. ASSUME NEW c \in C PROVE SumFunctionOnSet(v, C) >= v[c]
  <2>1. SumFunctionOnSet(v, C) = v[c] + SumFunctionOnSet(v, C \ {c})
    BY <1>6, <1>7, SumElement
  <2>2. IsFiniteSet(C \ {c}) /\ \A x \in C \ {c} : v[x] \in Nat
    BY <1>6, <1>7, FS_Subset
  <2>3. SumFunctionOnSet(v, C \ {c}) \in Nat
    BY <2>2, SumType
  <2> QED
    BY <1>7, <2>1, <2>3
<1>11. \A c \in C : TotalCredit(view) >= Net(c, view) /\ TotalCredit(view) > 0
  BY <1>5, <1>7, <1>8, <1>9, <1>10
<1> QED
  BY <1>3, <1>4, <1>5, <1>8, <1>9, <1>11 DEF C

LEMMA DebtType ==
    ASSUME TypeOK, NEW r \in Requests, NEW t \in Tx, t.view \subseteq DOMAIN expenses
    PROVE  Debt(r, t) \in Int
<1>1. Net(Me(r), t.view) \in Int
  BY NetType
<1> QED
  BY <1>1 DEF Debt

\* A part is a number.
LEMMA PartType ==
    ASSUME TypeOK, NEW r \in Requests, NEW t \in Tx, t.view \subseteq DOMAIN expenses,
           t.todo \subseteq Creditors(t.view), NEW c \in t.todo
    PROVE  Debt(r, t) \in Int /\ PartOf(r, t, c) \in Int
<1>1. Debt(r, t) \in Int /\ Net(c, t.view) \in Int
  BY NetType DEF Debt
<1>2. TotalCredit(t.view) \in Nat \ {0}
  BY NetType
<1>3. \A a \in Int, b \in Nat \ {0} : a \div b \in Int
  OBVIOUS
<1>4. Debt(r, t) * Net(c, t.view) \in Int
  BY <1>1
<1>5. t.left \in Int
  BY DEF Tx
<1> QED
  BY <1>1, <1>2, <1>3, <1>4, <1>5 DEF PartOf

-----------------------------------------------------------------------------
(* What others do *)

\* Expenses stay what they were, settled or not.
Steady ==
    /\ DOMAIN expenses \subseteq DOMAIN expenses'
    /\ \A e \in DOMAIN expenses :
           expenses'[e].payer = expenses[e].payer /\ expenses'[e].amount = expenses[e].amount

\* The answers only widen what a copy may be.
Widened == \A g \in Members : paidOut[g] <= paidOut'[g] /\ received[g] <= received'[g]

\* So a round, once read, stays what it was.
LEMMA SameRound ==
    ASSUME TypeOK, Steady, NEW view, view \subseteq DOMAIN expenses
    PROVE  /\ \A g : Net(g, view)' = Net(g, view)
           /\ Creditors(view)' = Creditors(view) /\ TotalCredit(view)' = TotalCredit(view)
<1>1. [e \in view |-> expenses'[e].amount] = [e \in view |-> expenses[e].amount]
  BY DEF Steady
<1>2. \A g : {e \in view : expenses'[e].payer = g} = {e \in view : expenses[e].payer = g}
  BY DEF Steady
<1>3. /\ Unsettled(view)' = Unsettled(view)
      /\ \A g : Paid(g, view)' = Paid(g, view)
  BY <1>1, <1>2 DEF Unsettled, Paid
<1>4. \A g : Net(g, view)' = Net(g, view)
  BY <1>3 DEF Net
<1>5. Creditors(view)' = Creditors(view)
  BY <1>4 DEF Creditors
<1>6. [g \in Members |-> Net(g, view)'] = [g \in Members |-> Net(g, view)]
  BY <1>4
<1>7. TotalCredit(view)' = TotalCredit(view)
  BY <1>5, <1>6 DEF TotalCredit
<1> QED
  BY <1>4, <1>5, <1>7

\* What a request relies on, others leave it.
LEMMA SessionKept ==
    ASSUME TypeOK, TypeOK', Steady, Widened, NEW r \in Requests, NEW p, NEW t \in Tx, Session(r, p, t)
    PROVE  Session(r, p, t)'
<1>1. t.view \subseteq DOMAIN expenses /\ t.view \subseteq DOMAIN expenses'
  BY DEF Session, Steady
<1>2. /\ \A g : Net(g, t.view)' = Net(g, t.view)
      /\ Creditors(t.view)' = Creditors(t.view) /\ TotalCredit(t.view)' = TotalCredit(t.view)
  BY <1>1, SameRound
<1>3. /\ Debt(r, t)' = Debt(r, t)
      /\ \A c : PartOf(r, t, c)' = PartOf(r, t, c)
  BY <1>2 DEF Debt, PartOf, Me
<1>4. \A g \in Members : Within(t, g) => Within(t, g)'
  <2> SUFFICES ASSUME NEW g \in Members, Within(t, g) PROVE Within(t, g)'
    OBVIOUS
  <2>1. /\ t.copy[g] - t.moves[g] \in Int
        /\ paidOut[g] \in Int /\ paidOut'[g] \in Int /\ received[g] \in Int /\ received'[g] \in Int
        /\ paidOut[g] <= paidOut'[g] /\ received[g] <= received'[g]
    BY DEF TypeOK, Tx, Widened
  <2> QED
    BY <2>1, RequestsOf DEF Within
<1>5. Touched(t) \subseteq Members /\ Me(r) \in Members
  BY RequestsOf DEF Touched, Tx
<1>6. \A g \in Touched(t) : t.copy[g] >= 0 /\ Within(t, g)'
  BY <1>4, <1>5 DEF Session
<1>7. Paying(r, p, t) =>
          /\ 0 < Debt(r, t)' /\ Debt(r, t)' <= t.copy[Me(r)]
          /\ \A g \in t.todo \cup {Me(r)} : t.moves[g] = 0
          /\ Within(t, Me(r))'
          /\ t.todo \subseteq Creditors(t.view)'
          /\ p = "open" => t.insert \in t.todo /\ PartOf(r, t, t.insert)' > 0
  <2> SUFFICES ASSUME Paying(r, p, t)
               PROVE  /\ 0 < Debt(r, t)' /\ Debt(r, t)' <= t.copy[Me(r)]
                      /\ \A g \in t.todo \cup {Me(r)} : t.moves[g] = 0
                      /\ Within(t, Me(r))'
                      /\ t.todo \subseteq Creditors(t.view)'
                      /\ p = "open" => t.insert \in t.todo /\ PartOf(r, t, t.insert)' > 0
    OBVIOUS
  <2>1. /\ 0 < Debt(r, t) /\ Debt(r, t) <= t.copy[Me(r)]
        /\ \A g \in t.todo \cup {Me(r)} : t.moves[g] = 0
        /\ Within(t, Me(r)) /\ t.todo \subseteq Creditors(t.view)
        /\ p = "open" => t.insert \in t.todo /\ PartOf(r, t, t.insert) > 0
    BY DEF Session
  <2>2. Within(t, Me(r))'
    <3>1. Within(t, Me(r)) => Within(t, Me(r))'
      BY <1>4, <1>5 DEF Me
    <3> QED
      BY <2>1, <3>1
  <2> QED
    BY <1>2, <1>3, <2>1, <2>2
<1> QED
  BY <1>1, <1>6, <1>7 DEF Session, Paying, Touched

\* A step of one request that commits nothing.
LEMMA QuietStep ==
    ASSUME Inv, NEW r \in Requests, pc[r] # "done", NEW p \in Stages, NEW t \in Tx,
           pc' = [pc EXCEPT ![r] = p], tx' = [tx EXCEPT ![r] = t],
           holder' \in [Rows -> Requests \cup {NoRow}],
           \A x \in Rows : holder'[x] \in {holder[x], r, NoRow},
           UNCHANGED <<db, boots>>, Session(r, p, t), Ascending(r, p, t, holder')
    PROVE  Inv'
<1>1. UNCHANGED <<rows, balance, expenses, paidOut, received, boots>>
  BY DEF db
<1>2. TypeOK'
  BY <1>1 DEF Inv, TypeOK
<1>3. ExpensesOK'
  <2>1. ExpenseOf[r] \notin DOMAIN expenses
    BY DEF Inv, ExpensesOK
  <2> QED
    BY <1>1, <2>1 DEF Inv, ExpensesOK, TypeOK
<1>4. NonNegative' /\ BalanceBounds'
  BY <1>1 DEF Inv, NonNegative, BalanceBounds
<1>5. Steady /\ Widened
  BY <1>1 DEF Steady, Widened, Inv, TypeOK
<1>6. SessionsOK'
  <2> SUFFICES ASSUME NEW q \in Requests, NEW s \in Stages, NEW u \in Tx, pc'[q] = s, tx'[q] = u
               PROVE  Session(q, s, u)' /\ Ascending(q, s, u, holder')
    BY DEF SessionsOK, Ascending
  <2>1. Session(q, s, u) /\ Ascending(q, s, u, holder')
    <3>1. CASE q = r
      <4>1. s = p /\ u = t
        BY <3>1 DEF Inv, TypeOK
      <4> QED
        BY <3>1, <4>1
    <3>2. CASE q # r
      <4>1. tx[q] = u /\ pc[q] = s
        BY <3>2 DEF Inv, TypeOK
      <4>2. \A x \in Rows : holder'[x] = q => holder[x] = q
        BY <3>2, FiniteRows
      <4> QED
        BY <4>1, <4>2 DEF Inv, SessionsOK, Ascending
    <3> QED
      BY <3>1, <3>2
  <2> QED
    BY <1>2, <1>5, <2>1, SessionKept DEF Inv
<1> QED
  BY <1>2, <1>3, <1>4, <1>6 DEF Inv

-----------------------------------------------------------------------------
(* Requests come and go *)

LEMMA CleanSession ==
    /\ CleanTx \in Tx
    /\ \A r \in Requests, p \in {"idle", "view", "mine", "commit"} \cup Answered :
           Session(r, p, CleanTx) /\ Session(r, p, CleanTx)'
<1>1. CleanTx \in Tx
  <2>1. [g \in Members |-> 0] \in [Members -> Int]
    OBVIOUS
  <2> QED
    BY <2>1 DEF CleanTx, Tx
<1>2. /\ CleanTx.view = {} /\ CleanTx.pending = {} /\ CleanTx.insert = NoRow
      /\ Touched(CleanTx) = {} /\ CleanTx.moves = [g \in Members |-> 0]
  BY DEF CleanTx, Touched
<1>3. \A g \in Members : CleanTx.moves[g] = 0
  BY <1>2
<1> HIDE DEF CleanTx
<1> QED
  BY <1>1, <1>2, <1>3 DEF Session, Paying, Answered, InFlight

\* Where a request stands.
LEMMA Current ==
    ASSUME Inv, NEW r \in Requests
    PROVE  \E t \in Tx :
               /\ t = tx[r] /\ pc[r] \in Stages /\ Session(r, pc[r], t) /\ Ascending(r, pc[r], t, holder)
               /\ Me(r) \in Members /\ Owed(r) = Debt(r, t) /\ \A c : Part(r, c) = PartOf(r, t, c)
<1>1. tx[r] \in Tx /\ pc[r] \in Stages
  BY DEF Inv, TypeOK
<1> QED
  BY <1>1, RequestsOf DEF Inv, SessionsOK, Owed, Debt, Part, PartOf

LEMMA RollbackStep ==
    ASSUME Inv, NEW r \in Requests, pc[r] \in InFlight, NEW answer \in {"refused", "failed"},
           Rollback(r, answer)
    PROVE  Inv'
<1>1. /\ pc' = [pc EXCEPT ![r] = answer] /\ tx' = [tx EXCEPT ![r] = CleanTx]
      /\ holder' = [x \in Rows |-> IF holder[x] = r THEN NoRow ELSE holder[x]]
      /\ UNCHANGED <<db, boots>>
  BY DEF Rollback, Unlock
<1>2. /\ holder' \in [Rows -> Requests \cup {NoRow}]
      /\ \A x \in Rows : holder'[x] \in {holder[x], r, NoRow} /\ holder'[x] # r
  BY <1>1, FiniteRows DEF Inv, TypeOK
<1>3. answer \in Stages /\ answer \in Answered /\ pc[r] # "done"
  BY DEF Stages, Answered, InFlight
<1>4. Ascending(r, answer, CleanTx, holder')
  BY <1>2 DEF Ascending
<1> QED
  BY <1>1, <1>2, <1>3, <1>4, CleanSession, QuietStep

LEMMA AddExpenseStep == ASSUME Inv, NEW r \in Requests, AddExpense(r) PROVE Inv'
<1>1. PICK t \in Tx : /\ t = tx[r] /\ Session(r, pc[r], t) /\ Ascending(r, pc[r], t, holder)
  BY Current
<1>2. pc[r] = "idle" /\ t = CleanTx /\ \A x \in Rows : holder[x] # r
  BY <1>1 DEF AddExpense, MaySend, Session, Ascending, CleanTx, InFlight
<1>3. PICK n \in Amounts : tx' = [tx EXCEPT ![r].cost = n]
  BY DEF AddExpense
<1> DEFINE u == [CleanTx EXCEPT !.cost = n]
<1>4. /\ pc' = [pc EXCEPT ![r] = "commit"] /\ tx' = [tx EXCEPT ![r] = u]
      /\ UNCHANGED <<db, holder, boots>>
  BY <1>1, <1>2, <1>3 DEF AddExpense
<1>5. /\ u \in Tx /\ u.view = {} /\ u.pending = {} /\ u.insert = NoRow
      /\ Touched(u) = {} /\ \A g \in Members : u.moves[g] = 0
  <2>1. n \in Nat
    BY RequestsOf
  <2>2. u \in Tx
    BY <2>1, CleanSession DEF Tx
  <2>3. /\ u.view = {} /\ u.pending = {} /\ u.insert = NoRow
        /\ u.dirty = {} /\ u.written = {} /\ u.opened = {} /\ u.moves = [g \in Members |-> 0]
    BY DEF CleanTx
  <2> HIDE DEF u
  <2> QED
    BY <2>2, <2>3 DEF Touched
<1> HIDE DEF u
<1>6. Session(r, "commit", u)
  BY <1>5 DEF Session, Paying, InFlight
<1>7. Ascending(r, "commit", u, holder')
  BY <1>2, <1>4 DEF Ascending
<1>8. "commit" \in Stages /\ holder' \in [Rows -> Requests \cup {NoRow}]
  BY <1>4 DEF Stages, InFlight, Inv, TypeOK
<1> QED
  BY <1>2, <1>4, <1>5, <1>6, <1>7, <1>8, QuietStep

LEMMA ReceiveSettleStep == ASSUME Inv, NEW r \in Requests, ReceiveSettle(r) PROVE Inv'
<1>1. PICK t \in Tx : /\ t = tx[r] /\ Session(r, pc[r], t) /\ Ascending(r, pc[r], t, holder)
  BY Current
<1>2. pc[r] = "idle" /\ t = CleanTx /\ \A x \in Rows : holder[x] # r
  BY <1>1 DEF ReceiveSettle, MaySend, Session, Ascending, CleanTx, InFlight
<1>3. /\ pc' = [pc EXCEPT ![r] = "view"] /\ tx' = [tx EXCEPT ![r] = CleanTx]
      /\ UNCHANGED <<db, holder, boots>>
  BY <1>1, <1>2 DEF ReceiveSettle, Inv, TypeOK
<1>4. Ascending(r, "view", CleanTx, holder')
  BY <1>2, <1>3 DEF Ascending
<1>5. "view" \in Stages /\ holder' \in [Rows -> Requests \cup {NoRow}]
  BY <1>3 DEF Stages, InFlight, Inv, TypeOK
<1> QED
  BY <1>2, <1>3, <1>4, <1>5, CleanSession, QuietStep

LEMMA ViewStep == ASSUME Inv, NEW r \in Requests, View(r) PROVE Inv'
<1>1. PICK t \in Tx : /\ t = tx[r] /\ Session(r, pc[r], t) /\ Ascending(r, pc[r], t, holder)
  BY Current
<1>2. pc[r] = "view" /\ t = CleanTx /\ \A x \in Rows : holder[x] # r
  BY <1>1 DEF View, Session, Ascending, CleanTx
<1> DEFINE u == [CleanTx EXCEPT !.view = Open]
<1>3. /\ pc' = [pc EXCEPT ![r] = "mine"] /\ tx' = [tx EXCEPT ![r] = u]
      /\ UNCHANGED <<db, holder, boots>>
  BY <1>1, <1>2 DEF View
<1>4. Open \subseteq DOMAIN expenses /\ Open \subseteq ExpenseIds
  BY DEF Open, Inv, TypeOK
<1>5. /\ u \in Tx /\ u.view = Open /\ u.pending = {} /\ u.insert = NoRow
      /\ Touched(u) = {} /\ \A g \in Members : u.moves[g] = 0
  <2>1. u \in Tx
    BY <1>4, CleanSession DEF Tx
  <2>2. /\ u.view = Open /\ u.pending = {} /\ u.insert = NoRow
        /\ u.dirty = {} /\ u.written = {} /\ u.opened = {} /\ u.moves = [g \in Members |-> 0]
    BY DEF CleanTx
  <2> HIDE DEF u
  <2> QED
    BY <2>1, <2>2 DEF Touched
<1> HIDE DEF u
<1>6. Session(r, "mine", u)
  BY <1>4, <1>5 DEF Session, Paying, InFlight
<1>7. Ascending(r, "mine", u, holder')
  BY <1>2, <1>3 DEF Ascending
<1>8. "mine" \in Stages /\ holder' \in [Rows -> Requests \cup {NoRow}]
  BY <1>3 DEF Stages, InFlight, Inv, TypeOK
<1> QED
  BY <1>2, <1>3, <1>5, <1>6, <1>7, <1>8, QuietStep

-----------------------------------------------------------------------------
(* A settlement *)

\* The caller's budget is read, or opened.
LEMMA MineStep ==
    ASSUME Inv, NEW r \in Requests, pc[r] = "mine" \/ (pc[r] = "open" /\ tx[r].insert = Me(r)),
           NEW mine \in Nat, NEW opened, opened \subseteq {Me(r)}, opened = {} => pc[r] = "mine",
           InitialBudget - paidOut[Me(r)] <= mine, mine <= InitialBudget + received[Me(r)],
           Mine(r, mine, opened)
    PROVE  Inv'
<1>1. PICK t \in Tx : /\ t = tx[r] /\ Session(r, pc[r], t) /\ Ascending(r, pc[r], t, holder)
                      /\ Me(r) \in Members /\ Owed(r) = Debt(r, t)
  BY Current
<1>2. /\ Touched(t) = {} /\ t.pending = {} /\ \A g \in Members : t.moves[g] = 0
      /\ t.view \subseteq DOMAIN expenses
  BY <1>1 DEF Session
<1>3. Debt(r, t) \in Int /\ Creditors(t.view) \subseteq Members
  <2>1. Debt(r, t) \in Int
    BY <1>2, DebtType DEF Inv
  <2>2. Creditors(t.view) \subseteq Members
    BY DEF Creditors
  <2> QED
    BY <2>1, <2>2
<1>4. pc[r] \in InFlight /\ pc[r] # "done"
  BY DEF InFlight
<1> DEFINE next == Decide(r, mine)
           copy == [t.copy EXCEPT ![Me(r)] = mine]
           u == [t EXCEPT !.copy = copy, !.todo = Creditors(t.view), !.left = Debt(r, t),
                          !.opened = t.opened \cup opened, !.insert = NoRow]
<1>5. CASE next = "refused"
  <2>1. Rollback(r, "refused")
    BY <1>5 DEF Mine
  <2> QED
    BY <1>4, <2>1, RollbackStep
<1>6. CASE next # "refused"
  <2>1. /\ next \in {"commit", "pay"}
        /\ next = "pay" => 0 < Debt(r, t) /\ Debt(r, t) <= mine
    BY <1>1, <1>3, <1>6 DEF Decide
  <2>2. /\ pc' = [pc EXCEPT ![r] = next] /\ tx' = [tx EXCEPT ![r] = u]
        /\ holder' = (IF opened = {} THEN holder ELSE [holder EXCEPT ![Me(r)] = r])
        /\ UNCHANGED <<db, boots>>
    <3>1. /\ pc' = [pc EXCEPT ![r] = next]
          /\ IF opened = {} THEN UNCHANGED holder ELSE holder' = [holder EXCEPT ![Me(r)] = r]
          /\ UNCHANGED <<db, boots>>
      BY <1>6 DEF Mine
    <3>2. tx' = [tx EXCEPT ![r].copy[Me(r)] = mine, ![r].todo = Creditors(tx[r].view),
                           ![r].left = Owed(r), ![r].opened = @ \cup opened, ![r].insert = NoRow]
      BY <1>6 DEF Mine
    <3>3. tx' = [tx EXCEPT ![r] = u]
      BY <1>1, <3>2
    <3> QED
      BY <3>1, <3>3
  <2>3. copy \in [Members -> Int] /\ copy[Me(r)] = mine /\ opened \subseteq Members
    BY <1>1 DEF Tx
  <2> HIDE DEF next, copy
  <2>4. u \in Tx
    BY <1>3, <2>3 DEF Tx
  <2>5. /\ u.copy = copy /\ u.moves = t.moves /\ u.view = t.view /\ u.todo = Creditors(t.view)
        /\ u.insert = NoRow /\ u.pending = t.pending /\ u.dirty = t.dirty
        /\ u.written = t.written /\ u.opened = t.opened \cup opened
    BY DEF Tx
  <2> HIDE DEF u
  <2>6. /\ Debt(r, u) = Debt(r, t) /\ Touched(u) = opened /\ u.opened = opened
    BY <1>2, <2>5 DEF Debt, Touched
  <2>7. u.moves[Me(r)] = 0 /\ u.copy[Me(r)] = mine /\ Within(u, Me(r))
    <3>1. u.moves[Me(r)] = 0 /\ u.copy[Me(r)] = mine /\ mine - 0 = mine
      BY <1>1, <1>2, <2>3, <2>5
    <3> QED
      BY <3>1 DEF Within
  <2>8. Session(r, next, u)
    BY <1>1, <1>2, <1>3, <2>1, <2>5, <2>6, <2>7 DEF Session, Paying, InFlight
  <2>9. Ascending(r, next, u, holder')
    <3>1. CASE opened = {}
      <4>1. pc[r] = "mine" /\ holder' = holder
        BY <2>2, <3>1
      <4>2. t.insert = NoRow
        BY <1>1, <4>1 DEF Session
      <4>3. t.opened = {}
        BY <1>2 DEF Touched
      <4>4. \A x \in Rows : holder[x] # r
        BY <1>1, <4>1, <4>2, <4>3 DEF Ascending
      <4> QED
        BY <4>1, <4>4 DEF Ascending
    <3>2. CASE opened # {}
      BY <2>6, <3>2 DEF Ascending
    <3> QED
      BY <3>1, <3>2
  <2>10. /\ next \in Stages /\ holder' \in [Rows -> Requests \cup {NoRow}]
         /\ \A x \in Rows : holder'[x] \in {holder[x], r, NoRow}
    BY <1>1, <2>1, <2>2 DEF Stages, InFlight, Inv, TypeOK, Rows
  <2> QED
    BY <1>4, <2>2, <2>4, <2>8, <2>9, <2>10, QuietStep
<1> QED
  BY <1>5, <1>6

\* A committed row is what a copy may be.
LEMMA RowsWithin ==
    ASSUME Inv, NEW g \in rows
    PROVE  /\ g \in Members /\ balance[g] \in Nat
           /\ InitialBudget - paidOut[g] <= balance[g] /\ balance[g] <= InitialBudget + received[g]
BY DEF Inv, TypeOK, NonNegative, BalanceBounds

\* And so is a budget that is opened.
LEMMA OpeningWithin ==
    ASSUME Inv, NEW g \in Members
    PROVE  /\ InitialBudget \in Nat
           /\ InitialBudget - paidOut[g] <= InitialBudget
           /\ InitialBudget <= InitialBudget + received[g]
<1>1. paidOut[g] \in Nat /\ received[g] \in Nat /\ InitialBudget \in Nat
  BY RequestsOf DEF Inv, TypeOK
<1> QED
  BY <1>1

LEMMA EnsureMineStep == ASSUME Inv, NEW r \in Requests, EnsureMine(r) PROVE Inv'
<1>1. PICK t \in Tx : /\ t = tx[r] /\ Session(r, pc[r], t) /\ Ascending(r, pc[r], t, holder)
                      /\ Me(r) \in Members
  BY Current
<1>2. pc[r] = "mine"
  BY DEF EnsureMine
<1>3. CASE Me(r) \in rows /\ Mine(r, balance[Me(r)], {})
  BY <1>2, <1>3, RowsWithin, MineStep
<1>4. CASE ~(Me(r) \in rows /\ Mine(r, balance[Me(r)], {}))
  <2> DEFINE u == [t EXCEPT !.insert = Me(r)]
  <2>1. /\ pc' = [pc EXCEPT ![r] = "open"] /\ tx' = [tx EXCEPT ![r] = u]
        /\ UNCHANGED <<db, holder, boots>>
    BY <1>1, <1>4 DEF EnsureMine
  <2>2. /\ Touched(t) = {} /\ t.pending = {} /\ \A g \in Members : t.moves[g] = 0
        /\ t.view \subseteq DOMAIN expenses
    BY <1>1, <1>2 DEF Session
  <2>3. /\ u \in Tx /\ u.view = t.view /\ u.pending = t.pending /\ u.moves = t.moves
        /\ u.dirty = t.dirty /\ u.written = t.written /\ u.opened = t.opened /\ u.insert = Me(r)
    BY <1>1 DEF Tx
  <2> HIDE DEF u
  <2>4. Touched(u) = {} /\ u.insert # NoRow
    BY <1>1, <2>2, <2>3, FiniteRows DEF Touched
  <2>5. Session(r, "open", u)
    BY <1>1, <2>2, <2>3, <2>4 DEF Session, Paying, InFlight
  <2>6. Ascending(r, "open", u, holder')
    BY <2>4 DEF Ascending
  <2>7. "open" \in Stages /\ holder' \in [Rows -> Requests \cup {NoRow}]
    BY <2>1 DEF Stages, InFlight, Inv, TypeOK
  <2> QED
    BY <1>2, <2>1, <2>3, <2>5, <2>6, <2>7, QuietStep
<1> QED
  BY <1>3, <1>4

\* Transaction u is t once creditor c, whose balance was theirs, got n.
Credited(t, u, c, theirs, n, opened) ==
    /\ u.view = t.view /\ u.todo = t.todo \ {c} /\ u.pending = t.pending /\ u.insert = NoRow
    /\ u.copy[c] = theirs + n /\ u.moves[c] = t.moves[c] + n
    /\ \A g \in Members \ {c} : u.copy[g] = t.copy[g] /\ u.moves[g] = t.moves[g]
    /\ u.dirty = t.dirty \cup {c} /\ u.written = t.written /\ u.opened = t.opened \cup opened

\* A creditor is credited a part, on a copy of its budget or on one that it opens.
LEMMA CreditStep ==
    ASSUME Inv, NEW r \in Requests, NEW t \in Tx, t = tx[r], Session(r, pc[r], t),
           Ascending(r, pc[r], t, holder), Paying(r, pc[r], t),
           NEW c \in t.todo, NEW n \in Nat, NEW theirs \in Nat, NEW opened, opened \subseteq {c},
           opened = {} => pc[r] = "pay",
           InitialBudget - paidOut[c] <= theirs, theirs <= InitialBudget + received[c],
           pc' = [pc EXCEPT ![r] = "pay"],
           NEW u \in Tx, Credited(t, u, c, theirs, n, opened), tx' = [tx EXCEPT ![r] = u],
           holder' \in [Rows -> Requests \cup {NoRow}],
           \A x \in Rows : holder'[x] = holder[x] \/ (opened # {} /\ holder'[x] = r),
           UNCHANGED <<db, boots>>
    PROVE  Inv'
<1>1. /\ t.view \subseteq DOMAIN expenses /\ t.pending \cap Members \subseteq t.dirty
      /\ 0 < Debt(r, t) /\ Debt(r, t) <= t.copy[Me(r)] /\ Within(t, Me(r))
      /\ \A g \in t.todo \cup {Me(r)} : t.moves[g] = 0
      /\ t.todo \subseteq Creditors(t.view)
      /\ \A g \in Members : IF g = Me(r) THEN t.moves[g] <= 0 ELSE t.moves[g] >= 0
      /\ \A g \in Touched(t) : t.copy[g] >= 0 /\ Within(t, g)
  BY DEF Session
<1>2. /\ c \in Members /\ Me(r) \in Members /\ c # Me(r) /\ t.moves[c] = 0
      /\ opened \subseteq Members
  <2>1. Net(c, t.view) > 0 /\ c \in Members
    BY <1>1 DEF Creditors
  <2>2. ~(Net(Me(r), t.view) > 0)
    BY <1>1, NetType DEF Debt, Inv
  <2> QED
    BY <1>1, <2>1, <2>2, RequestsOf
<1>3. /\ u.copy[c] = theirs + n /\ u.moves[c] = n
      /\ \A g \in Members \ {c} : u.copy[g] = t.copy[g] /\ u.moves[g] = t.moves[g]
      /\ u.view = t.view /\ u.todo = t.todo \ {c} /\ u.pending = t.pending /\ u.insert = NoRow
      /\ u.dirty = t.dirty \cup {c} /\ u.written = t.written /\ u.opened = t.opened \cup opened
  BY <1>2 DEF Credited
<1>7. Debt(r, u) = Debt(r, t) /\ Touched(u) = Touched(t) \cup {c}
  BY <1>3 DEF Debt, Touched
<1>8. u.copy[c] >= 0 /\ Within(u, c)
  <2>1. /\ u.copy[c] = theirs + n /\ u.moves[c] = n /\ theirs + n - n = theirs /\ theirs + n >= 0
    BY <1>3
  <2> QED
    BY <2>1 DEF Within
<1>9. \A g \in Members \ {c} : u.copy[g] = t.copy[g] /\ (Within(t, g) => Within(u, g))
  BY <1>3 DEF Within
<1>10. Touched(t) \subseteq Members
  BY DEF Touched, Tx
<1>11. Session(r, "pay", u)
  <2>1. \A g \in Touched(u) : u.copy[g] >= 0 /\ Within(u, g)
    BY <1>1, <1>7, <1>8, <1>9, <1>10
  <2>2. \A g \in Members : IF g = Me(r) THEN u.moves[g] <= 0 ELSE u.moves[g] >= 0
    BY <1>1, <1>2, <1>3
  <2>3. /\ 0 < Debt(r, u) /\ Debt(r, u) <= u.copy[Me(r)] /\ Within(u, Me(r))
        /\ u.todo \subseteq Creditors(u.view)
    BY <1>1, <1>2, <1>3, <1>7, <1>9
  <2>4. \A g \in u.todo \cup {Me(r)} : u.moves[g] = 0
    <3>1. t.todo \subseteq Members
      BY DEF Tx
    <3> QED
      BY <1>1, <1>2, <1>3, <3>1
  <2> QED
    BY <1>1, <1>3, <2>1, <2>2, <2>3, <2>4 DEF Session, InFlight
<1>12. Ascending(r, "pay", u, holder')
  <2>1. CASE opened = {}
    <3>1. t.insert = NoRow
      BY <2>1 DEF Session
    <3>2. \A x \in Rows : holder'[x] = holder[x]
      BY <2>1
    <3>3. u.opened = t.opened /\ u.pending = t.pending
      BY <1>3, <2>1
    <3>4. t.opened = {} => \A x \in Rows : holder[x] # r
      BY <2>1, <3>1 DEF Ascending
    <3> QED
      BY <3>2, <3>3, <3>4 DEF Ascending
  <2>2. CASE opened # {}
    BY <1>3, <2>2 DEF Ascending
  <2> QED
    BY <2>1, <2>2
<1>13. /\ "pay" \in Stages /\ pc[r] # "done"
       /\ \A x \in Rows : holder'[x] \in {holder[x], r, NoRow}
  BY DEF Paying, Stages, InFlight
<1> QED
  BY <1>11, <1>12, <1>13, QuietStep

LEMMA PayCreditorStep == ASSUME Inv, NEW r \in Requests, PayCreditor(r) PROVE Inv'
<1>1. PICK t \in Tx : /\ t = tx[r] /\ Session(r, pc[r], t) /\ Ascending(r, pc[r], t, holder)
                      /\ Me(r) \in Members /\ \A c : Part(r, c) = PartOf(r, t, c)
  BY Current
<1>2. /\ pc[r] = "pay" /\ Paying(r, "pay", t) /\ t.insert = NoRow
      /\ UNCHANGED <<db, holder, boots>>
      /\ holder' \in [Rows -> Requests \cup {NoRow}]
  BY <1>1 DEF PayCreditor, Paying, Session, Inv, TypeOK
<1>3. PICK c \in t.todo :
         LET n == PartOf(r, t, c) IN
         \/ n <= 0 /\ tx' = [tx EXCEPT ![r].todo = @ \ {c}] /\ pc' = pc
         \/ n > 0 /\ c \in rows /\ tx' = [tx EXCEPT ![r] = Credit(r, c, balance[c], n)] /\ pc' = pc
         \/ /\ n > 0 /\ c \notin rows
            /\ tx' = [tx EXCEPT ![r].insert = c, ![r].pending = t.dirty]
            /\ pc' = [pc EXCEPT ![r] = "open"]
  BY <1>1 DEF PayCreditor
<1> DEFINE n == PartOf(r, t, c)
<1>4. /\ t.view \subseteq DOMAIN expenses /\ t.todo \subseteq Creditors(t.view)
      /\ c \in Members /\ t.todo \subseteq Members /\ t.dirty \subseteq Members
  BY <1>1, <1>2 DEF Session, Tx
<1>5. n \in Int
  BY <1>4, PartType DEF Inv
<1> HIDE DEF n
<1>6. CASE n <= 0 /\ tx' = [tx EXCEPT ![r].todo = @ \ {c}] /\ pc' = pc
  <2> DEFINE u == [t EXCEPT !.todo = t.todo \ {c}]
  <2>1. pc' = [pc EXCEPT ![r] = "pay"] /\ tx' = [tx EXCEPT ![r] = u]
    BY <1>1, <1>2, <1>6 DEF Inv, TypeOK
  <2>2. /\ u \in Tx /\ u.view = t.view /\ u.pending = t.pending /\ u.moves = t.moves /\ u.copy = t.copy
        /\ u.dirty = t.dirty /\ u.written = t.written /\ u.opened = t.opened /\ u.insert = t.insert
        /\ u.todo = t.todo \ {c}
    BY <1>4 DEF Tx
  <2> HIDE DEF u
  <2>3. Debt(r, u) = Debt(r, t) /\ Touched(u) = Touched(t) /\ \A g : Within(t, g) => Within(u, g)
    BY <2>2 DEF Debt, Touched, Within
  <2>4. Session(r, "pay", u)
    BY <1>1, <1>2, <2>2, <2>3 DEF Session, Paying, InFlight
  <2>5. Ascending(r, "pay", u, holder')
    BY <1>1, <1>2, <2>2 DEF Ascending
  <2>6. "pay" \in Stages
    BY DEF Stages, InFlight
  <2> QED
    BY <1>2, <2>1, <2>2, <2>4, <2>5, <2>6, QuietStep
<1>7. CASE n > 0 /\ c \in rows /\ tx' = [tx EXCEPT ![r] = Credit(r, c, balance[c], n)] /\ pc' = pc
  <2>1. n \in Nat
    BY <1>5, <1>7
  <2>2. pc' = [pc EXCEPT ![r] = "pay"]
    BY <1>2, <1>7 DEF Inv, TypeOK
  <2> DEFINE copy == [t.copy EXCEPT ![c] = balance[c] + n]
             moves == [t.moves EXCEPT ![c] = t.moves[c] + n]
             left == t.left - n
             u == [t EXCEPT !.todo = t.todo \ {c}, !.left = left, !.copy = copy,
                            !.moves = moves, !.dirty = t.dirty \cup {c}]
  <2>3. tx' = [tx EXCEPT ![r] = u]
    BY <1>1, <1>7 DEF Credit
  <2>4. balance[c] \in Nat /\ InitialBudget - paidOut[c] <= balance[c]
        /\ balance[c] <= InitialBudget + received[c]
    BY <1>7, RowsWithin
  <2>5. copy \in [Members -> Int] /\ moves \in [Members -> Int] /\ left \in Int
    BY <2>1, <2>4 DEF Tx
  <2> HIDE DEF copy, moves, left
  <2>6. u \in Tx
    BY <1>4, <1>5, <2>5 DEF Tx
  <2>7. Credited(t, u, c, balance[c], n, {})
    <3>1. /\ u.view = t.view /\ u.todo = t.todo \ {c} /\ u.copy = copy /\ u.moves = moves
          /\ u.dirty = t.dirty \cup {c} /\ u.written = t.written /\ u.opened = t.opened
          /\ u.pending = t.pending /\ u.insert = NoRow
      BY <1>2 DEF Tx
    <3>2. /\ copy[c] = balance[c] + n /\ moves[c] = t.moves[c] + n
          /\ \A g \in Members \ {c} : copy[g] = t.copy[g] /\ moves[g] = t.moves[g]
      BY <1>4 DEF Tx, copy, moves
    <3> HIDE DEF u
    <3> QED
      BY <3>1, <3>2 DEF Credited
  <2> HIDE DEF u
  <2>8. \A x \in Rows : holder'[x] = holder[x]
    BY <1>2
  <2>9. UNCHANGED <<db, boots>> /\ Paying(r, pc[r], t) /\ pc[r] = "pay"
    BY <1>2
  <2>10. t = tx[r] /\ Session(r, pc[r], t) /\ Ascending(r, pc[r], t, holder)
    BY <1>1
  <2> QED
    BY <1>2, <2>1, <2>2, <2>3, <2>4, <2>6, <2>7, <2>8, <2>9, <2>10, CreditStep
<1>8. CASE /\ n > 0 /\ c \notin rows
           /\ tx' = [tx EXCEPT ![r].insert = c, ![r].pending = t.dirty]
           /\ pc' = [pc EXCEPT ![r] = "open"]
  <2> DEFINE u == [t EXCEPT !.insert = c, !.pending = t.dirty]
  <2>1. tx' = [tx EXCEPT ![r] = u]
    BY <1>1, <1>8
  <2>2. /\ u \in Tx /\ u.view = t.view /\ u.pending = t.dirty /\ u.moves = t.moves /\ u.copy = t.copy
        /\ u.dirty = t.dirty /\ u.written = t.written /\ u.opened = t.opened /\ u.insert = c
        /\ u.todo = t.todo /\ u.left = t.left
    BY <1>4 DEF Tx, Rows
  <2> HIDE DEF u
  <2>3. /\ Debt(r, u) = Debt(r, t) /\ Touched(u) = Touched(t) /\ \A g : Within(t, g) => Within(u, g)
        /\ PartOf(r, u, c) = n
    BY <2>2 DEF Debt, Touched, Within, PartOf, n
  <2>4. c # NoRow /\ c # Me(r)
    <3>1. Net(c, t.view) > 0 /\ 0 < Debt(r, t)
      BY <1>1, <1>2, <1>4 DEF Creditors, Session
    <3>2. Net(Me(r), t.view) \in Int
      BY <1>4, NetType DEF Inv
    <3> QED
      BY <1>4, <3>1, <3>2, FiniteRows DEF Debt
  <2>5. Session(r, "open", u)
    BY <1>1, <1>2, <1>8, <2>2, <2>3, <2>4 DEF Session, Paying, InFlight
  <2>6. Ascending(r, "open", u, holder')
    BY <2>2, <2>4 DEF Ascending
  <2>7. "open" \in Stages
    BY DEF Stages, InFlight
  <2> QED
    BY <1>2, <1>8, <2>1, <2>2, <2>5, <2>6, <2>7, QuietStep
<1> QED
  BY <1>3, <1>6, <1>7, <1>8 DEF n

\* The INSERT of a budget row, whose key nobody else has locked.
LEMMA OpenBudgetStep == ASSUME Inv, NEW r \in Requests, OpenBudget(r) PROVE Inv'
<1>1. PICK t \in Tx : /\ t = tx[r] /\ Session(r, pc[r], t) /\ Ascending(r, pc[r], t, holder)
                      /\ Me(r) \in Members /\ \A c : Part(r, c) = PartOf(r, t, c)
  BY Current
<1>2. pc[r] = "open" /\ t.pending = {} /\ t.insert # NoRow /\ t.insert \in Members
  <2>1. pc[r] = "open" /\ t.pending = {}
    BY <1>1 DEF OpenBudget
  <2>2. t.insert # NoRow
    BY <1>1, <2>1 DEF Session
  <2> QED
    BY <2>1, <2>2 DEF Tx
<1> DEFINE g == t.insert
<1>3. CASE g \in rows
  <2>1. Rollback(r, "failed")
    BY <1>1, <1>3 DEF OpenBudget
  <2>2. pc[r] \in InFlight
    BY <1>2 DEF InFlight
  <2> QED
    BY <2>1, <2>2, RollbackStep
<1>4. CASE g \notin rows /\ g = Me(r)
  <2>1. Mine(r, InitialBudget, {Me(r)})
    BY <1>1, <1>4 DEF OpenBudget
  <2>2. pc[r] = "open" /\ tx[r].insert = Me(r)
    BY <1>1, <1>2, <1>4
  <2>3. /\ InitialBudget \in Nat /\ InitialBudget - paidOut[Me(r)] <= InitialBudget
        /\ InitialBudget <= InitialBudget + received[Me(r)]
    BY <1>1, OpeningWithin
  <2>4. {Me(r)} \subseteq {Me(r)} /\ {Me(r)} # {}
    OBVIOUS
  <2> QED
    BY <2>1, <2>2, <2>3, <2>4, MineStep
<1>5. CASE g \notin rows /\ g # Me(r)
  <2> DEFINE n == PartOf(r, t, g)
  <2>1. /\ tx' = [tx EXCEPT ![r] = [Credit(r, g, InitialBudget, n) EXCEPT
                                       !.opened = @ \cup {g}, !.insert = NoRow]]
        /\ pc' = [pc EXCEPT ![r] = "pay"] /\ holder' = [holder EXCEPT ![g] = r]
        /\ UNCHANGED <<db, boots>>
    BY <1>1, <1>5 DEF OpenBudget
  <2>2. Paying(r, pc[r], t)
    BY <1>2, <1>5 DEF Paying
  <2>3. /\ t.view \subseteq DOMAIN expenses /\ t.todo \subseteq Creditors(t.view)
        /\ g \in t.todo /\ n > 0
    BY <1>1, <1>2, <2>2 DEF Session
  <2>4. n \in Nat
    <3>1. n \in Int
      BY <2>3, PartType DEF Inv
    <3> QED
      BY <2>3, <3>1
  <2> HIDE DEF n
  <2> DEFINE copy == [t.copy EXCEPT ![g] = InitialBudget + n]
             moves == [t.moves EXCEPT ![g] = t.moves[g] + n]
             left == t.left - n
             u == [t EXCEPT !.todo = t.todo \ {g}, !.left = left, !.copy = copy,
                            !.moves = moves, !.dirty = t.dirty \cup {g},
                            !.opened = t.opened \cup {g}, !.insert = NoRow]
  <2>5. tx' = [tx EXCEPT ![r] = u]
    BY <1>1, <2>1 DEF Credit
  <2>6. /\ InitialBudget \in Nat /\ InitialBudget - paidOut[g] <= InitialBudget
        /\ InitialBudget <= InitialBudget + received[g]
    BY <1>2, OpeningWithin
  <2>7. copy \in [Members -> Int] /\ moves \in [Members -> Int] /\ left \in Int
    <3>1. InitialBudget + n \in Int /\ t.moves[g] + n \in Int /\ t.left - n \in Int
      BY <1>2, <2>4, <2>6 DEF Tx
    <3>2. t.copy \in [Members -> Int] /\ t.moves \in [Members -> Int]
      BY DEF Tx
    <3> QED
      BY <3>1, <3>2
  <2>8. /\ copy[g] = InitialBudget + n /\ moves[g] = t.moves[g] + n
        /\ \A c \in Members \ {g} : copy[c] = t.copy[c] /\ moves[c] = t.moves[c]
    BY <1>2 DEF Tx
  <2> HIDE DEF copy, moves, left
  <2>9. u \in Tx
    BY <1>2, <2>7 DEF Tx
  <2>10. /\ u.view = t.view /\ u.todo = t.todo \ {g} /\ u.copy = copy /\ u.moves = moves
         /\ u.dirty = t.dirty \cup {g} /\ u.written = t.written /\ u.opened = t.opened \cup {g}
         /\ u.pending = t.pending /\ u.insert = NoRow
    BY DEF Tx
  <2> HIDE DEF u
  <2>11. Credited(t, u, g, InitialBudget, n, {g})
    BY <2>8, <2>10 DEF Credited
  <2>12. /\ holder' \in [Rows -> Requests \cup {NoRow}]
         /\ \A x \in Rows : holder'[x] = holder[x] \/ ({g} # {} /\ holder'[x] = r)
    BY <1>2, <2>1 DEF Inv, TypeOK, Rows
  <2>13. t = tx[r] /\ Session(r, pc[r], t) /\ Ascending(r, pc[r], t, holder)
    BY <1>1
  <2>14. {g} \subseteq {g} /\ {g} # {}
    OBVIOUS
  <2>15. pc' = [pc EXCEPT ![r] = "pay"] /\ UNCHANGED <<db, boots>>
    BY <2>1
  <2> QED
    BY <2>2, <2>3, <2>4, <2>5, <2>6, <2>9, <2>11, <2>12, <2>13, <2>14, <2>15, CreditStep
<1> QED
  BY <1>3, <1>4, <1>5

\* The debtor pays on its copy, which covers the debt.
LEMMA MarkStep == ASSUME Inv, NEW r \in Requests, Mark(r) PROVE Inv'
<1>1. PICK t \in Tx : /\ t = tx[r] /\ Session(r, pc[r], t) /\ Ascending(r, pc[r], t, holder)
                      /\ Me(r) \in Members /\ Owed(r) = Debt(r, t)
  BY Current
<1>2. pc[r] = "pay" /\ Paying(r, pc[r], t)
  BY DEF Mark, Paying
<1>3. /\ t.view \subseteq DOMAIN expenses /\ t.insert = NoRow
      /\ \A g \in Members : IF g = Me(r) THEN t.moves[g] <= 0 ELSE t.moves[g] >= 0
      /\ 0 < Debt(r, t) /\ Debt(r, t) <= t.copy[Me(r)]
      /\ t.moves[Me(r)] = 0 /\ Within(t, Me(r))
      /\ \A g \in Touched(t) : t.copy[g] >= 0 /\ Within(t, g)
  BY <1>1, <1>2 DEF Session
<1>4. Debt(r, t) \in Int /\ t.copy[Me(r)] \in Int
  <2>1. Debt(r, t) \in Int
    BY <1>3, DebtType DEF Inv
  <2> QED
    BY <1>1, <2>1 DEF Tx
<1> DEFINE debt == Debt(r, t)
<1> HIDE DEF debt
<1> DEFINE less == t.copy[Me(r)] - debt
           moved == t.moves[Me(r)] - debt
           copy == [t.copy EXCEPT ![Me(r)] = less]
           moves == [t.moves EXCEPT ![Me(r)] = moved]
           lock == Open \cup t.dirty \cup {Me(r)}
           u == [t EXCEPT !.marks = Open, !.copy = copy, !.moves = moves,
                          !.dirty = t.dirty \cup {Me(r)}, !.pending = lock]
<1>5. /\ tx' = [tx EXCEPT ![r] = u] /\ pc' = [pc EXCEPT ![r] = "flush"]
      /\ UNCHANGED <<db, holder, boots>>
  <2>1. /\ tx' = [tx EXCEPT ![r] = [tx[r] EXCEPT !.marks = Open,
                                                 !.copy[Me(r)] = @ - Owed(r),
                                                 !.moves[Me(r)] = @ - Owed(r),
                                                 !.dirty = @ \cup {Me(r)},
                                                 !.pending = Open \cup tx[r].dirty \cup {Me(r)}]]
        /\ pc' = [pc EXCEPT ![r] = "flush"] /\ UNCHANGED <<db, holder, boots>>
    BY DEF Mark
  <2>2. tx[r] = t /\ Owed(r) = debt
    BY <1>1 DEF debt
  <2>3. tx' = [tx EXCEPT ![r] = [t EXCEPT !.marks = Open,
                                         !.copy[Me(r)] = less,
                                         !.moves[Me(r)] = moved,
                                         !.dirty = t.dirty \cup {Me(r)},
                                         !.pending = lock]]
    BY <2>1, <2>2
  <2> HIDE DEF less, moved, lock
  <2> QED
    BY <2>1, <2>3 DEF Tx
<1>6. Open \subseteq ExpenseIds /\ lock \subseteq Rows /\ lock \cap Members \subseteq t.dirty \cup {Me(r)}
  <2>1. Open \subseteq ExpenseIds
    BY DEF Open, Inv, TypeOK
  <2>2. t.dirty \subseteq Members
    BY DEF Tx
  <2> QED
    BY <1>1, <2>1, <2>2, FiniteRows DEF Rows
<1>7. /\ less \in Int /\ less >= 0 /\ moved \in Int /\ moved <= 0
      /\ less - moved = t.copy[Me(r)] - t.moves[Me(r)]
  BY <1>3, <1>4 DEF debt
<1> HIDE DEF less, moved
<1>8. /\ copy \in [Members -> Int] /\ moves \in [Members -> Int]
      /\ copy[Me(r)] = less /\ moves[Me(r)] = moved
      /\ \A g \in Members \ {Me(r)} : copy[g] = t.copy[g] /\ moves[g] = t.moves[g]
  BY <1>1, <1>7 DEF Tx
<1> HIDE DEF copy, moves, lock
<1>9. u \in Tx
  BY <1>1, <1>6, <1>8 DEF Tx
<1>10. /\ u.view = t.view /\ u.copy = copy /\ u.moves = moves /\ u.dirty = t.dirty \cup {Me(r)}
       /\ u.written = t.written /\ u.opened = t.opened /\ u.insert = t.insert /\ u.pending = lock
  BY DEF Tx
<1> HIDE DEF u
<1>11. Touched(u) = Touched(t) \cup {Me(r)} /\ Touched(t) \subseteq Members
  BY <1>10 DEF Touched, Tx
<1>12. Within(u, Me(r))
  BY <1>3, <1>7, <1>8, <1>10 DEF Within
<1>13. \A g \in Members \ {Me(r)} : Within(t, g) => Within(u, g)
  BY <1>8, <1>10 DEF Within
<1>14. \A g \in Touched(u) : u.copy[g] >= 0 /\ Within(u, g)
  <2> SUFFICES ASSUME NEW g \in Touched(u) PROVE u.copy[g] >= 0 /\ Within(u, g)
    OBVIOUS
  <2>1. CASE g = Me(r)
    BY <1>7, <1>8, <1>10, <1>12, <2>1
  <2>2. CASE g # Me(r)
    BY <1>3, <1>8, <1>10, <1>11, <1>13, <2>2
  <2> QED
    BY <2>1, <2>2
<1>15. \A g \in Members : IF g = Me(r) THEN u.moves[g] <= 0 ELSE u.moves[g] >= 0
  BY <1>3, <1>7, <1>8, <1>10
<1>16. Session(r, "flush", u)
  BY <1>3, <1>6, <1>10, <1>14, <1>15 DEF Session, Paying, InFlight
<1>17. Ascending(r, "flush", u, holder')
  <2>1. t.opened = {} => \A x \in Rows : holder[x] # r
    BY <1>1, <1>2, <1>3 DEF Ascending
  <2> QED
    BY <1>5, <1>10, <2>1 DEF Ascending
<1>18. /\ "flush" \in Stages /\ pc[r] # "done"
       /\ holder' \in [Rows -> Requests \cup {NoRow}]
       /\ \A x \in Rows : holder'[x] \in {holder[x], r, NoRow}
  BY <1>2, <1>5 DEF Stages, InFlight, Inv, TypeOK
<1>19. UNCHANGED <<db, boots>>
  BY <1>5
<1> QED
  BY <1>5, <1>9, <1>16, <1>17, <1>18, <1>19, QuietStep

\* One more row is written, the least of those that are left.
LEMMA FlushRowStep == ASSUME Inv, NEW r \in Requests, FlushRow(r) PROVE Inv'
<1>1. PICK t \in Tx : /\ t = tx[r] /\ Session(r, pc[r], t) /\ Ascending(r, pc[r], t, holder)
                      /\ pc[r] \in Stages
  BY Current
<1>2. pc[r] \in {"open", "flush"} /\ t.pending # {} /\ t.pending \subseteq Rows
  BY <1>1 DEF FlushRow, Tx
<1> DEFINE x == Min(t.pending)
           p == IF pc[r] = "flush" /\ t.pending = {x} THEN "commit" ELSE pc[r]
           u == [t EXCEPT !.pending = t.pending \ {x}, !.dirty = t.dirty \ {x},
                          !.written = t.written \cup ({x} \cap Members)]
<1>3. x \in t.pending /\ x \in Rows /\ \A y \in t.pending : x <= y
  BY <1>2, FiniteRows, MinOf
<1>4. /\ tx' = [tx EXCEPT ![r] = u] /\ pc' = [pc EXCEPT ![r] = p]
      /\ holder' = [holder EXCEPT ![x] = r] /\ UNCHANGED <<db, boots>>
  <2>1. /\ tx' = [tx EXCEPT ![r].pending = @ \ {x}, ![r].dirty = @ \ {x},
                            ![r].written = @ \cup ({x} \cap Members)]
        /\ pc' = [pc EXCEPT ![r] = IF pc[r] = "flush" /\ tx[r].pending = {x} THEN "commit" ELSE @]
        /\ holder' = [holder EXCEPT ![x] = r] /\ UNCHANGED <<db, boots>>
    BY <1>1 DEF FlushRow, NextRow
  <2> HIDE DEF x
  <2>2. tx' = [tx EXCEPT ![r] = u]
    BY <1>1, <2>1 DEF Tx
  <2> QED
    BY <1>1, <2>1, <2>2
<1> HIDE DEF x
<1>5. u \in Tx
  BY DEF Tx
<1>6. /\ u.view = t.view /\ u.copy = t.copy /\ u.moves = t.moves /\ u.todo = t.todo /\ u.left = t.left
      /\ u.opened = t.opened /\ u.insert = t.insert /\ u.pending = t.pending \ {x}
      /\ u.dirty = t.dirty \ {x} /\ u.written = t.written \cup ({x} \cap Members)
  BY DEF Tx
<1> HIDE DEF u
<1>7. /\ t.view \subseteq DOMAIN expenses /\ t.pending \cap Members \subseteq t.dirty
      /\ \A g \in Members : IF g = Me(r) THEN t.moves[g] <= 0 ELSE t.moves[g] >= 0
      /\ \A g \in Touched(t) : t.copy[g] >= 0 /\ Within(t, g)
      /\ (pc[r] = "open") <=> (t.insert # NoRow)
      /\ pc[r] = "open" => t.insert # Me(r)
  BY <1>1, <1>2 DEF Session
<1>8. Touched(u) = Touched(t)
  <2>1. t.dirty \subseteq Members
    BY DEF Tx
  <2> QED
    BY <1>3, <1>6, <1>7, <2>1 DEF Touched
<1>9. /\ Debt(r, u) = Debt(r, t) /\ \A g : PartOf(r, u, g) = PartOf(r, t, g)
      /\ \A g : Within(t, g) => Within(u, g)
  BY <1>6 DEF Debt, PartOf, Within
<1>10. /\ p \in {"open", "flush", "commit"} /\ (p = "open" <=> pc[r] = "open")
       /\ p = "open" => Paying(r, "open", t)
  BY <1>2, <1>7 DEF Paying
<1>11. p = "open" => Session(r, p, u)
  <2> SUFFICES ASSUME p = "open" PROVE Session(r, "open", u)
    OBVIOUS
  <2>1. pc[r] = "open" /\ Paying(r, "open", t)
    BY <1>10
  <2>2. /\ 0 < Debt(r, t) /\ Debt(r, t) <= t.copy[Me(r)]
        /\ \A g \in t.todo \cup {Me(r)} : t.moves[g] = 0
        /\ Within(t, Me(r)) /\ t.todo \subseteq Creditors(t.view)
        /\ t.insert \in t.todo /\ PartOf(r, t, t.insert) > 0
    BY <1>1, <2>1 DEF Session
  <2> QED
    BY <1>6, <1>7, <1>8, <1>9, <2>1, <2>2 DEF Session, InFlight
<1>12. p # "open" => Session(r, p, u)
  BY <1>6, <1>7, <1>8, <1>9, <1>10 DEF Session, Paying, InFlight
<1>13. Ascending(r, p, u, holder')
  <2> SUFFICES ASSUME u.opened = {}, u.insert = NoRow, NEW z \in Rows, holder'[z] = r
               PROVE  p \in {"flush", "commit"} /\ \A y \in u.pending : z < y
    BY DEF Ascending
  <2>1. /\ p \in {"flush", "commit"} /\ t.opened = {} /\ t.insert = NoRow
    BY <1>6, <1>7, <1>10
  <2>2. CASE z = x
    <3>1. \A y \in u.pending : y # x /\ x <= y /\ y \in Nat
      BY <1>2, <1>3, <1>6, FiniteRows
    <3> QED
      BY <1>3, <2>1, <2>2, <3>1, FiniteRows
  <2>3. CASE z # x
    <3>1. holder[z] = r
      BY <1>4, <2>3 DEF Inv, TypeOK
    <3> QED
      BY <1>1, <1>6, <2>1, <3>1 DEF Ascending
  <2> QED
    BY <2>2, <2>3
<1>14. /\ p \in Stages /\ pc[r] # "done" /\ holder' \in [Rows -> Requests \cup {NoRow}]
       /\ \A z \in Rows : holder'[z] \in {holder[z], r, NoRow}
  BY <1>2, <1>3, <1>4, <1>10 DEF Stages, InFlight, Inv, TypeOK
<1>15. Session(r, p, u)
  BY <1>11, <1>12
<1> HIDE DEF p
<1> QED
  BY <1>4, <1>5, <1>13, <1>14, <1>15, QuietStep

LEMMA FailStep == ASSUME Inv, NEW r \in Requests, Fail(r) PROVE Inv'
BY RollbackStep DEF Fail

LEMMA DeadlockVictimStep == ASSUME Inv, NEW r \in Requests, DeadlockVictim(r) PROVE Inv'
<1>1. PICK S \in SUBSET Requests : r \in S /\ Deadlock(S)
  BY DEF DeadlockVictim
<1>2. Wanted(r) # {}
  BY <1>1 DEF Deadlock, BlockedBy
<1>3. pc[r] \in InFlight
  BY <1>2 DEF Wanted, InFlight
<1> QED
  BY <1>3, RollbackStep DEF DeadlockVictim

-----------------------------------------------------------------------------
(* Commit, restart, and the whole system *)

LEMMA CommitStep == ASSUME Inv, NEW r \in Requests, Commit(r) PROVE Inv'
<1>1. PICK t \in Tx : /\ t = tx[r] /\ Session(r, pc[r], t) /\ Me(r) \in Members
  BY Current
<1>2. /\ pc[r] = "commit"
      /\ rows' = rows \cup t.opened
      /\ balance' = [g \in Members |-> IF g \in t.opened \cup t.written THEN t.copy[g] ELSE balance[g]]
      /\ expenses' = Recorded(r)
      /\ paidOut' = [paidOut EXCEPT ![Me(r)] = @ - t.moves[Me(r)]]
      /\ received' = [g \in Members |-> received[g] + (IF g = Me(r) THEN 0 ELSE t.moves[g])]
      /\ pc' = [pc EXCEPT ![r] = "done"] /\ tx' = [tx EXCEPT ![r] = CleanTx]
      /\ holder' = [x \in Rows |-> IF holder[x] = r THEN NoRow ELSE holder[x]]
      /\ UNCHANGED boots
  BY <1>1 DEF Commit, Unlock
<1>3. /\ \A g \in Members : IF g = Me(r) THEN t.moves[g] <= 0 ELSE t.moves[g] >= 0
      /\ \A g \in Touched(t) : t.copy[g] >= 0 /\ Within(t, g)
      /\ t.opened \cup t.written \subseteq Touched(t) /\ t.opened \subseteq Members
      /\ t.moves \in [Members -> Int] /\ t.copy \in [Members -> Int] /\ t.cost \in Nat
  BY <1>1 DEF Session, Touched, Tx
<1>4. ExpenseOf[r] \notin DOMAIN expenses
  BY <1>2 DEF Inv, ExpensesOK
<1>5. /\ DOMAIN expenses' \subseteq DOMAIN expenses \cup {ExpenseOf[r]}
      /\ expenses' \in [DOMAIN expenses' -> Expense]
      /\ Steady
  <2>1. CASE t.cost > 0
    <3> DEFINE new == [payer |-> Me(r), amount |-> t.cost, settled |-> FALSE]
    <3>1. new \in Expense
      BY <1>1, <1>3, <2>1 DEF Expense
    <3>2. expenses' = [e \in DOMAIN expenses \cup {ExpenseOf[r]} |->
                          IF e = ExpenseOf[r] THEN new ELSE expenses[e]]
      BY <1>1, <1>2, <2>1 DEF Recorded
    <3> HIDE DEF new
    <3>3. DOMAIN expenses' = DOMAIN expenses \cup {ExpenseOf[r]}
      BY <3>2
    <3>4. \A e \in DOMAIN expenses : expenses'[e] = expenses[e]
      BY <1>4, <3>2
    <3>5. expenses' \in [DOMAIN expenses' -> Expense]
      BY <3>1, <3>2, <3>3 DEF Inv, TypeOK
    <3> QED
      BY <3>3, <3>4, <3>5 DEF Steady
  <2>2. CASE ~(t.cost > 0)
    <3>1. expenses' = [e \in DOMAIN expenses |->
                          [expenses[e] EXCEPT !.settled = @ \/ e \in t.marks]]
      BY <1>1, <1>2, <2>2 DEF Recorded
    <3>2. DOMAIN expenses' = DOMAIN expenses
      BY <3>1
    <3>3. ASSUME NEW e \in DOMAIN expenses
          PROVE  /\ expenses'[e] \in Expense /\ expenses'[e].payer = expenses[e].payer
                 /\ expenses'[e].amount = expenses[e].amount
      <4> DEFINE b == expenses[e].settled \/ e \in t.marks
      <4>1. expenses'[e] = [expenses[e] EXCEPT !.settled = b] /\ b \in BOOLEAN
        BY <3>1
      <4>2. expenses[e] \in Expense
        BY DEF Inv, TypeOK
      <4> HIDE DEF b
      <4> QED
        BY <4>1, <4>2 DEF Expense
    <3>4. expenses' \in [DOMAIN expenses' -> Expense]
      BY <3>1, <3>2, <3>3
    <3> QED
      BY <3>2, <3>3, <3>4 DEF Steady
  <2> QED
    BY <2>1, <2>2
<1>6. /\ paidOut' \in [Members -> Nat] /\ received' \in [Members -> Nat] /\ Widened
      /\ paidOut'[Me(r)] = paidOut[Me(r)] - t.moves[Me(r)] /\ received'[Me(r)] = received[Me(r)]
      /\ \A g \in Members \ {Me(r)} :
             paidOut'[g] = paidOut[g] /\ received'[g] = received[g] + t.moves[g]
  <2>1. /\ paidOut'[Me(r)] = paidOut[Me(r)] - t.moves[Me(r)] /\ received'[Me(r)] = received[Me(r)]
        /\ \A g \in Members \ {Me(r)} :
               paidOut'[g] = paidOut[g] /\ received'[g] = received[g] + t.moves[g]
    BY <1>1, <1>2 DEF Inv, TypeOK
  <2>2. \A g \in Members : /\ paidOut[g] <= paidOut'[g] /\ received[g] <= received'[g]
                           /\ paidOut'[g] \in Nat /\ received'[g] \in Nat
    BY <1>1, <1>3, <2>1 DEF Inv, TypeOK
  <2>3. DOMAIN paidOut' = Members /\ DOMAIN received' = Members
    BY <1>2 DEF Inv, TypeOK
  <2>4. paidOut' = [g \in Members |-> paidOut'[g]] /\ received' = [g \in Members |-> received'[g]]
    BY <1>2, <2>3 DEF Inv, TypeOK
  <2> QED
    BY <2>1, <2>2, <2>4 DEF Widened
<1>7. TypeOK'
  <2>1. rows' \subseteq Members /\ balance' \in [Members -> Int]
    BY <1>2, <1>3 DEF Inv, TypeOK
  <2>2. DOMAIN expenses' \subseteq ExpenseIds
    BY <1>5, RequestsOf DEF Inv, TypeOK
  <2>3. holder' \in [Rows -> Requests \cup {NoRow}] /\ boots' \in Nat
    BY <1>2 DEF Inv, TypeOK
  <2>4. pc' \in [Requests -> Stages] /\ tx' \in [Requests -> Tx]
    <3>1. "done" \in Stages
      BY DEF Stages, Answered
    <3> QED
      BY <1>2, <3>1, CleanSession DEF Inv, TypeOK
  <2> QED
    BY <1>5, <1>6, <2>1, <2>2, <2>3, <2>4 DEF TypeOK
<1>8. ExpensesOK'
  <2>1. \A e \in DOMAIN expenses' \cap SeedExpenses :
            expenses'[e].payer = SeedPayer[e] /\ expenses'[e].amount = SeedAmount[e]
    BY <1>5, RequestsOf DEF Inv, ExpensesOK, Steady
  <2>2. ASSUME NEW q \in Requests, ExpenseOf[q] \in DOMAIN expenses' PROVE pc'[q] = "done"
    <3>1. CASE q = r
      BY <1>2, <3>1 DEF Inv, TypeOK
    <3>2. CASE q # r
      <4>1. ExpenseOf[q] \in DOMAIN expenses
        BY <1>5, <2>2, <3>2, RequestsOf
      <4> QED
        BY <1>2, <3>2, <4>1 DEF Inv, ExpensesOK, TypeOK
    <3> QED
      BY <3>1, <3>2
  <2> QED
    BY <2>1, <2>2 DEF ExpensesOK
<1>9. NonNegative'
  BY <1>2, <1>3 DEF NonNegative, Inv
<1>10. BalanceBounds'
  <2> SUFFICES ASSUME NEW g \in rows'
               PROVE  InitialBudget - paidOut'[g] <= balance'[g] /\ balance'[g] <= InitialBudget + received'[g]
    BY DEF BalanceBounds
  <2>1. /\ g \in Members /\ InitialBudget \in Nat
        /\ paidOut[g] \in Nat /\ received[g] \in Nat /\ paidOut'[g] \in Nat /\ received'[g] \in Nat
        /\ t.copy[g] \in Int /\ t.moves[g] \in Int /\ balance[g] \in Int
    BY <1>3, <1>6, <1>7, RequestsOf DEF Inv, TypeOK
  <2>2. CASE g \in t.opened \cup t.written
    <3>1. balance'[g] = t.copy[g] /\ Within(t, g)
      BY <1>2, <1>3, <2>1, <2>2
    <3>2. /\ InitialBudget - paidOut[g] <= t.copy[g] - t.moves[g]
          /\ t.copy[g] - t.moves[g] <= InitialBudget + received[g]
      BY <3>1 DEF Within
    <3>3. CASE g = Me(r)
      BY <1>3, <1>6, <2>1, <3>1, <3>2, <3>3
    <3>4. CASE g # Me(r)
      BY <1>3, <1>6, <2>1, <3>1, <3>2, <3>4
    <3> QED
      BY <3>3, <3>4
  <2>3. CASE g \notin t.opened \cup t.written
    <3>1. balance'[g] = balance[g] /\ g \in rows
      BY <1>2, <2>1, <2>3
    <3>2. InitialBudget - paidOut[g] <= balance[g] /\ balance[g] <= InitialBudget + received[g]
      BY <3>1 DEF Inv, BalanceBounds
    <3>3. paidOut[g] <= paidOut'[g] /\ received[g] <= received'[g]
      BY <1>6, <2>1 DEF Widened
    <3> QED
      BY <2>1, <3>1, <3>2, <3>3
  <2> QED
    BY <2>2, <2>3
<1>11. SessionsOK'
  <2> SUFFICES ASSUME NEW q \in Requests, NEW s \in Stages, NEW u \in Tx, pc'[q] = s, tx'[q] = u
               PROVE  Session(q, s, u)' /\ Ascending(q, s, u, holder')
    BY DEF SessionsOK, Ascending
  <2>1. CASE q = r
    <3>1. s = "done" /\ u = CleanTx
      BY <1>2, <2>1 DEF Inv, TypeOK
    <3>2. Session(r, "done", CleanTx)'
      BY CleanSession DEF Answered
    <3>3. \A x \in Rows : holder'[x] # r
      BY <1>2, FiniteRows
    <3> QED
      BY <2>1, <3>1, <3>2, <3>3 DEF Ascending
  <2>2. CASE q # r
    <3>1. tx[q] = u /\ pc[q] = s
      BY <1>2, <2>2 DEF Inv, TypeOK
    <3>2. Session(q, s, u) /\ Ascending(q, s, u, holder)
      BY <3>1 DEF Inv, SessionsOK
    <3>3. \A x \in Rows : holder'[x] = q => holder[x] = q
      BY <1>2, FiniteRows
    <3>4. Session(q, s, u)'
      BY <1>5, <1>6, <1>7, <3>2, SessionKept DEF Inv
    <3> QED
      BY <3>2, <3>3, <3>4 DEF Ascending
  <2> QED
    BY <2>1, <2>2
<1> QED
  BY <1>7, <1>8, <1>9, <1>10, <1>11 DEF Inv

\* The seed writes what was there, settled or not.
LEMMA BootStep == ASSUME Inv, Boot PROVE Inv'
<1>1. /\ boots' = boots + 1 /\ expenses' = Seeded
      /\ pc' = [r \in Requests |-> IF pc[r] \in InFlight THEN "failed" ELSE pc[r]]
      /\ tx' = [r \in Requests |-> CleanTx] /\ holder' = [x \in Rows |-> NoRow]
      /\ UNCHANGED <<rows, balance, paidOut, received>>
  BY DEF Boot
<1>2. /\ DOMAIN expenses' = DOMAIN expenses /\ expenses' \in [DOMAIN expenses -> Expense]
      /\ \A e \in DOMAIN expenses :
             /\ expenses'[e].payer = expenses[e].payer /\ expenses'[e].amount = expenses[e].amount
  <2>1. expenses' = [e \in DOMAIN expenses |-> IF e \in SeedExpenses THEN SeedRow(e) ELSE expenses[e]]
    BY <1>1 DEF Seeded
  <2>2. \A e \in SeedExpenses : /\ SeedRow(e) \in Expense /\ SeedRow(e).payer = SeedPayer[e]
                                /\ SeedRow(e).amount = SeedAmount[e]
    BY RequestsOf DEF SeedRow, Expense
  <2>3. expenses \in [DOMAIN expenses -> Expense]
    BY DEF Inv, TypeOK
  <2> QED
    BY <2>1, <2>2, <2>3 DEF Inv, ExpensesOK
<1>3. \A r \in Requests : /\ pc'[r] \in Answered \cup {"idle"} /\ tx'[r] = CleanTx
                          /\ pc[r] = "done" => pc'[r] = "done"
  BY <1>1 DEF Inv, TypeOK, Stages, Answered, InFlight
<1>4. TypeOK'
  <2>1. pc' \in [Requests -> Stages]
    BY <1>1, <1>3 DEF Stages, Inv, TypeOK
  <2>2. tx' \in [Requests -> Tx] /\ holder' \in [Rows -> Requests \cup {NoRow}] /\ boots' \in Nat
    BY <1>1, CleanSession DEF Inv, TypeOK
  <2> QED
    BY <1>1, <1>2, <2>1, <2>2 DEF Inv, TypeOK
<1>5. ExpensesOK'
  BY <1>2, <1>3 DEF Inv, ExpensesOK
<1>6. NonNegative' /\ BalanceBounds'
  BY <1>1 DEF Inv, NonNegative, BalanceBounds
<1>7. SessionsOK'
  <2> SUFFICES ASSUME NEW q \in Requests, NEW s \in Stages, NEW u \in Tx, pc'[q] = s, tx'[q] = u
               PROVE  Session(q, s, u)' /\ Ascending(q, s, u, holder')
    BY DEF SessionsOK, Ascending
  <2>1. s \in Answered \cup {"idle"} /\ u = CleanTx
    BY <1>3
  <2>2. \A x \in Rows : holder'[x] # q
    BY <1>1, FiniteRows
  <2>3. s \in {"idle", "view", "mine", "commit"} \cup Answered
    BY <2>1
  <2>4. Session(q, s, CleanTx)'
    BY <2>3, CleanSession
  <2> QED
    BY <2>1, <2>2, <2>4 DEF Ascending
<1> QED
  BY <1>4, <1>5, <1>6, <1>7 DEF Inv

LEMMA Start == Init => Inv
<1> SUFFICES ASSUME Init PROVE Inv
  OBVIOUS
<1>1. TypeOK
  <2>1. \A e \in SeedExpenses : SeedRow(e) \in Expense
    BY RequestsOf DEF SeedRow, Expense
  <2>2. rows \subseteq Members /\ balance \in [Members -> Int]
    BY RequestsOf DEF Init
  <2>3. DOMAIN expenses \subseteq ExpenseIds /\ expenses \in [DOMAIN expenses -> Expense]
    BY <2>1, RequestsOf DEF Init
  <2>4. /\ paidOut \in [Members -> Nat] /\ received \in [Members -> Nat]
        /\ holder \in [Rows -> Requests \cup {NoRow}] /\ boots \in Nat
    BY DEF Init
  <2>5. pc \in [Requests -> Stages] /\ tx \in [Requests -> Tx]
    BY CleanSession DEF Init, Stages
  <2> QED
    BY <2>2, <2>3, <2>4, <2>5 DEF TypeOK
<1>2. ExpensesOK
  <2>1. expenses = [e \in SeedExpenses |-> SeedRow(e)]
    BY DEF Init
  <2>2. DOMAIN expenses = SeedExpenses /\ \A e \in SeedExpenses : expenses[e] = SeedRow(e)
    BY <2>1
  <2> QED
    BY <2>2, RequestsOf DEF ExpensesOK, SeedRow
<1>3. NonNegative /\ BalanceBounds
  BY RequestsOf DEF Init, NonNegative, BalanceBounds
<1>4. SessionsOK
  <2> SUFFICES ASSUME NEW q \in Requests, NEW s \in Stages, NEW u \in Tx, pc[q] = s, tx[q] = u
               PROVE  Session(q, s, u) /\ Ascending(q, s, u, holder)
    BY DEF SessionsOK
  <2>1. s = "idle" /\ u = CleanTx /\ \A x \in Rows : holder[x] # q
    BY FiniteRows DEF Init
  <2> QED
    BY <2>1, CleanSession DEF Ascending
<1> QED
  BY <1>1, <1>2, <1>3, <1>4 DEF Inv

LEMMA Invariance == Spec => []Inv
<1>1. ASSUME Inv, [Next]_vars PROVE Inv'
  <2>1. ASSUME NEW r \in Requests, AddExpense(r) PROVE Inv'
    BY <1>1, <2>1, AddExpenseStep
  <2>2. ASSUME NEW r \in Requests, ReceiveSettle(r) PROVE Inv'
    BY <1>1, <2>2, ReceiveSettleStep
  <2>3. ASSUME NEW r \in Requests, View(r) PROVE Inv'
    BY <1>1, <2>3, ViewStep
  <2>4. ASSUME NEW r \in Requests, EnsureMine(r) PROVE Inv'
    BY <1>1, <2>4, EnsureMineStep
  <2>5. ASSUME NEW r \in Requests, PayCreditor(r) PROVE Inv'
    BY <1>1, <2>5, PayCreditorStep
  <2>6. ASSUME NEW r \in Requests, OpenBudget(r) PROVE Inv'
    BY <1>1, <2>6, OpenBudgetStep
  <2>7. ASSUME NEW r \in Requests, Mark(r) PROVE Inv'
    BY <1>1, <2>7, MarkStep
  <2>8. ASSUME NEW r \in Requests, FlushRow(r) PROVE Inv'
    BY <1>1, <2>8, FlushRowStep
  <2>9. ASSUME NEW r \in Requests, Commit(r) PROVE Inv'
    BY <1>1, <2>9, CommitStep
  <2>10. ASSUME NEW r \in Requests, DeadlockVictim(r) PROVE Inv'
    BY <1>1, <2>10, DeadlockVictimStep
  <2>11. ASSUME NEW r \in Requests, Fail(r) PROVE Inv'
    BY <1>1, <2>11, FailStep
  <2>12. CASE Boot
    BY <1>1, <2>12, BootStep
  <2>13. CASE UNCHANGED vars
    <3>1. UNCHANGED <<rows, balance, expenses, paidOut, received, holder, pc, tx, boots>>
      BY <2>13 DEF vars, db
    <3>2. TypeOK' /\ ExpensesOK' /\ NonNegative' /\ BalanceBounds'
      BY <1>1, <3>1 DEF Inv, TypeOK, ExpensesOK, NonNegative, BalanceBounds
    <3>3. Steady /\ Widened
      BY <1>1, <3>1 DEF Steady, Widened, Inv, TypeOK
    <3>4. SessionsOK'
      <4> SUFFICES ASSUME NEW q \in Requests, NEW s \in Stages, NEW u \in Tx, pc'[q] = s, tx'[q] = u
                   PROVE  Session(q, s, u)' /\ Ascending(q, s, u, holder')
        BY DEF SessionsOK, Ascending
      <4>1. Session(q, s, u) /\ Ascending(q, s, u, holder)
        BY <1>1, <3>1 DEF Inv, SessionsOK
      <4> QED
        BY <1>1, <3>1, <3>2, <3>3, <4>1, SessionKept DEF Inv
    <3> QED
      BY <3>2, <3>4 DEF Inv
  <2> QED
    BY <1>1, <2>1, <2>2, <2>3, <2>4, <2>5, <2>6, <2>7, <2>8, <2>9, <2>10, <2>11, <2>12, <2>13
       DEF Next, Proceed
<1> QED
  BY <1>1, Start, PTL DEF Spec

\* Tables, locks and transactions of a group hold what they are meant to hold; the
\* totals of what was answered never fall below zero.
THEOREM TypeCorrect == Spec => []TypeOK
BY Invariance, PTL DEF Inv

\* However settlements overlap, fail and write each other's balances over, a restart of
\* the container included, none leaves a member with less than nothing: a debtor pays
\* from the copy it compared its debt with, and a creditor's copy was not negative.
THEOREM BalancesNonNegative == Spec => []NonNegative
BY Invariance, PTL DEF Inv

\* No balance moves further than the answered settlements say: what a commit writes over
\* it is a copy that was within what they said when it was read, and said less.
THEOREM BalancesExplained == Spec => []BalanceBounds
BY Invariance, PTL DEF Inv

\* A settlement that has not opened a budget waits for a row above all it has locked.
LEMMA WaitsAbove ==
    ASSUME Inv, NEW r \in Requests, tx[r].opened \cup ({tx[r].insert} \cap Members) = {},
           Wanted(r) # {}
    PROVE  /\ Min(tx[r].pending) \in Rows /\ Wanted(r) = {Min(tx[r].pending)}
           /\ \A x \in Rows : holder[x] = r => x < Min(tx[r].pending)
<1>1. PICK t \in Tx : t = tx[r] /\ Session(r, pc[r], t) /\ Ascending(r, pc[r], t, holder)
  BY Current
<1>2. t.opened = {} /\ t.insert = NoRow
  BY <1>1, FiniteRows DEF Tx
<1>3. pc[r] # "open"
  BY <1>1, <1>2 DEF Session
<1>4. t.pending # {} /\ Wanted(r) = {Min(t.pending)}
  BY <1>1, <1>3 DEF Wanted
<1>5. t.pending \subseteq Rows
  BY DEF Tx
<1>6. Min(t.pending) \in t.pending
  BY <1>4, <1>5, FiniteRows, MinOf
<1> QED
  BY <1>1, <1>2, <1>4, <1>5, <1>6 DEF Ascending

\* Settlements that only flush at their end never wait for one another in a circle: of
\* the rows they wait for, the owner of the greatest would wait for a greater one.
THEOREM DeadlockOnlyByOpening == Spec => []DeadlockNeedsOpening
<1>1. ASSUME Inv, NEW S \in SUBSET Requests, Deadlock(S),
             \A r \in S : tx[r].opened \cup ({tx[r].insert} \cap Members) = {}
      PROVE  FALSE
  <2> DEFINE wanted == {Min(tx[r].pending) : r \in S}
  <2>1. \A r \in S : r \in Requests /\ Wanted(r) # {}
    BY <1>1 DEF Deadlock, BlockedBy
  <2>2. ASSUME NEW r \in S
        PROVE  /\ Min(tx[r].pending) \in Rows /\ Wanted(r) = {Min(tx[r].pending)}
               /\ \A x \in Rows : holder[x] = r => x < Min(tx[r].pending)
    BY <1>1, <2>1, WaitsAbove
  <2>3. wanted \subseteq Rows /\ wanted # {}
    BY <1>1, <2>2 DEF Deadlock
  <2>4. IsFiniteSet(wanted)
    <3> HIDE DEF wanted
    <3> QED
      BY <2>3, FiniteRows, FS_Subset
  <2>5. PICK greatest \in wanted : \A x \in wanted : x <= greatest
    <3> HIDE DEF wanted
    <3> QED
      BY <2>3, <2>4, FiniteRows, GreatestNat
  <2>6. PICK r \in S : greatest = Min(tx[r].pending)
    BY <2>5
  <2>7. PICK q \in S : holder[greatest] = q
    <3>1. PICK q \in S : BlockedBy(r, q)
      BY <1>1 DEF Deadlock
    <3> QED
      BY <2>2, <2>6, <3>1 DEF BlockedBy
  <2>8. greatest < Min(tx[q].pending) /\ Min(tx[q].pending) \in wanted
    BY <2>2, <2>3, <2>7
  <2>9. Min(tx[q].pending) <= greatest /\ greatest \in Nat /\ Min(tx[q].pending) \in Nat
    <3> HIDE DEF wanted
    <3> QED
      BY <2>3, <2>5, <2>8, FiniteRows
  <2> QED
    BY <2>8, <2>9
<1>2. Inv => DeadlockNeedsOpening
  BY <1>1 DEF DeadlockNeedsOpening
<1> QED
  BY <1>2, Invariance, PTL

-----------------------------------------------------------------------------
(* What a round adds up to *)

\* What member g can spend: a budget that is missing would be opened.
Funds(g) == IF g \in rows THEN balance[g] ELSE InitialBudget

\* What is owed to a group of members.
OwedTo(group, view) == SumFunctionOnSet([g \in Members |-> Net(g, view)], group)

\* At most what is owed to g, up to the cents that rounding leaves over.
Bound(g, view) ==
    IF g \in Creditors(view) THEN Net(g, view) + Cardinality(Creditors(view)) - 1 ELSE 0

\* All payers together paid what is shared.
LEMMA AllPaid ==
    ASSUME TypeOK, NEW view, view \subseteq DOMAIN expenses
    PROVE  SumFunctionOnSet([g \in Members |-> Paid(g, view)], Members) = Unsettled(view)
<1> DEFINE w == [e \in view |-> expenses[e].amount]
           f == [e \in view |-> expenses[e].payer]
           v == [g \in Members |-> Paid(g, view)]
<1>1. IsFiniteSet(view) /\ IsFiniteSet(Members)
  BY FiniteRows, FS_Subset DEF TypeOK
<1>2. \A e \in view : w[e] \in Int /\ f[e] \in Members
  BY DEF TypeOK, Expense
<1> DEFINE part == [g \in Members |-> {e \in view : expenses[e].payer = g}]
<1>3. \A g \in Members : part[g] \subseteq view /\ \A e \in view : e \in part[g] <=> f[e] = g
  OBVIOUS
<1>4. \A g \in Members : v[g] = SumFunctionOnSet(w, part[g])
  BY DEF Paid
<1> HIDE DEF w, f, v, part
<1>5. SumFunctionOnSet(v, Members) = SumFunctionOnSet(w, view)
  BY <1>1, <1>2, <1>3, <1>4, SumByPart
<1> QED
  BY <1>5 DEF v, w, Unsettled

\* What is owed to all members together is what the division leaves over.
LEMMA NetSum ==
    ASSUME TypeOK, NEW view, view \subseteq DOMAIN expenses
    PROVE  OwedTo(Members, view) \in Nat
<1> DEFINE v == [g \in Members |-> Net(g, view)]
           w == [g \in Members |-> Paid(g, view)]
           n == Cardinality(Members)
           k == Unsettled(view) \div n
<1>1. n \in Nat \ {0} /\ Unsettled(view) \in Nat /\ \A g : Paid(g, view) \in Nat
  BY FiniteRows, NetType
<1>2. k \in Nat /\ k \in Int /\ n * k <= Unsettled(view)
  BY <1>1
<1>3. \A g \in Members : w[g] \in Int /\ v[g] = w[g] - k
  BY <1>1 DEF Net
<1>4. SumFunctionOnSet(w, Members) = Unsettled(view)
  BY AllPaid
<1> HIDE DEF v, w, n, k
<1>5. SumFunctionOnSet(v, Members) = SumFunctionOnSet(w, Members) - n * k
  BY <1>2, <1>3, FiniteRows, SumShift DEF n
<1> QED
  BY <1>1, <1>2, <1>4, <1>5 DEF OwedTo, v

\* So a debt is covered by what is owed to the creditors.
LEMMA CreditCovers ==
    ASSUME TypeOK, NEW view, view \subseteq DOMAIN expenses, NEW d \in Members, Net(d, view) < 0
    PROVE  -Net(d, view) <= TotalCredit(view)
<1> DEFINE v == [g \in Members |-> Net(g, view)]
           C == Creditors(view)
           D == Members \ C
<1>1. \A g \in Members : v[g] = Net(g, view) /\ v[g] \in Int
  BY NetType
<1>2. C \subseteq Members /\ \A g \in D : ~(v[g] > 0)
  BY DEF Creditors
<1>3. d \in D /\ TotalCredit(view) = SumFunctionOnSet(v, C)
  BY <1>1, NetType DEF Creditors, TotalCredit
<1> HIDE DEF v, C
<1>4. IsFiniteSet(C) /\ IsFiniteSet(D) /\ IsFiniteSet(D \ {d}) /\ C \cap D = {} /\ C \cup D = Members
  BY <1>2, FiniteRows, FS_Subset
<1> HIDE DEF D
<1>5. SumFunctionOnSet(v, C \cup D) = SumFunctionOnSet(v, C) + SumFunctionOnSet(v, D)
  BY <1>1, <1>4, SumDisjoint
<1>6. SumFunctionOnSet(v, D) = v[d] + SumFunctionOnSet(v, D \ {d})
  <2>1. \A g \in D : v[g] \in Int
    BY <1>1, <1>4
  <2> QED
    BY <1>3, <1>4, <2>1, SumElement
<1>7. SumFunctionOnSet(v, D \ {d}) <= 0
  <2> DEFINE zero == [g \in D \ {d} |-> 0]
             rest == D \ {d}
  <2>1. \A g \in rest : v[g] \in Int /\ zero[g] \in Int /\ v[g] <= zero[g] /\ zero[g] = 0
    BY <1>1, <1>2, <1>4
  <2>2. IsFiniteSet(rest)
    BY <1>4
  <2> HIDE DEF zero, rest
  <2>3. SumFunctionOnSet(v, rest) <= SumFunctionOnSet(zero, rest)
    BY <2>1, <2>2, SumMonotone
  <2>4. SumFunctionOnSet(zero, rest) = 0
    BY <2>1, <2>2, SumZero
  <2> QED
    BY <2>3, <2>4 DEF rest
<1>8. /\ SumFunctionOnSet(v, C) \in Int /\ SumFunctionOnSet(v, D \ {d}) \in Int
      /\ v[d] \in Int /\ v[d] = Net(d, view)
  <2>1. (\A g \in C : v[g] \in Int) /\ \A g \in D \ {d} : v[g] \in Int
    BY <1>1, <1>4
  <2> QED
    BY <1>1, <1>4, <2>1, SumType
<1>9. SumFunctionOnSet(v, C \cup D) \in Nat
  <2>1. SumFunctionOnSet(v, Members) \in Nat
    BY NetSum DEF OwedTo, v
  <2> QED
    BY <1>4, <2>1
<1> QED
  BY <1>3, <1>4, <1>5, <1>6, <1>7, <1>8, <1>9

\* What is owed to a group, with one of its members apart.
LEMMA OwedToOne ==
    ASSUME TypeOK, NEW view, view \subseteq DOMAIN expenses, NEW group, group \subseteq Members,
           NEW c \in group
    PROVE  /\ OwedTo(group, view) = Net(c, view) + OwedTo(group \ {c}, view)
           /\ OwedTo(group \ {c}, view) \in Int
<1> DEFINE v == [g \in Members |-> Net(g, view)]
           rest == group \ {c}
<1>1. \A g \in Members : v[g] = Net(g, view) /\ v[g] \in Int
  BY NetType
<1>2. IsFiniteSet(group) /\ IsFiniteSet(rest) /\ rest \subseteq Members
  BY FiniteRows, FS_Subset
<1> HIDE DEF v, rest
<1>3. SumFunctionOnSet(v, group) = v[c] + SumFunctionOnSet(v, group \ {c})
  BY <1>1, <1>2, SumElement
<1>4. SumFunctionOnSet(v, rest) \in Int
  BY <1>1, <1>2, SumType
<1> QED
  BY <1>1, <1>3, <1>4 DEF OwedTo, v, rest

\* A part is rounded down, by less than one cent.
LEMMA RoundedDown ==
    ASSUME NEW a \in Nat, NEW b \in Nat, NEW total \in Nat \ {0}
    PROVE  LET n == (a * b) \div total IN
           n \in Nat /\ n * total <= a * b /\ a * b <= n * total + (total - 1)
<1> DEFINE m == a * b
<1>1. m \in Nat
  OBVIOUS
<1> HIDE DEF m
<1>2. LET n == m \div total IN n \in Nat /\ n * total <= m /\ m <= n * total + (total - 1)
  BY <1>1
<1> QED
  BY <1>2 DEF m

\* What is left after one more part: of owed, rest + net stood out, j parts were rounded.
LEMMA LeftBound ==
    ASSUME NEW owed \in Nat, NEW net \in Nat, NEW rest \in Int, NEW total \in Nat \ {0},
           NEW left \in Int, NEW n \in Nat, NEW j \in Int,
           n * total <= owed * net, owed * net <= n * total + (total - 1),
           owed * (net + rest) <= left * total,
           left * total <= owed * (net + rest) + j * (total - 1)
    PROVE  /\ owed * rest <= (left - n) * total
           /\ (left - n) * total <= owed * rest + (j + 1) * (total - 1)
<1>1. owed * (net + rest) = owed * net + owed * rest
  OBVIOUS
<1>2. (left - n) * total = left * total - n * total
  OBVIOUS
<1>3. (j + 1) * (total - 1) = j * (total - 1) + (total - 1)
  OBVIOUS
<1> DEFINE a == owed * net
           b == owed * rest
           c == left * total
           d == n * total
           e == j * (total - 1)
<1>4. a \in Int /\ b \in Int /\ c \in Int /\ d \in Int /\ e \in Int
  OBVIOUS
<1>5. d <= a /\ a <= d + (total - 1) /\ a + b <= c /\ c <= a + b + e
  BY <1>1
<1> HIDE DEF a, b, c, d, e
<1>6. b <= c - d /\ c - d <= b + (e + (total - 1))
  BY <1>4, <1>5
<1> QED
  BY <1>2, <1>3, <1>6 DEF a, b, c, d, e

\* The last creditor gets what is left: something, and no more than its bound.
LEMMA LastBound ==
    ASSUME NEW owed \in Nat \ {0}, NEW net \in Nat \ {0}, NEW total \in Nat \ {0}, owed <= total,
           NEW left \in Int, NEW j \in Nat,
           owed * net <= left * total,
           left * total <= owed * net + j * (total - 1)
    PROVE  0 < left /\ left <= net + j
<1>1. 0 < left
  <2>1. 0 < owed * net
    OBVIOUS
  <2>2. left <= 0 => left * total <= 0
    OBVIOUS
  <2> QED
    BY <2>1, <2>2
<1>2. ASSUME left >= net + j + 1 PROVE FALSE
  <2>1. (net + j + 1) * total <= left * total
    BY <1>2
  <2>2. (net + j + 1) * total = net * total + j * total + total
    OBVIOUS
  <2>3. owed * net <= net * total
    OBVIOUS
  <2>4. j * (total - 1) = j * total - j
    OBVIOUS
  <2> DEFINE a == net * total
             b == j * total
             c == left * total
             d == owed * net
  <2>5. a \in Int /\ b \in Int /\ c \in Int /\ d \in Int
    OBVIOUS
  <2>6. a + b + total <= c /\ d <= a /\ c <= d + (b - j)
    BY <2>1, <2>2, <2>3, <2>4
  <2> HIDE DEF a, b, c, d
  <2> QED
    BY <2>5, <2>6
<1> QED
  BY <1>1, <1>2

-----------------------------------------------------------------------------
(* Requests that take turns *)

Moved(t) == SumFunctionOnSet(t.moves, Members)

\* The copies of transaction t are the committed budgets, or new ones, as it moved them.
Moving(r, t) ==
    /\ Touched(t) \subseteq rows \cup t.opened
    /\ \A g \in Members : t.moves[g] # 0 => g \in Touched(t)
    /\ \A g \in Touched(t) : t.copy[g] = Funds(g) + t.moves[g]
    /\ \A g \in Members \ {Me(r)} : t.moves[g] <= Bound(g, t.view)

\* While creditors are paid, what is left of the debt is the share of those who are still
\* to be paid, and what rounding has left over of the others' parts.
HandingOut(r, t) ==
    LET owed == Debt(r, t)
        total == TotalCredit(t.view)
        rest == OwedTo(t.todo, t.view)
        paid == Cardinality(Creditors(t.view)) - Cardinality(t.todo)
    IN  /\ Me(r) \in rows \cup t.opened /\ t.copy[Me(r)] = Funds(Me(r))
        /\ Moved(t) = owed - t.left
        /\ owed * rest <= t.left * total
        /\ t.left * total <= owed * rest + paid * (total - 1)
        /\ t.todo = {} => t.left = 0

\* The debt is paid, and all that is open is to be marked.
Settled(r, t) ==
    /\ t.view = Open /\ t.marks = Open /\ t.cost = 0
    /\ 0 < Debt(r, t) /\ Debt(r, t) <= Funds(Me(r))
    /\ t.moves[Me(r)] = -Debt(r, t) /\ Moved(t) = 0 /\ Moving(r, t)

\* What request r in stage p with the transaction t relies on when it is alone.
Turn(r, p, t) ==
    /\ p \in {"mine", "open", "pay"} => t.view = Open /\ t.marks = {} /\ t.cost = 0
    /\ Paying(r, p, t) => Moving(r, t) /\ HandingOut(r, t)
    /\ p = "flush" => Settled(r, t) /\ t.dirty \subseteq t.pending
    /\ p = "commit" =>
          \/ Settled(r, t) /\ t.dirty = {}
          \/ t.cost \in Amounts /\ t.opened = {} /\ t.written = {} /\ \A g \in Members : t.moves[g] = 0
          \/ /\ t.cost = 0 /\ t.marks = {} /\ \A g \in Members : t.moves[g] = 0
             /\ Moving(r, t)

Alone == \A q, r \in Requests : pc[q] \in InFlight /\ pc[r] \in InFlight => q = r

Turns ==
    /\ Alone
    /\ \A r \in Requests, p \in InFlight, t \in Tx : pc[r] = p /\ tx[r] = t => Turn(r, p, t)

\* What a request relies on does not change before something is committed.
LEMMA TurnKept ==
    ASSUME UNCHANGED db, NEW r, NEW p, NEW t, Turn(r, p, t)
    PROVE  Turn(r, p, t)'
<1>1. rows' = rows /\ balance' = balance /\ expenses' = expenses
  BY DEF db
<1>2. Open' = Open /\ \A g : Funds(g)' = Funds(g)
  BY <1>1 DEF Open, Funds
<1>3. \A g, view : Net(g, view)' = Net(g, view)
  BY <1>1 DEF Net, Paid, Unsettled
<1>4. \A view : Creditors(view)' = Creditors(view)
  BY <1>3 DEF Creditors
<1>5. \A view : TotalCredit(view)' = TotalCredit(view)
  BY <1>3, <1>4 DEF TotalCredit
<1>6. \A view, group : OwedTo(group, view)' = OwedTo(group, view)
  BY <1>3 DEF OwedTo
<1>7. \A g, view : Bound(g, view)' = Bound(g, view)
  BY <1>3, <1>4 DEF Bound
<1>8. Debt(r, t)' = Debt(r, t)
  BY <1>3 DEF Debt, Me
<1>9. Moving(r, t)' <=> Moving(r, t)
  BY <1>1, <1>2, <1>7 DEF Moving, Touched, Me
<1>10. HandingOut(r, t)' <=> HandingOut(r, t)
  BY <1>1, <1>2, <1>4, <1>5, <1>6, <1>8 DEF HandingOut, Moved, Me
<1>11. Settled(r, t)' <=> Settled(r, t)
  BY <1>2, <1>8, <1>9 DEF Settled, Moved, Me
<1> QED
  BY <1>2, <1>9, <1>10, <1>11 DEF Turn, Paying, Me

\* A step of the request in flight that commits nothing.
LEMMA TurnStep ==
    ASSUME TypeOK, Turns, NEW r \in Requests, pc[r] \in InFlight, NEW p \in Stages, NEW t \in Tx,
           pc' = [pc EXCEPT ![r] = p], tx' = [tx EXCEPT ![r] = t], UNCHANGED db,
           p \in InFlight => Turn(r, p, t)
    PROVE  Turns'
<1>1. /\ pc'[r] = p /\ tx'[r] = t
      /\ \A q \in Requests \ {r} : pc'[q] = pc[q] /\ pc[q] \notin InFlight
  BY DEF TypeOK, Turns, Alone
<1>2. Alone'
  BY <1>1 DEF Alone
<1>3. ASSUME NEW q \in Requests, NEW s \in InFlight, NEW u \in Tx, pc'[q] = s, tx'[q] = u
      PROVE  Turn(q, s, u)'
  <2>1. q = r /\ s = p /\ u = t
    BY <1>1, <1>3
  <2> QED
    BY <1>3, <2>1, TurnKept
<1> QED
  BY <1>2, <1>3 DEF Turns

\* A transaction that ends leaves nothing in flight.
LEMMA TurnOver ==
    ASSUME TypeOK, Turns, NEW r \in Requests, pc[r] \in InFlight,
           NEW answer \in Answered, pc' = [pc EXCEPT ![r] = answer]
    PROVE  Turns'
<1>1. \A q \in Requests : pc'[q] \notin InFlight
  BY DEF TypeOK, Turns, Alone, Answered, InFlight
<1> QED
  BY <1>1 DEF Turns, Alone

LEMMA RollbackTurn ==
    ASSUME TypeOK, Turns, NEW r \in Requests, pc[r] \in InFlight,
           NEW answer \in {"refused", "failed"}, Rollback(r, answer)
    PROVE  Turns'
BY TurnOver DEF Rollback, Answered

\* The first stage of a request that finds no other in flight.
LEMMA TurnStarts ==
    ASSUME TypeOK, MaxInFlight = 1, NEW r \in Requests, MaySend(r),
           NEW p \in Stages, NEW t \in Tx,
           pc' = [pc EXCEPT ![r] = p], tx' = [tx EXCEPT ![r] = t], UNCHANGED db, Turn(r, p, t)
    PROVE  Turns'
<1> DEFINE S == {q \in Requests : pc[q] \in InFlight}
<1>1. Cardinality(S) < 1 /\ IsFiniteSet(S)
  BY SettleUpAssumption, FS_Subset DEF MaySend
<1>2. S = {}
  <2> HIDE DEF S
  <2>1. Cardinality(S) = 0
    BY <1>1, FS_CardinalityType
  <2> QED
    BY <1>1, <2>1, FS_EmptySet
<1>3. /\ pc'[r] = p /\ tx'[r] = t
      /\ \A q \in Requests \ {r} : pc'[q] = pc[q] /\ pc[q] \notin InFlight
  BY <1>2 DEF TypeOK
<1>4. Alone'
  BY <1>3 DEF Alone
<1>5. Turn(r, p, t)'
  BY TurnKept
<1>6. ASSUME NEW q \in Requests, NEW s \in InFlight, NEW u \in Tx, pc'[q] = s, tx'[q] = u
      PROVE  Turn(q, s, u)'
  BY <1>3, <1>5, <1>6
<1> QED
  BY <1>4, <1>6 DEF Turns

LEMMA AddExpenseTurn ==
    ASSUME Inv, MaxInFlight = 1, NEW r \in Requests, AddExpense(r) PROVE Turns'
<1>1. PICK t \in Tx : /\ t = tx[r] /\ Session(r, pc[r], t) /\ Me(r) \in Members
  BY Current
<1>2. pc[r] = "idle" /\ t = CleanTx /\ MaySend(r)
  BY <1>1 DEF AddExpense, MaySend, Session, InFlight
<1>3. PICK n \in Amounts : tx' = [tx EXCEPT ![r].cost = n]
  BY DEF AddExpense
<1> DEFINE u == [t EXCEPT !.cost = n]
<1>4. /\ tx' = [tx EXCEPT ![r] = u] /\ pc' = [pc EXCEPT ![r] = "commit"] /\ UNCHANGED db
  BY <1>1, <1>3 DEF AddExpense
<1>5. /\ u \in Tx /\ u.cost = n /\ u.opened = t.opened /\ u.written = t.written /\ u.moves = t.moves
  BY RequestsOf DEF Tx
<1>6. t.opened = {} /\ t.written = {} /\ t.moves = [g \in Members |-> 0]
  BY <1>2 DEF CleanTx
<1> HIDE DEF u
<1>7. Turn(r, "commit", u)
  BY <1>5, <1>6 DEF Turn, Paying
<1>8. "commit" \in Stages
  BY DEF Stages, InFlight
<1> QED
  BY <1>2, <1>4, <1>5, <1>7, <1>8, TurnStarts DEF Inv

LEMMA ReceiveSettleTurn ==
    ASSUME Inv, MaxInFlight = 1, NEW r \in Requests, ReceiveSettle(r) PROVE Turns'
<1>1. PICK t \in Tx : t = tx[r]
  BY Current
<1>2. /\ tx' = [tx EXCEPT ![r] = t] /\ pc' = [pc EXCEPT ![r] = "view"] /\ UNCHANGED db
      /\ MaySend(r)
  BY <1>1 DEF ReceiveSettle, Inv, TypeOK
<1>3. Turn(r, "view", t)
  BY DEF Turn, Paying
<1>4. "view" \in Stages
  BY DEF Stages, InFlight
<1> QED
  BY <1>2, <1>3, <1>4, TurnStarts DEF Inv

LEMMA ViewTurn == ASSUME Inv, Turns, NEW r \in Requests, View(r) PROVE Turns'
<1>1. PICK t \in Tx : t = tx[r] /\ Session(r, pc[r], t)
  BY Current
<1>2. pc[r] = "view" /\ t = CleanTx
  BY <1>1 DEF View, Session
<1> DEFINE u == [t EXCEPT !.view = Open]
<1>3. /\ tx' = [tx EXCEPT ![r] = u] /\ pc' = [pc EXCEPT ![r] = "mine"] /\ UNCHANGED db
  BY <1>1 DEF View
<1>4. Open \subseteq ExpenseIds
  BY DEF Open, Inv, TypeOK
<1>5. u \in Tx /\ u.view = Open /\ u.marks = t.marks /\ u.cost = t.cost
  BY <1>4 DEF Tx
<1>6. t.marks = {} /\ t.cost = 0
  BY <1>2 DEF CleanTx
<1> HIDE DEF u
<1>7. Turn(r, "mine", u)
  BY <1>5, <1>6 DEF Turn, Paying
<1>8. "mine" \in Stages /\ pc[r] \in InFlight
  BY <1>2 DEF Stages, InFlight
<1> QED
  BY <1>3, <1>5, <1>7, <1>8, TurnStep DEF Inv

LEMMA TurnCurrent ==
    ASSUME Inv, Turns, NEW r \in Requests, pc[r] \in InFlight
    PROVE  \E t \in Tx :
               /\ t = tx[r] /\ Session(r, pc[r], t) /\ Turn(r, pc[r], t)
               /\ Me(r) \in Members /\ Owed(r) = Debt(r, t) /\ \A c : Part(r, c) = PartOf(r, t, c)
<1>1. PICK t \in Tx : /\ t = tx[r] /\ Session(r, pc[r], t) /\ Me(r) \in Members
                      /\ Owed(r) = Debt(r, t) /\ \A c : Part(r, c) = PartOf(r, t, c)
  BY Current
<1>2. Turn(r, pc[r], t)
  BY <1>1 DEF Turns
<1> QED
  BY <1>1, <1>2

\* What a request that pays creditors relies on.
LEMMA PayingFacts ==
    ASSUME Inv, NEW r \in Requests, NEW p, NEW t \in Tx, Session(r, p, t), Turn(r, p, t),
           Paying(r, p, t)
    PROVE  /\ t.view \subseteq DOMAIN expenses /\ t.todo \subseteq Creditors(t.view)
           /\ t.view = Open /\ t.marks = {} /\ t.cost = 0
           /\ Moving(r, t) /\ HandingOut(r, t)
           /\ 0 < Debt(r, t) /\ Debt(r, t) \in Nat /\ Debt(r, t) <= TotalCredit(t.view)
           /\ TotalCredit(t.view) \in Nat \ {0}
           /\ Debt(r, t) <= t.copy[Me(r)]
           /\ Me(r) \in Members /\ Me(r) \notin t.todo
           /\ \A g \in t.todo \cup {Me(r)} : t.moves[g] = 0
           /\ Creditors(t.view) \subseteq Members /\ IsFiniteSet(Creditors(t.view))
<1>1. /\ t.view \subseteq DOMAIN expenses /\ t.todo \subseteq Creditors(t.view)
      /\ 0 < Debt(r, t) /\ Debt(r, t) <= t.copy[Me(r)]
      /\ \A g \in t.todo \cup {Me(r)} : t.moves[g] = 0
  BY DEF Session
<1>2. /\ t.view = Open /\ t.marks = {} /\ t.cost = 0 /\ Moving(r, t) /\ HandingOut(r, t)
  BY DEF Turn, Paying
<1>3. Debt(r, t) \in Int /\ TotalCredit(t.view) \in Int
  BY <1>1, DebtType, NetType DEF Inv
<1>4. Me(r) \in Members /\ Net(Me(r), t.view) < 0 /\ Net(Me(r), t.view) \in Int
  BY <1>1, NetType, RequestsOf DEF Debt, Inv
<1>5. Debt(r, t) <= TotalCredit(t.view)
  BY <1>1, <1>4, CreditCovers DEF Debt, Inv
<1>6. Me(r) \notin t.todo
  BY <1>1, <1>4 DEF Creditors
<1>7. Creditors(t.view) \subseteq Members /\ IsFiniteSet(Creditors(t.view))
  BY FiniteRows, FS_Subset DEF Creditors
<1> QED
  BY <1>1, <1>2, <1>3, <1>4, <1>5, <1>6, <1>7

\* The part of the next creditor keeps the account of what is left.
LEMMA NextPart ==
    ASSUME Inv, NEW r \in Requests, NEW p, NEW t \in Tx, Session(r, p, t), Turn(r, p, t),
           Paying(r, p, t), NEW c \in t.todo, NEW n, n = PartOf(r, t, c)
    PROVE  LET owed == Debt(r, t)
               total == TotalCredit(t.view)
               rest == OwedTo(t.todo \ {c}, t.view)
               paid == Cardinality(Creditors(t.view)) - Cardinality(t.todo \ {c})
           IN  /\ n \in Nat /\ n <= Bound(c, t.view)
               /\ owed * rest <= (t.left - n) * total
               /\ (t.left - n) * total <= owed * rest + paid * (total - 1)
               /\ t.todo \ {c} = {} => t.left - n = 0 /\ n > 0
<1> DEFINE view == t.view
           owed == Debt(r, t)
           total == TotalCredit(view)
           net == Net(c, view)
           rest == OwedTo(t.todo \ {c}, view)
           k == Cardinality(Creditors(view))
           j == k - Cardinality(t.todo)
           left == t.left
<1>1. /\ t.view \subseteq DOMAIN expenses /\ t.todo \subseteq Creditors(t.view)
      /\ owed \in Nat \ {0} /\ owed <= total /\ total \in Nat \ {0}
      /\ Creditors(t.view) \subseteq Members /\ IsFiniteSet(Creditors(t.view))
      /\ HandingOut(r, t)
  BY PayingFacts
<1>2. net \in Nat \ {0} /\ c \in Members /\ left \in Int
  BY <1>1, NetType DEF Creditors, Tx, Inv
<1>3. OwedTo(t.todo, view) = net + rest /\ rest \in Int
  BY <1>1, OwedToOne DEF Inv
<1>4. /\ IsFiniteSet(t.todo) /\ k \in Nat /\ k >= 1 /\ j \in Nat
      /\ Cardinality(t.todo) \in Nat /\ Cardinality(t.todo) >= 1
      /\ Cardinality(t.todo \ {c}) = Cardinality(t.todo) - 1
  <2> DEFINE C == Creditors(view)
  <2>1. IsFiniteSet(C) /\ t.todo \subseteq C /\ c \in t.todo
    BY <1>1
  <2> HIDE DEF C
  <2>2. IsFiniteSet(t.todo) /\ Cardinality(t.todo) <= Cardinality(C) /\ t.todo # {}
    BY <2>1, FS_Subset
  <2>3. Cardinality(C) \in Nat /\ Cardinality(t.todo) \in Nat /\ Cardinality(t.todo) # 0
    BY <2>1, <2>2, FS_CardinalityType, FS_EmptySet
  <2>4. Cardinality(t.todo \ {c}) = Cardinality(t.todo) - 1
    BY <2>1, <2>2, FS_RemoveElement
  <2> QED
    BY <2>2, <2>3, <2>4 DEF C
<1>5. /\ owed * (net + rest) <= left * total
      /\ left * total <= owed * (net + rest) + j * (total - 1)
  BY <1>1, <1>3 DEF HandingOut
<1>6. Bound(c, view) = net + k - 1
  BY <1>1 DEF Bound
<1>7. n = IF t.todo = {c} THEN left ELSE (owed * net) \div total
  BY DEF PartOf
<1>8. k - Cardinality(t.todo \ {c}) = j + 1
  BY <1>4
<1>9. CASE t.todo = {c}
  <2>1. rest = 0
    <3>1. t.todo \ {c} = {} /\ IsFiniteSet({})
      BY <1>9, FS_EmptySet
    <3> QED
      BY <3>1, SumFirst DEF OwedTo
  <2>2. Cardinality(t.todo) = 1
    BY <1>9, FS_Singleton
  <2>3. j = k - 1 /\ net + rest = net
    BY <1>2, <2>1, <2>2
  <2>4. owed * net <= left * total /\ left * total <= owed * net + j * (total - 1)
    BY <1>5, <2>3
  <2> HIDE DEF owed, total, net, rest, k, j, left, view
  <2>5. 0 < left /\ left <= net + j
    BY <1>1, <1>2, <1>4, <2>4, LastBound
  <2>6. n = left /\ left - n = 0 /\ n \in Nat /\ n > 0 /\ n <= net + k - 1
    BY <1>2, <1>4, <1>7, <1>9, <2>3, <2>5
  <2>7. owed * rest = 0 /\ (left - n) * total = 0 /\ 0 <= (j + 1) * (total - 1)
    BY <1>1, <1>4, <2>1, <2>6
  <2>8. /\ owed * rest <= (left - n) * total
        /\ (left - n) * total <= owed * rest + (j + 1) * (total - 1)
    <3> DEFINE more == (j + 1) * (total - 1)
    <3>1. more \in Int /\ 0 <= more
      BY <1>1, <1>4, <2>7
    <3> HIDE DEF more
    <3>2. 0 <= 0 + more
      BY <3>1
    <3> QED
      BY <2>7, <3>2 DEF more
  <2> QED
    BY <1>6, <1>8, <2>6, <2>8 DEF owed, total, net, rest, k, j, left, view
<1>10. CASE t.todo # {c}
  <2> HIDE DEF owed, total, net, rest, k, j, left, view
  <2>1. n = (owed * net) \div total
    BY <1>7, <1>10
  <2>2. n \in Nat /\ n * total <= owed * net /\ owed * net <= n * total + (total - 1)
    BY <1>1, <1>2, <2>1, RoundedDown
  <2>3. /\ owed * rest <= (left - n) * total
        /\ (left - n) * total <= owed * rest + (j + 1) * (total - 1)
    BY <1>1, <1>2, <1>3, <1>4, <1>5, <2>2, LeftBound
  <2>4. n <= net
    <3>1. owed * net <= net * total
      BY <1>1, <1>2
    <3>2. n * total <= net * total
      <4> DEFINE a == owed * net
                 b == net * total
                 d == n * total
      <4>1. a \in Int /\ b \in Int /\ d \in Int
        BY <1>1, <1>2, <2>2
      <4>2. d <= a /\ a <= b
        BY <2>2, <3>1
      <4> HIDE DEF a, b, d
      <4>3. d <= b
        BY <4>1, <4>2
      <4> QED
        BY <4>3 DEF b, d
    <3>3. ASSUME n >= net + 1 PROVE FALSE
      <4>1. n * total >= (net + 1) * total
        BY <1>1, <1>2, <2>2, <3>3
      <4>2. (net + 1) * total = net * total + total /\ net * total \in Int /\ n * total \in Int
        BY <1>1, <1>2, <2>2
      <4> QED
        BY <1>1, <3>2, <4>1, <4>2
    <3> QED
      BY <1>2, <2>2, <3>3
  <2>5. n <= net + k - 1 /\ t.todo \ {c} # {}
    <3>1. t.todo \ {c} # {}
      BY <1>10
    <3>2. n <= net + k - 1
      BY <1>2, <1>4, <2>2, <2>4
    <3> QED
      BY <3>1, <3>2
  <2> QED
    BY <1>6, <1>8, <2>2, <2>3, <2>5 DEF owed, total, net, rest, k, j, left, view
<1> QED
  BY <1>9, <1>10

\* One creditor is paid, or gets nothing.
LEMMA CreditTurn ==
    ASSUME Inv, NEW r \in Requests, NEW p, NEW t \in Tx, Session(r, p, t), Turn(r, p, t),
           Paying(r, p, t), NEW c \in t.todo, NEW n, n = PartOf(r, t, c),
           NEW opened, opened \subseteq {c}, c \in rows \cup opened,
           NEW u \in Tx, Credited(t, u, c, Funds(c), n, opened),
           u.left = t.left - n, u.marks = t.marks, u.cost = t.cost
    PROVE  Turn(r, "pay", u)
<1>1. /\ t.view = Open /\ t.marks = {} /\ t.cost = 0
      /\ Moving(r, t) /\ HandingOut(r, t) /\ Debt(r, t) \in Nat
      /\ Me(r) \in Members /\ Me(r) # c /\ t.moves[c] = 0 /\ c \in Members
      /\ t.todo \subseteq Members
  BY PayingFacts
<1>2. LET owed == Debt(r, t)
          total == TotalCredit(t.view)
          rest == OwedTo(t.todo \ {c}, t.view)
          paid == Cardinality(Creditors(t.view)) - Cardinality(t.todo \ {c})
      IN  /\ n \in Nat /\ n <= Bound(c, t.view)
          /\ owed * rest <= (t.left - n) * total
          /\ (t.left - n) * total <= owed * rest + paid * (total - 1)
          /\ t.todo \ {c} = {} => t.left - n = 0 /\ n > 0
  BY NextPart
<1>3. n \in Nat /\ n <= Bound(c, t.view)
  BY <1>2
<1>4. /\ u.view = t.view /\ u.todo = t.todo \ {c} /\ u.copy[c] = Funds(c) + n /\ u.moves[c] = n
      /\ \A g \in Members \ {c} : u.copy[g] = t.copy[g] /\ u.moves[g] = t.moves[g]
      /\ u.dirty = t.dirty \cup {c} /\ u.written = t.written /\ u.opened = t.opened \cup opened
  BY <1>1, <1>3 DEF Credited
<1>5. Debt(r, u) = Debt(r, t) /\ Touched(u) = Touched(t) \cup {c} /\ Touched(t) \subseteq Members
  BY <1>4 DEF Debt, Touched, Tx
<1>6. Moving(r, u)
  <2>1. Touched(u) \subseteq rows \cup u.opened
    BY <1>1, <1>4, <1>5 DEF Moving
  <2>2. \A g \in Members : u.moves[g] # 0 => g \in Touched(u)
    BY <1>1, <1>4, <1>5 DEF Moving
  <2>3. \A g \in Touched(u) : u.copy[g] = Funds(g) + u.moves[g]
    BY <1>1, <1>4, <1>5 DEF Moving
  <2>4. \A g \in Members \ {Me(r)} : u.moves[g] <= Bound(g, u.view)
    BY <1>1, <1>3, <1>4 DEF Moving
  <2> QED
    BY <2>1, <2>2, <2>3, <2>4 DEF Moving
<1>7. Moved(u) = Debt(r, u) - u.left
  <2> DEFINE others == Members \ {c}
  <2>1. (\A g \in Members : t.moves[g] \in Int /\ u.moves[g] \in Int) /\ t.left \in Int
    BY DEF Tx
  <2>2. IsFiniteSet(others) /\ IsFiniteSet(Members)
    BY FiniteRows, FS_Subset
  <2>3. \A g \in others : u.moves[g] = t.moves[g]
    BY <1>4
  <2>4. /\ SumFunctionOnSet(t.moves, Members) = t.moves[c] + SumFunctionOnSet(t.moves, Members \ {c})
        /\ SumFunctionOnSet(u.moves, Members) = u.moves[c] + SumFunctionOnSet(u.moves, Members \ {c})
    BY <1>1, <2>1, <2>2, SumElement
  <2> DEFINE v == t.moves
             w == u.moves
  <2>5. \A g \in others : v[g] = w[g] /\ v[g] \in Int
    BY <2>1, <2>3
  <2> HIDE DEF others, v, w
  <2>6. SumFunctionOnSet(v, others) = SumFunctionOnSet(w, others)
    BY <2>2, <2>5, SumSame
  <2>7. SumFunctionOnSet(v, others) \in Int
    BY <2>2, <2>5, SumType
  <2>8. Moved(t) = Debt(r, t) - t.left
    BY <1>1 DEF HandingOut
  <2>9. Moved(u) = Moved(t) + n
    BY <1>1, <1>3, <1>4, <2>4, <2>6, <2>7 DEF Moved, others, v, w
  <2> QED
    BY <1>1, <1>3, <1>5, <2>1, <2>8, <2>9
<1>8. Me(r) \in rows \cup u.opened /\ u.copy[Me(r)] = Funds(Me(r))
  BY <1>1, <1>4 DEF HandingOut
<1>9. HandingOut(r, u)
  BY <1>2, <1>4, <1>5, <1>7, <1>8 DEF HandingOut
<1> QED
  BY <1>1, <1>4, <1>6, <1>9 DEF Turn

LEMMA MineTurn ==
    ASSUME Inv, Turns, NEW r \in Requests, pc[r] = "mine" \/ (pc[r] = "open" /\ tx[r].insert = Me(r)),
           NEW opened, opened \subseteq {Me(r)}, Me(r) \in rows \cup opened,
           Mine(r, Funds(Me(r)), opened)
    PROVE  Turns'
<1>1. pc[r] \in InFlight
  BY DEF InFlight
<1>2. PICK t \in Tx : /\ t = tx[r] /\ Session(r, pc[r], t) /\ Turn(r, pc[r], t)
                      /\ Me(r) \in Members /\ Owed(r) = Debt(r, t)
  BY <1>1, TurnCurrent
<1>3. /\ t.view = Open /\ t.marks = {} /\ t.cost = 0
      /\ t.view \subseteq DOMAIN expenses
      /\ Touched(t) = {} /\ \A g \in Members : t.moves[g] = 0
  BY <1>2 DEF Turn, Session
<1> DEFINE me == Me(r)
           mine == Funds(me)
           next == Decide(r, mine)
           debt == Debt(r, t)
           creditors == Creditors(t.view)
<1>4. /\ mine \in Int /\ debt \in Int /\ creditors \subseteq Members /\ IsFiniteSet(creditors)
      /\ TotalCredit(t.view) \in Int
  <2>1. mine \in Int
    BY <1>2, RequestsOf DEF Funds, Inv, TypeOK
  <2>2. creditors \subseteq Members /\ IsFiniteSet(creditors)
    BY FiniteRows, FS_Subset DEF Creditors
  <2> QED
    BY <1>3, <2>1, <2>2, DebtType, NetType DEF Inv
<1>5. CASE next = "refused"
  BY <1>1, <1>5, RollbackTurn DEF Mine, Inv
<1>6. CASE next # "refused"
  <2> DEFINE copy == [t.copy EXCEPT ![me] = mine]
             u == [t EXCEPT !.copy = copy, !.todo = creditors, !.left = debt,
                            !.opened = t.opened \cup opened, !.insert = NoRow]
  <2>1. /\ next = "commit" \/ next = "pay"
        /\ next = "pay" => 0 < debt
    BY <1>2, <1>4, <1>6 DEF Decide
  <2>2. /\ pc' = [pc EXCEPT ![r] = next] /\ UNCHANGED db
        /\ tx' = [tx EXCEPT ![r].copy[me] = mine, ![r].todo = creditors, ![r].left = debt,
                            ![r].opened = @ \cup opened, ![r].insert = NoRow]
    BY <1>2, <1>6 DEF Mine
  <2> HIDE DEF mine, next, debt, creditors, me
  <2>3. tx' = [tx EXCEPT ![r] = u]
    BY <1>2, <2>2
  <2>4. copy \in [Members -> Int]
    BY <1>2, <1>4 DEF Tx
  <2>5. copy[me] = mine
    BY <1>2 DEF Tx, me
  <2> HIDE DEF copy
  <2>6. u \in Tx
    BY <1>2, <1>4, <2>4 DEF Tx, me
  <2>7. /\ u.copy[me] = mine /\ u.moves = t.moves /\ u.view = t.view /\ u.todo = creditors
        /\ u.left = debt /\ u.marks = t.marks /\ u.cost = t.cost
        /\ u.dirty = t.dirty /\ u.written = t.written /\ u.opened = t.opened \cup opened
    BY <2>5 DEF Tx
  <2> HIDE DEF u
  <2>8. Touched(u) = opened /\ t.opened = {} /\ u.opened = opened
    BY <1>3, <2>7 DEF Touched
  <2>9. Debt(r, u) = debt
    BY <2>7 DEF Debt, debt
  <2>10. /\ \A g \in Members : u.moves[g] = 0
         /\ opened \subseteq {me} /\ me \in rows \cup opened /\ me \in Members
    BY <1>2, <1>3, <2>7 DEF me
  <2>11. Moving(r, u)
    <3>1. ASSUME NEW g \in Members PROVE 0 <= Bound(g, u.view)
      <4>1. CASE g \notin Creditors(u.view)
        BY <4>1 DEF Bound
      <4>2. CASE g \in Creditors(u.view)
        <5> DEFINE C == Creditors(u.view)
        <5>1. IsFiniteSet(C) /\ C # {}
          BY <1>4, <2>7, <4>2 DEF creditors
        <5> HIDE DEF C
        <5>2. Cardinality(C) \in Nat /\ Cardinality(C) # 0
          BY <5>1, FS_CardinalityType, FS_EmptySet
        <5>3. Net(g, u.view) > 0 /\ Net(g, u.view) \in Int
          BY <1>3, <2>7, <4>2, NetType DEF Creditors, Inv
        <5>4. 0 <= Net(g, u.view) + Cardinality(C) - 1
          BY <5>2, <5>3
        <5> QED
          BY <4>2, <5>4 DEF Bound, C
      <4> QED
        BY <4>1, <4>2
    <3>2. \A g \in Touched(u) : u.copy[g] = Funds(g) + u.moves[g]
      BY <1>4, <2>7, <2>8, <2>10 DEF mine
    <3> QED
      BY <2>8, <2>10, <3>1, <3>2 DEF Moving
  <2>12. next = "commit" => Turn(r, next, u)
    BY <1>3, <2>7, <2>10, <2>11 DEF Turn, Paying
  <2>13. ASSUME next = "pay" PROVE Turn(r, "pay", u)
    <3>1. 0 < debt /\ debt <= TotalCredit(t.view)
      <4>1. Net(me, t.view) < 0 /\ Net(me, t.view) \in Int /\ debt = -Net(me, t.view)
        BY <1>3, <2>1, <2>13, NetType DEF debt, Debt, me, Inv
      <4> QED
        BY <1>3, <2>1, <2>10, <2>13, <4>1, CreditCovers DEF Inv
    <3>2. creditors # {}
      <4>1. creditors = {} => TotalCredit(t.view) = 0
        BY FS_EmptySet, SumFirst DEF creditors, TotalCredit
      <4> QED
        BY <1>4, <3>1, <4>1
    <3>3. OwedTo(u.todo, u.view) = TotalCredit(t.view)
      BY <2>7 DEF OwedTo, TotalCredit, creditors
    <3>4. Moved(u) = 0
      BY <2>10, FiniteRows, SumZero DEF Moved
    <3> DEFINE total == TotalCredit(t.view)
               k == Cardinality(creditors)
    <3>5. k \in Nat
      BY <1>4, FS_CardinalityType
    <3>6. debt * total <= debt * total + (k - k) * (total - 1)
      <4> DEFINE a == debt * total
      <4>1. a \in Int
        BY <1>4
      <4>2. (k - k) * (total - 1) = 0
        BY <1>4, <3>5
      <4> HIDE DEF a
      <4>3. a <= a + 0
        BY <4>1
      <4> QED
        BY <4>2, <4>3 DEF a
    <3>7. Moved(u) = debt - debt
      BY <1>4, <3>4
    <3>8. /\ Me(r) \in rows \cup u.opened /\ u.copy[Me(r)] = Funds(Me(r))
          /\ u.todo = creditors /\ Creditors(u.view) = creditors /\ TotalCredit(u.view) = total
          /\ u.left = debt /\ Debt(r, u) = debt /\ OwedTo(u.todo, u.view) = total
      BY <2>7, <2>8, <2>9, <2>10, <3>3 DEF me, mine, creditors
    <3>9. debt * total <= debt * total
      BY <1>4
    <3> HIDE DEF total, k
    <3>10. HandingOut(r, u)
      BY <3>2, <3>6, <3>7, <3>8, <3>9 DEF HandingOut, k
    <3> QED
      BY <1>3, <2>7, <2>11, <3>10 DEF Turn
  <2>14. Turn(r, next, u) /\ next \in Stages
    BY <2>1, <2>12, <2>13 DEF Stages, InFlight
  <2> QED
    BY <1>1, <2>2, <2>3, <2>6, <2>14, TurnStep DEF Inv
<1> QED
  BY <1>5, <1>6

LEMMA EnsureMineTurn == ASSUME Inv, Turns, NEW r \in Requests, EnsureMine(r) PROVE Turns'
<1>1. pc[r] = "mine" /\ pc[r] \in InFlight
  BY DEF EnsureMine, InFlight
<1>2. PICK t \in Tx : t = tx[r] /\ Session(r, pc[r], t) /\ Turn(r, pc[r], t)
  BY <1>1, TurnCurrent
<1>3. CASE Me(r) \in rows
  <2>1. balance[Me(r)] = Funds(Me(r))
    BY <1>3 DEF Funds
  <2>2. Mine(r, balance[Me(r)], {})
    BY <1>3 DEF EnsureMine
  <2> QED
    BY <1>1, <1>3, <2>1, <2>2, MineTurn
<1>4. CASE Me(r) \notin rows
  <2> DEFINE u == [t EXCEPT !.insert = Me(r)]
  <2>1. /\ tx' = [tx EXCEPT ![r] = u] /\ pc' = [pc EXCEPT ![r] = "open"] /\ UNCHANGED db
    BY <1>2, <1>4 DEF EnsureMine
  <2>2. u \in Tx /\ u.view = t.view /\ u.marks = t.marks /\ u.cost = t.cost /\ u.insert = Me(r)
    BY RequestsOf DEF Tx
  <2> HIDE DEF u
  <2>3. Turn(r, "open", u)
    BY <1>1, <1>2, <2>2 DEF Turn, Paying
  <2>4. "open" \in Stages
    BY DEF Stages, InFlight
  <2> QED
    BY <1>1, <2>1, <2>2, <2>3, <2>4, TurnStep DEF Inv
<1> QED
  BY <1>3, <1>4

LEMMA PayCreditorTurn == ASSUME Inv, Turns, NEW r \in Requests, PayCreditor(r) PROVE Turns'
<1>1. pc[r] = "pay" /\ pc[r] \in InFlight
  BY DEF PayCreditor, InFlight
<1>2. PICK t \in Tx : /\ t = tx[r] /\ Session(r, "pay", t) /\ Turn(r, "pay", t) /\ pc[r] = "pay"
                      /\ Me(r) \in Members /\ \A c : Part(r, c) = PartOf(r, t, c)
  <2>1. PICK t \in Tx : /\ t = tx[r] /\ Session(r, pc[r], t) /\ Turn(r, pc[r], t)
                        /\ Me(r) \in Members /\ \A c : Part(r, c) = PartOf(r, t, c)
    BY <1>1, TurnCurrent
  <2> QED
    BY <1>1, <2>1
<1>3. /\ Paying(r, "pay", t) /\ t.insert = NoRow /\ UNCHANGED db
  BY <1>1, <1>2 DEF PayCreditor, Paying, Session
<1>4. PICK c \in t.todo :
         LET n == PartOf(r, t, c) IN
         \/ n <= 0 /\ tx' = [tx EXCEPT ![r].todo = @ \ {c}] /\ pc' = pc
         \/ n > 0 /\ c \in rows /\ tx' = [tx EXCEPT ![r] = Credit(r, c, balance[c], n)] /\ pc' = pc
         \/ /\ n > 0 /\ c \notin rows
            /\ tx' = [tx EXCEPT ![r].insert = c, ![r].pending = t.dirty]
            /\ pc' = [pc EXCEPT ![r] = "open"]
  BY <1>2 DEF PayCreditor
<1> DEFINE n == PartOf(r, t, c)
<1>5. /\ t.view = Open /\ t.marks = {} /\ t.cost = 0 /\ c \in Members /\ Me(r) # c
      /\ t.todo \subseteq Members /\ t.moves[c] = 0 /\ Moving(r, t) /\ HandingOut(r, t)
      /\ t.dirty \subseteq Members
  BY <1>2, <1>3, PayingFacts DEF Tx
<1>6. n \in Nat /\ (t.todo \ {c} = {} => n > 0)
  BY <1>2, <1>3, NextPart
<1>7. "pay" \in Stages /\ "open" \in Stages
  BY DEF Stages, InFlight
<1>8. CASE n <= 0 /\ tx' = [tx EXCEPT ![r].todo = @ \ {c}] /\ pc' = pc
  <2> DEFINE u == [t EXCEPT !.todo = t.todo \ {c}]
  <2>1. pc' = [pc EXCEPT ![r] = "pay"] /\ tx' = [tx EXCEPT ![r] = u]
    BY <1>1, <1>2, <1>8 DEF Inv, TypeOK
  <2>2. /\ u \in Tx /\ u.view = t.view /\ u.moves = t.moves /\ u.copy = t.copy
        /\ u.dirty = t.dirty /\ u.written = t.written /\ u.opened = t.opened
        /\ u.todo = t.todo \ {c} /\ u.left = t.left /\ u.marks = t.marks /\ u.cost = t.cost
    BY <1>5 DEF Tx
  <2> HIDE DEF u
  <2>3. n = 0 /\ t.left - n = t.left
    BY <1>6, <1>8 DEF Tx
  <2>4. LET owed == Debt(r, t)
            total == TotalCredit(t.view)
            rest == OwedTo(t.todo \ {c}, t.view)
            paid == Cardinality(Creditors(t.view)) - Cardinality(t.todo \ {c})
        IN  /\ owed * rest <= (t.left - n) * total
            /\ (t.left - n) * total <= owed * rest + paid * (total - 1)
            /\ t.todo \ {c} = {} => t.left - n = 0 /\ n > 0
    BY <1>2, <1>3, NextPart
  <2>5. Debt(r, u) = Debt(r, t) /\ Touched(u) = Touched(t) /\ Moved(u) = Moved(t)
    BY <2>2 DEF Debt, Touched, Moved
  <2>6. Moving(r, u)
    BY <1>5, <2>2, <2>5 DEF Moving
  <2> HIDE DEF n
  <2>7. HandingOut(r, u)
    BY <1>5, <2>2, <2>3, <2>4, <2>5 DEF HandingOut
  <2>8. Turn(r, "pay", u)
    BY <1>5, <2>2, <2>6, <2>7 DEF Turn
  <2> QED
    BY <1>1, <1>3, <1>7, <2>1, <2>2, <2>8, TurnStep DEF Inv
<1>9. CASE n > 0 /\ c \in rows /\ tx' = [tx EXCEPT ![r] = Credit(r, c, balance[c], n)] /\ pc' = pc
  <2> HIDE DEF n
  <2> DEFINE copy == [t.copy EXCEPT ![c] = balance[c] + n]
             moves == [t.moves EXCEPT ![c] = t.moves[c] + n]
             left == t.left - n
             u == [t EXCEPT !.todo = t.todo \ {c}, !.left = left, !.copy = copy,
                            !.moves = moves, !.dirty = t.dirty \cup {c}]
  <2>1. pc' = [pc EXCEPT ![r] = "pay"]
    BY <1>1, <1>9 DEF Inv, TypeOK
  <2>2. tx' = [tx EXCEPT ![r] = u]
    BY <1>2, <1>9 DEF Credit
  <2>3. balance[c] \in Nat /\ balance[c] = Funds(c)
    BY <1>9, RowsWithin DEF Funds
  <2>4. copy \in [Members -> Int] /\ moves \in [Members -> Int] /\ left \in Int
    BY <1>6, <2>3 DEF Tx
  <2>5. /\ copy[c] = Funds(c) + n /\ moves[c] = t.moves[c] + n
        /\ \A g \in Members \ {c} : copy[g] = t.copy[g] /\ moves[g] = t.moves[g]
    BY <1>5, <2>3 DEF Tx
  <2> HIDE DEF copy, moves
  <2>6. u \in Tx
    BY <1>5, <2>4 DEF Tx
  <2>7. /\ u.view = t.view /\ u.todo = t.todo \ {c} /\ u.copy = copy /\ u.moves = moves
        /\ u.dirty = t.dirty \cup {c} /\ u.written = t.written /\ u.opened = t.opened \cup {}
        /\ u.pending = t.pending /\ u.insert = NoRow
        /\ u.left = t.left - n /\ u.marks = t.marks /\ u.cost = t.cost
    BY <1>3 DEF Tx
  <2> HIDE DEF u, left
  <2>8. Credited(t, u, c, Funds(c), n, {})
    BY <2>5, <2>7 DEF Credited
  <2>9. Turn(r, "pay", u)
    BY <1>2, <1>3, <1>9, <2>6, <2>7, <2>8, CreditTurn DEF n
  <2> QED
    BY <1>1, <1>3, <1>7, <2>1, <2>2, <2>6, <2>9, TurnStep DEF Inv
<1>10. CASE /\ n > 0 /\ c \notin rows
            /\ tx' = [tx EXCEPT ![r].insert = c, ![r].pending = t.dirty]
            /\ pc' = [pc EXCEPT ![r] = "open"]
  <2> DEFINE u == [t EXCEPT !.insert = c, !.pending = t.dirty]
  <2>1. tx' = [tx EXCEPT ![r] = u]
    BY <1>2, <1>10
  <2>2. /\ u \in Tx /\ u.view = t.view /\ u.moves = t.moves /\ u.copy = t.copy
        /\ u.dirty = t.dirty /\ u.written = t.written /\ u.opened = t.opened /\ u.insert = c
        /\ u.todo = t.todo /\ u.left = t.left /\ u.marks = t.marks /\ u.cost = t.cost
    BY <1>5 DEF Tx, Rows
  <2> HIDE DEF u
  <2>3. Debt(r, u) = Debt(r, t) /\ Touched(u) = Touched(t) /\ Moved(u) = Moved(t)
    BY <2>2 DEF Debt, Touched, Moved
  <2>4. Moving(r, u)
    BY <1>5, <2>2, <2>3 DEF Moving
  <2>5. HandingOut(r, u)
    BY <1>5, <2>2, <2>3 DEF HandingOut
  <2>6. Turn(r, "open", u)
    BY <1>5, <2>2, <2>4, <2>5 DEF Turn
  <2> QED
    BY <1>1, <1>3, <1>7, <1>10, <2>1, <2>2, <2>6, TurnStep DEF Inv
<1> QED
  BY <1>4, <1>8, <1>9, <1>10 DEF n

LEMMA OpenBudgetTurn == ASSUME Inv, Turns, NEW r \in Requests, OpenBudget(r) PROVE Turns'
<1>1. pc[r] = "open" /\ pc[r] \in InFlight
  BY DEF OpenBudget, InFlight
<1>2. PICK t \in Tx : /\ t = tx[r] /\ Session(r, "open", t) /\ Turn(r, "open", t)
                      /\ Me(r) \in Members /\ \A c : Part(r, c) = PartOf(r, t, c)
  <2>1. PICK t \in Tx : /\ t = tx[r] /\ Session(r, pc[r], t) /\ Turn(r, pc[r], t)
                        /\ Me(r) \in Members /\ \A c : Part(r, c) = PartOf(r, t, c)
    BY <1>1, TurnCurrent
  <2> QED
    BY <1>1, <2>1
<1>3. t.insert # NoRow /\ t.insert \in Members
  BY <1>2 DEF Session, Tx
<1> DEFINE g == t.insert
<1>4. CASE g \in rows
  <2>1. Rollback(r, "failed")
    BY <1>2, <1>4 DEF OpenBudget
  <2> QED
    BY <1>1, <2>1, RollbackTurn DEF Inv
<1>5. CASE g \notin rows /\ g = Me(r)
  <2>1. Mine(r, InitialBudget, {Me(r)})
    BY <1>2, <1>5 DEF OpenBudget
  <2>2. Funds(Me(r)) = InitialBudget
    BY <1>5 DEF Funds
  <2>3. pc[r] = "open" /\ tx[r].insert = Me(r) /\ Me(r) \in rows \cup {Me(r)}
    BY <1>1, <1>2, <1>5
  <2>4. Mine(r, Funds(Me(r)), {Me(r)})
    BY <2>1, <2>2
  <2> QED
    BY <2>3, <2>4, MineTurn
<1>6. CASE g \notin rows /\ g # Me(r)
  <2> DEFINE n == PartOf(r, t, g)
  <2>1. /\ tx' = [tx EXCEPT ![r] = [Credit(r, g, InitialBudget, n) EXCEPT
                                       !.opened = @ \cup {g}, !.insert = NoRow]]
        /\ pc' = [pc EXCEPT ![r] = "pay"] /\ UNCHANGED db
    BY <1>2, <1>6 DEF OpenBudget
  <2>2. Paying(r, "open", t)
    BY <1>6 DEF Paying
  <2>3. g \in t.todo
    BY <1>2, <2>2 DEF Session
  <2>4. n \in Nat
    BY <1>2, <2>2, <2>3, NextPart
  <2>5. Funds(g) = InitialBudget /\ InitialBudget \in Nat
    BY <1>6, RequestsOf DEF Funds
  <2> HIDE DEF n
  <2> DEFINE copy == [t.copy EXCEPT ![g] = InitialBudget + n]
             moves == [t.moves EXCEPT ![g] = t.moves[g] + n]
             left == t.left - n
             u == [t EXCEPT !.todo = t.todo \ {g}, !.left = left, !.copy = copy,
                            !.moves = moves, !.dirty = t.dirty \cup {g},
                            !.opened = t.opened \cup {g}, !.insert = NoRow]
  <2>6. tx' = [tx EXCEPT ![r] = u]
    BY <1>2, <2>1 DEF Credit
  <2>7. copy \in [Members -> Int] /\ moves \in [Members -> Int] /\ left \in Int
    <3>1. InitialBudget + n \in Int /\ t.moves[g] + n \in Int /\ t.left - n \in Int
      BY <1>3, <2>4, <2>5 DEF Tx
    <3>2. t.copy \in [Members -> Int] /\ t.moves \in [Members -> Int]
      BY DEF Tx
    <3> QED
      BY <3>1, <3>2
  <2>8. /\ copy[g] = Funds(g) + n /\ moves[g] = t.moves[g] + n
        /\ \A c \in Members \ {g} : copy[c] = t.copy[c] /\ moves[c] = t.moves[c]
    BY <1>3, <2>5 DEF Tx
  <2> HIDE DEF copy, moves
  <2>9. u \in Tx
    BY <1>3, <2>7 DEF Tx
  <2>10. /\ u.view = t.view /\ u.todo = t.todo \ {g} /\ u.copy = copy /\ u.moves = moves
         /\ u.dirty = t.dirty \cup {g} /\ u.written = t.written /\ u.opened = t.opened \cup {g}
         /\ u.pending = t.pending /\ u.insert = NoRow
         /\ u.left = t.left - n /\ u.marks = t.marks /\ u.cost = t.cost
    BY DEF Tx
  <2> HIDE DEF u, left
  <2>11. Credited(t, u, g, Funds(g), n, {g})
    BY <2>8, <2>10 DEF Credited
  <2>12. Turn(r, "pay", u)
    <3> DEFINE opened == {g}
    <3>1. opened \subseteq {g} /\ g \in rows \cup opened /\ Credited(t, u, g, Funds(g), n, opened)
      BY <2>11
    <3>2. n = PartOf(r, t, g)
      BY DEF n
    <3> HIDE DEF opened
    <3> QED
      BY <1>2, <2>2, <2>3, <2>9, <2>10, <3>1, <3>2, CreditTurn
  <2>13. "pay" \in Stages
    BY DEF Stages, InFlight
  <2> QED
    BY <1>1, <2>1, <2>6, <2>9, <2>12, <2>13, TurnStep DEF Inv
<1> QED
  BY <1>4, <1>5, <1>6

LEMMA MarkTurn == ASSUME Inv, Turns, NEW r \in Requests, Mark(r) PROVE Turns'
<1>1. pc[r] = "pay" /\ pc[r] \in InFlight
  BY DEF Mark, InFlight
<1>2. PICK t \in Tx : /\ t = tx[r] /\ Session(r, "pay", t) /\ Turn(r, "pay", t)
                      /\ Me(r) \in Members /\ Owed(r) = Debt(r, t)
  <2>1. PICK t \in Tx : /\ t = tx[r] /\ Session(r, pc[r], t) /\ Turn(r, pc[r], t)
                        /\ Me(r) \in Members /\ Owed(r) = Debt(r, t)
    BY <1>1, TurnCurrent
  <2> QED
    BY <1>1, <2>1
<1>3. Paying(r, "pay", t)
  BY DEF Paying
<1>4. /\ t.view = Open /\ t.cost = 0 /\ Moving(r, t) /\ HandingOut(r, t)
      /\ 0 < Debt(r, t) /\ Debt(r, t) \in Nat /\ Debt(r, t) <= t.copy[Me(r)]
      /\ t.moves[Me(r)] = 0
  BY <1>2, <1>3, PayingFacts
<1>5. t.todo = {} /\ t.left = 0 /\ t.copy[Me(r)] = Funds(Me(r)) /\ Me(r) \in rows \cup t.opened
  BY <1>2, <1>4 DEF Mark, HandingOut
<1> DEFINE debt == Debt(r, t)
<1> HIDE DEF debt
<1> DEFINE less == t.copy[Me(r)] - debt
           moved == t.moves[Me(r)] - debt
           copy == [t.copy EXCEPT ![Me(r)] = less]
           moves == [t.moves EXCEPT ![Me(r)] = moved]
           lock == Open \cup t.dirty \cup {Me(r)}
           u == [t EXCEPT !.marks = Open, !.copy = copy, !.moves = moves,
                          !.dirty = t.dirty \cup {Me(r)}, !.pending = lock]
<1>6. /\ tx' = [tx EXCEPT ![r] = u] /\ pc' = [pc EXCEPT ![r] = "flush"] /\ UNCHANGED db
  <2>1. /\ tx' = [tx EXCEPT ![r] = [tx[r] EXCEPT !.marks = Open,
                                                 !.copy[Me(r)] = @ - Owed(r),
                                                 !.moves[Me(r)] = @ - Owed(r),
                                                 !.dirty = @ \cup {Me(r)},
                                                 !.pending = Open \cup tx[r].dirty \cup {Me(r)}]]
        /\ pc' = [pc EXCEPT ![r] = "flush"] /\ UNCHANGED db
    BY DEF Mark
  <2>2. tx[r] = t /\ Owed(r) = debt
    BY <1>2 DEF debt
  <2>3. tx' = [tx EXCEPT ![r] = [t EXCEPT !.marks = Open,
                                         !.copy[Me(r)] = less,
                                         !.moves[Me(r)] = moved,
                                         !.dirty = t.dirty \cup {Me(r)},
                                         !.pending = lock]]
    BY <2>1, <2>2
  <2> HIDE DEF less, moved, lock
  <2> QED
    BY <2>1, <2>3 DEF Tx
<1>7. /\ debt \in Nat /\ 0 < debt /\ less \in Int /\ moved \in Int /\ moved = -debt
      /\ less = Funds(Me(r)) + moved
      /\ debt <= Funds(Me(r))
  <2>1. t.copy[Me(r)] \in Int
    BY <1>2 DEF Tx
  <2> QED
    BY <1>4, <1>5, <2>1 DEF debt
<1> HIDE DEF less, moved
<1>8. /\ copy \in [Members -> Int] /\ moves \in [Members -> Int]
      /\ copy[Me(r)] = less /\ moves[Me(r)] = moved
      /\ \A g \in Members \ {Me(r)} : copy[g] = t.copy[g] /\ moves[g] = t.moves[g]
  BY <1>2, <1>7 DEF Tx
<1>9. Open \subseteq ExpenseIds /\ lock \subseteq Rows
  <2>1. Open \subseteq ExpenseIds
    BY DEF Open, Inv, TypeOK
  <2> QED
    BY <1>2, <2>1 DEF Rows, Tx
<1>10. t.dirty \cup {Me(r)} \subseteq lock
  OBVIOUS
<1> HIDE DEF copy, moves, lock
<1>11. u \in Tx
  BY <1>2, <1>8, <1>9 DEF Tx
<1>12. /\ u.view = t.view /\ u.copy = copy /\ u.moves = moves /\ u.dirty = t.dirty \cup {Me(r)}
       /\ u.written = t.written /\ u.opened = t.opened /\ u.pending = lock
       /\ u.marks = Open /\ u.cost = t.cost
  BY DEF Tx
<1> HIDE DEF u
<1>13. /\ Touched(u) = Touched(t) \cup {Me(r)} /\ Touched(t) \subseteq Members /\ Debt(r, u) = debt
  BY <1>12 DEF Touched, Tx, Debt, debt
<1>14. Moving(r, u)
  <2>1. Touched(u) \subseteq rows \cup u.opened
    BY <1>4, <1>5, <1>12, <1>13 DEF Moving
  <2>2. \A g \in Members : u.moves[g] # 0 => g \in Touched(u)
    BY <1>4, <1>8, <1>12, <1>13 DEF Moving
  <2>3. \A g \in Touched(u) : u.copy[g] = Funds(g) + u.moves[g]
    BY <1>4, <1>7, <1>8, <1>12, <1>13 DEF Moving
  <2>4. \A g \in Members \ {Me(r)} : u.moves[g] <= Bound(g, u.view)
    BY <1>4, <1>8, <1>12 DEF Moving
  <2> QED
    BY <2>1, <2>2, <2>3, <2>4 DEF Moving
<1>15. Moved(u) = 0
  <2> DEFINE others == Members \ {Me(r)}
             v == t.moves
             w == u.moves
  <2>1. \A g \in Members : v[g] \in Int /\ w[g] \in Int
    BY <1>8, <1>12 DEF Tx
  <2>2. IsFiniteSet(others) /\ IsFiniteSet(Members)
    BY FiniteRows, FS_Subset
  <2>3. \A g \in others : v[g] = w[g] /\ v[g] \in Int
    BY <1>8, <1>12, <2>1
  <2>4. v[Me(r)] = 0 /\ w[Me(r)] = -debt
    BY <1>4, <1>7, <1>8, <1>12
  <2> HIDE DEF v, w
  <2>5. /\ SumFunctionOnSet(v, Members) = v[Me(r)] + SumFunctionOnSet(v, Members \ {Me(r)})
        /\ SumFunctionOnSet(w, Members) = w[Me(r)] + SumFunctionOnSet(w, Members \ {Me(r)})
    BY <1>2, <2>1, <2>2, SumElement
  <2>6. SumFunctionOnSet(v, others) = SumFunctionOnSet(w, others) /\ SumFunctionOnSet(v, others) \in Int
    <3> HIDE DEF others
    <3> QED
      BY <2>2, <2>3, SumSame, SumType
  <2>7. SumFunctionOnSet(v, Members) = debt
    BY <1>4, <1>5, <1>7 DEF HandingOut, Moved, v, debt
  <2>8. SumFunctionOnSet(w, Members) = 0
    BY <1>7, <2>4, <2>5, <2>6, <2>7
  <2> QED
    BY <2>8 DEF Moved, w
<1>16. Settled(r, u)
  BY <1>4, <1>7, <1>8, <1>12, <1>13, <1>14, <1>15 DEF Settled
<1>17. Turn(r, "flush", u)
  BY <1>10, <1>12, <1>16 DEF Turn, Paying
<1>18. "flush" \in Stages
  BY DEF Stages, InFlight
<1> QED
  BY <1>1, <1>6, <1>11, <1>17, <1>18, TurnStep DEF Inv

LEMMA FlushRowTurn == ASSUME Inv, Turns, NEW r \in Requests, FlushRow(r) PROVE Turns'
<1>1. pc[r] \in {"open", "flush"} /\ pc[r] \in InFlight
  BY DEF FlushRow, InFlight
<1>2. PICK t \in Tx : t = tx[r] /\ Session(r, pc[r], t) /\ Turn(r, pc[r], t)
  BY <1>1, TurnCurrent
<1>3. t.pending # {} /\ t.pending \subseteq Rows
  BY <1>2 DEF FlushRow, Tx
<1> DEFINE x == Min(t.pending)
           p == IF pc[r] = "flush" /\ t.pending = {x} THEN "commit" ELSE pc[r]
           u == [t EXCEPT !.pending = t.pending \ {x}, !.dirty = t.dirty \ {x},
                          !.written = t.written \cup ({x} \cap Members)]
<1>4. x \in t.pending
  BY <1>3, FiniteRows, MinOf
<1>5. tx' = [tx EXCEPT ![r] = u] /\ pc' = [pc EXCEPT ![r] = p] /\ UNCHANGED db
  <2>1. /\ tx' = [tx EXCEPT ![r].pending = @ \ {x}, ![r].dirty = @ \ {x},
                            ![r].written = @ \cup ({x} \cap Members)]
        /\ pc' = [pc EXCEPT ![r] = IF pc[r] = "flush" /\ tx[r].pending = {x} THEN "commit" ELSE @]
        /\ UNCHANGED db
    BY <1>2 DEF FlushRow, NextRow
  <2> HIDE DEF x
  <2>2. tx' = [tx EXCEPT ![r] = u]
    BY <1>2, <2>1 DEF Tx
  <2> QED
    BY <1>2, <2>1, <2>2
<1> HIDE DEF x
<1>6. u \in Tx
  BY DEF Tx
<1>7. /\ u.view = t.view /\ u.copy = t.copy /\ u.moves = t.moves /\ u.todo = t.todo /\ u.left = t.left
      /\ u.opened = t.opened /\ u.insert = t.insert /\ u.pending = t.pending \ {x}
      /\ u.dirty = t.dirty \ {x} /\ u.written = t.written \cup ({x} \cap Members)
      /\ u.marks = t.marks /\ u.cost = t.cost
  BY DEF Tx
<1> HIDE DEF u
<1>8. t.pending \cap Members \subseteq t.dirty /\ t.dirty \subseteq Members
  BY <1>2 DEF Session, Tx
<1>9. Touched(u) = Touched(t) /\ Moved(u) = Moved(t) /\ Debt(r, u) = Debt(r, t)
  BY <1>4, <1>7, <1>8 DEF Touched, Moved, Debt
<1>10. Moving(r, t) => Moving(r, u)
  BY <1>7, <1>9 DEF Moving
<1>11. HandingOut(r, t) => HandingOut(r, u)
  BY <1>7, <1>9 DEF HandingOut
<1>12. Settled(r, t) => Settled(r, u)
  BY <1>7, <1>9, <1>10 DEF Settled
<1>13. CASE pc[r] = "open"
  <2>1. p = "open" /\ (Paying(r, "open", u) => Paying(r, "open", t))
    BY <1>7, <1>13 DEF Paying
  <2>2. Turn(r, "open", t)
    BY <1>2, <1>13
  <2>3. Turn(r, "open", u)
    BY <1>7, <1>10, <1>11, <2>1, <2>2 DEF Turn
  <2>4. "open" \in Stages
    BY DEF Stages, InFlight
  <2> QED
    BY <1>1, <1>5, <1>6, <2>1, <2>3, <2>4, TurnStep DEF Inv
<1>14. CASE pc[r] = "flush"
  <2>1. Turn(r, "flush", t)
    BY <1>2, <1>14
  <2>2. Settled(r, t) /\ t.dirty \subseteq t.pending
    BY <2>1 DEF Turn
  <2>3. CASE t.pending = {x}
    <3>1. p = "commit" /\ u.dirty = {}
      BY <1>7, <1>14, <2>2, <2>3
    <3>2. Turn(r, "commit", u)
      BY <1>12, <2>2, <3>1 DEF Turn, Paying
    <3>3. "commit" \in Stages
      BY DEF Stages, InFlight
    <3> QED
      BY <1>1, <1>5, <1>6, <3>1, <3>2, <3>3, TurnStep DEF Inv
  <2>4. CASE t.pending # {x}
    <3>1. p = "flush" /\ u.dirty \subseteq u.pending
      BY <1>7, <1>14, <2>2, <2>4
    <3>2. Turn(r, "flush", u)
      BY <1>12, <2>2, <3>1 DEF Turn, Paying
    <3>3. "flush" \in Stages
      BY DEF Stages, InFlight
    <3> QED
      BY <1>1, <1>5, <1>6, <3>1, <3>2, <3>3, TurnStep DEF Inv
  <2> QED
    BY <2>3, <2>4
<1> QED
  BY <1>1, <1>13, <1>14

LEMMA CommitTurn == ASSUME Inv, Turns, NEW r \in Requests, Commit(r) PROVE Turns'
<1>1. pc[r] \in InFlight /\ pc' = [pc EXCEPT ![r] = "done"] /\ "done" \in Answered
  BY DEF Commit, InFlight, Answered
<1> QED
  BY <1>1, TurnOver DEF Inv

LEMMA FailTurn == ASSUME Inv, Turns, NEW r \in Requests, Fail(r) PROVE Turns'
<1>1. pc[r] \in InFlight /\ Rollback(r, "failed")
  BY DEF Fail
<1> QED
  BY <1>1, RollbackTurn DEF Inv

LEMMA DeadlockVictimTurn == ASSUME Inv, Turns, NEW r \in Requests, DeadlockVictim(r) PROVE Turns'
<1>1. PICK S \in SUBSET Requests : r \in S /\ Deadlock(S)
  BY DEF DeadlockVictim
<1>2. PICK q \in S : BlockedBy(r, q)
  BY <1>1 DEF Deadlock
<1>3. pc[r] \in InFlight
  BY <1>2 DEF BlockedBy, Wanted, InFlight
<1>4. Rollback(r, "failed")
  BY DEF DeadlockVictim
<1> QED
  BY <1>3, <1>4, RollbackTurn DEF Inv

LEMMA BootTurn == ASSUME Inv, Turns, Boot PROVE Turns'
<1>1. \A q \in Requests : pc'[q] \notin InFlight
  BY DEF Boot, InFlight
<1> QED
  BY <1>1 DEF Turns, Alone

LEMMA StutterTurn == ASSUME Inv, Turns, UNCHANGED vars PROVE Turns'
<1>1. UNCHANGED db /\ pc' = pc /\ tx' = tx
  BY DEF vars
<1>2. ASSUME NEW r \in Requests, NEW p \in InFlight, NEW t \in Tx, pc'[r] = p, tx'[r] = t
      PROVE  Turn(r, p, t)'
  <2>1. Turn(r, p, t)
    BY <1>1, <1>2 DEF Turns
  <2> QED
    BY <1>1, <2>1, TurnKept
<1> QED
  BY <1>1, <1>2 DEF Turns, Alone

\* Requests that take turns find the database as their own transaction knows it.
LEMMA TurnInvariance == ASSUME MaxInFlight = 1 PROVE Spec => []Turns
<1>1. Init => Turns
  BY DEF Init, Turns, Alone, InFlight
<1>2. Inv /\ Turns /\ [Next]_vars => Turns'
  <2> SUFFICES ASSUME Inv, Turns, [Next]_vars PROVE Turns'
    OBVIOUS
  <2>1. ASSUME NEW r \in Requests, AddExpense(r) PROVE Turns'
    BY <2>1, AddExpenseTurn
  <2>2. ASSUME NEW r \in Requests, ReceiveSettle(r) PROVE Turns'
    BY <2>2, ReceiveSettleTurn
  <2>3. ASSUME NEW r \in Requests, Proceed(r) PROVE Turns'
    <3>1. CASE View(r)
      BY <3>1, ViewTurn
    <3>2. CASE EnsureMine(r)
      BY <3>2, EnsureMineTurn
    <3>3. CASE PayCreditor(r)
      BY <3>3, PayCreditorTurn
    <3>4. CASE OpenBudget(r)
      BY <3>4, OpenBudgetTurn
    <3>5. CASE Mark(r)
      BY <3>5, MarkTurn
    <3>6. CASE FlushRow(r)
      BY <3>6, FlushRowTurn
    <3>7. CASE Commit(r)
      BY <3>7, CommitTurn
    <3>8. CASE DeadlockVictim(r)
      BY <3>8, DeadlockVictimTurn
    <3> QED
      BY <2>3, <3>1, <3>2, <3>3, <3>4, <3>5, <3>6, <3>7, <3>8 DEF Proceed
  <2>4. ASSUME NEW r \in Requests, Fail(r) PROVE Turns'
    BY <2>4, FailTurn
  <2>5. CASE Boot
    BY <2>5, BootTurn
  <2>6. CASE UNCHANGED vars
    BY <2>6, StutterTurn
  <2> QED
    BY <2>1, <2>2, <2>3, <2>4, <2>5, <2>6 DEF Next
<1> QED
  BY <1>1, <1>2, Invariance, PTL DEF Spec

-----------------------------------------------------------------------------
(* A settlement is one step of the tab *)

\* The tab counts and sums as SettleUp does.
LEMMA TabSums ==
    /\ \A S : TabSpec!Cardinality(S) = Cardinality(S)
    /\ \A f : TabSpec!SumFunction(f) = SumFunctionOnSet(f, DOMAIN f)
<1>1. \A S : TabSpec!Cardinality(S) = Cardinality(S)
  BY DEF TabSpec!Cardinality, Cardinality
<1>2. ASSUME NEW S, NEW f PROVE TabSpec!SumFunctionOnSet(f, S) = SumFunctionOnSet(f, S)
  BY DEF TabSpec!SumFunctionOnSet, TabSpec!FoldFunctionOnSet, TabSpec!MapThenFoldSet,
         SumFunctionOnSet, FoldFunctionOnSet, MapThenFoldSet
<1> QED
  BY <1>1, <1>2 DEF TabSpec!SumFunction

\* The round of the tab is the round of the open expenses.
LEMMA RoundIs ==
    ASSUME TypeOK
    PROVE  /\ \A g : g \in Members => TabSpec!Net(g) = Net(g, Open)
           /\ TabSpec!Creditors = Creditors(Open)
<1> DEFINE v == [g \in Members |-> Paid(g, Open)]
<1>1. SumFunctionOnSet(v, Members) = Unsettled(Open)
  BY AllPaid DEF Open
<1>2. TabSpec!SumFunction(v) = SumFunctionOnSet(v, Members)
  BY TabSums
<1>3. TabSpec!Share = Unsettled(Open) \div Cardinality(Members)
  BY <1>1, <1>2, TabSums DEF TabSpec!Share
<1>4. \A g : g \in Members => TabSpec!Net(g) = Net(g, Open)
  BY <1>3 DEF TabSpec!Net, Net
<1> QED
  BY <1>4 DEF TabSpec!Creditors, Creditors

LEMMA TabStart == Init => TabSpec!Init
<1> SUFFICES ASSUME Init PROVE TabSpec!Init
  OBVIOUS
<1>1. \A g \in Members : (IF g \in rows THEN balance[g] ELSE InitialBudget) = InitialBudget
  BY DEF Init
<1>2. Open = SeedExpenses
  BY DEF Init, Open, SeedRow
<1>3. ASSUME NEW g \in Members
      PROVE  Paid(g, Open) = SumFunctionOnSet(SeedAmount, {e \in SeedExpenses : SeedPayer[e] = g})
  <2> DEFINE S == {e \in SeedExpenses : SeedPayer[e] = g}
             w == [e \in SeedExpenses |-> expenses[e].amount]
             v == SeedAmount
  <2>1. {e \in Open : expenses[e].payer = g} = S
    BY <1>2 DEF Init, SeedRow
  <2>2. IsFiniteSet(S)
    BY SettleUpAssumption, FS_Subset
  <2>3. \A e \in S : w[e] = v[e]
    BY DEF Init, SeedRow
  <2>4. Paid(g, Open) = SumFunctionOnSet(w, S)
    BY <1>2, <2>1 DEF Paid
  <2> HIDE DEF S, w, v
  <2>5. SumFunctionOnSet(w, S) = SumFunctionOnSet(v, S)
    BY <2>2, <2>3, SumSame
  <2> QED
    BY <2>4, <2>5 DEF S, v
<1> QED
  BY <1>1, <1>3 DEF TabSpec!Init

\* Nothing else of the database shows on the tab.
LEMMA TabStill == UNCHANGED <<rows, balance, expenses>> => UNCHANGED TabSpec!tabVars
<1> SUFFICES ASSUME UNCHANGED <<rows, balance, expenses>> PROVE UNCHANGED TabSpec!tabVars
  OBVIOUS
<1>1. rows' = rows /\ balance' = balance /\ expenses' = expenses
  OBVIOUS
<1>2. \A g : Paid(g, Open)' = Paid(g, Open)
  BY <1>1 DEF Paid, Open
<1> QED
  BY <1>1, <1>2 DEF TabSpec!tabVars

\* An added expense is paid for by the member who adds it.
LEMMA AddedTab ==
    ASSUME Inv, NEW r \in Requests, Commit(r), NEW t \in Tx, t = tx[r],
           t.cost \in Amounts, t.opened = {}, t.written = {}
    PROVE  TabSpec!Spend(Me(r))
<1> DEFINE d == Me(r)
           x == ExpenseOf[r]
           n == t.cost
           w == [e \in Open |-> expenses[e].amount]
           v == [e \in Open' |-> expenses'[e].amount]
           S(g) == {e \in Open : expenses[e].payer = g}
           T(g) == {e \in Open' : expenses'[e].payer = g}
<1>1. d \in Members /\ n \in Nat \ {0}
  BY RequestsOf
<1>2. x \notin DOMAIN expenses
  BY DEF Inv, ExpensesOK, Commit
<1>3. expenses' = [e \in DOMAIN expenses \cup {x} |->
                      IF e = x THEN [payer |-> d, amount |-> n, settled |-> FALSE] ELSE expenses[e]]
  BY <1>1 DEF Commit, Recorded
<1>4. rows' = rows /\ balance' = balance
  BY DEF Commit, Inv, TypeOK
<1>5. Open' = Open \cup {x} /\ x \notin Open
  BY <1>2, <1>3 DEF Open
<1>6. /\ \A g \in Members : IsFiniteSet(S(g)) /\ IsFiniteSet(T(g))
  <2>1. IsFiniteSet(Open) /\ IsFiniteSet(Open')
    <3>1. IsFiniteSet(Open)
      BY FiniteRows, FS_Subset DEF Open, Inv, TypeOK
    <3> QED
      BY <1>5, <3>1, FS_AddElement
  <2> QED
    BY <2>1, FS_Subset
<1>7. /\ T(d) = S(d) \cup {x} /\ \A g \in Members \ {d} : T(g) = S(g)
  <2>1. \A e \in Open : e # x /\ expenses'[e] = expenses[e]
    BY <1>2, <1>3 DEF Open
  <2>2. expenses'[x].payer = d
    BY <1>3
  <2> HIDE DEF x, d
  <2>3. \A e : e \in T(d) <=> e \in S(d) \cup {x}
    BY <1>5, <2>1, <2>2
  <2>4. \A g \in Members \ {d} : \A e : e \in T(g) <=> e \in S(g)
    BY <1>5, <2>1, <2>2
  <2> HIDE DEF S, T
  <2>5. T(d) = S(d) \cup {x}
    BY <2>3
  <2>6. \A g \in Members \ {d} : T(g) = S(g)
    BY <2>4
  <2> QED
    BY <2>5, <2>6 DEF x, d
<1>8. \A e \in Open : v[e] = w[e] /\ w[e] \in Int
  BY <1>2, <1>3, <1>5 DEF Inv, TypeOK, Expense, Open
<1>9. v[x] = n
  BY <1>3, <1>5
<1>10. ASSUME NEW g \in Members
       PROVE  Paid(g, Open) = SumFunctionOnSet(w, S(g)) /\ Paid(g, Open)' = SumFunctionOnSet(v, T(g))
  BY DEF Paid
<1>11. \A g \in Members : S(g) \subseteq Open
  OBVIOUS
<1> HIDE DEF w, v, S, T
<1>12. ASSUME NEW g \in Members
       PROVE  SumFunctionOnSet(v, S(g)) = SumFunctionOnSet(w, S(g)) /\ SumFunctionOnSet(w, S(g)) \in Int
  BY <1>6, <1>8, <1>11, SumSame, SumType
<1>13. Paid(d, Open)' = Paid(d, Open) + n
  <2>1. (\A e \in T(d) : v[e] \in Int) /\ x \in T(d) /\ T(d) \ {x} = S(d)
    BY <1>1, <1>5, <1>7, <1>8, <1>9, <1>11
  <2> DEFINE now == T(d)
  <2>2. IsFiniteSet(now) /\ (\A e \in now : v[e] \in Int) /\ x \in now
    BY <1>1, <1>6, <2>1
  <2> HIDE DEF now, x
  <2>3. SumFunctionOnSet(v, now) = v[x] + SumFunctionOnSet(v, now \ {x})
    BY <2>2, SumElement
  <2>4. SumFunctionOnSet(v, now \ {x}) = SumFunctionOnSet(v, S(d))
    BY <2>1 DEF now, x
  <2>5. SumFunctionOnSet(v, now) = Paid(d, Open)' /\ SumFunctionOnSet(v, S(d)) = Paid(d, Open)
    BY <1>1, <1>10, <1>12 DEF now
  <2>6. SumFunctionOnSet(w, S(d)) \in Int /\ SumFunctionOnSet(v, S(d)) = SumFunctionOnSet(w, S(d))
    BY <1>1, <1>12
  <2> HIDE DEF d
  <2> QED
    BY <1>1, <1>9, <2>3, <2>4, <2>5, <2>6 DEF x
<1>14. \A g \in Members \ {d} : Paid(g, Open)' = Paid(g, Open)
  BY <1>7, <1>10, <1>12
<1> HIDE DEF n, d
<1>15. [g \in Members |-> Paid(g, Open)]' = [[g \in Members |-> Paid(g, Open)] EXCEPT ![d] = @ + n]
  BY <1>1, <1>13, <1>14
<1> QED
  BY <1>4, <1>15 DEF TabSpec!Spend, d, n

\* What the commit of a transaction that adds no expense makes of a member's budget.
LEMMA CommittedFunds ==
    ASSUME Inv, NEW r \in Requests, Commit(r), NEW t \in Tx, t = tx[r], Moving(r, t),
           \A g \in t.dirty : t.moves[g] = 0
    PROVE  \A g \in Members : Funds(g)' = Funds(g) + t.moves[g]
<1>1. /\ rows' = rows \cup t.opened
      /\ balance' = [g \in Members |-> IF g \in t.opened \cup t.written THEN t.copy[g] ELSE balance[g]]
  BY DEF Commit
<1> SUFFICES ASSUME NEW g \in Members PROVE Funds(g)' = Funds(g) + t.moves[g]
  OBVIOUS
<1>2. CASE g \in t.opened \cup t.written
  <2>1. g \in Touched(t)
    BY <1>2 DEF Touched
  <2>2. g \in rows' /\ balance'[g] = t.copy[g]
    BY <1>1, <1>2, <2>1 DEF Moving
  <2> QED
    BY <2>1, <2>2 DEF Moving, Funds
<1>3. CASE g \notin t.opened \cup t.written
  <2>1. t.moves[g] = 0 /\ (g \in rows' <=> g \in rows) /\ balance'[g] = balance[g]
    BY <1>1, <1>3 DEF Moving, Touched
  <2>2. Funds(g) \in Int
    BY RequestsOf DEF Funds, Inv, TypeOK
  <2> QED
    BY <2>1, <2>2 DEF Funds
<1> QED
  BY <1>2, <1>3

\* What the debtor pays, the others get.
LEMMA PaymentsOf ==
    ASSUME Inv, NEW r \in Requests, NEW p, NEW t \in Tx, Session(r, p, t), Settled(r, t)
    PROVE  [g \in Members |-> IF g = Me(r) THEN 0 ELSE t.moves[g]] \in TabSpec!Payments(Me(r))
<1> DEFINE d == Me(r)
           q == [g \in Members |-> IF g = d THEN 0 ELSE t.moves[g]]
           m == t.moves
           others == Members \ {d}
           owed == Debt(r, t)
<1>1. d \in Members /\ IsFiniteSet(Members) /\ IsFiniteSet(others)
  BY FiniteRows, RequestsOf, FS_Subset
<1>2. /\ owed \in Nat /\ m[d] = -owed /\ SumFunctionOnSet(m, Members) = 0
      /\ t.view = Open /\ Net(d, Open) < 0 /\ Net(d, Open) \in Int /\ owed = -Net(d, Open)
  <2>1. t.view = Open /\ 0 < owed /\ m[d] = -owed /\ Moved(t) = 0 /\ Open \subseteq DOMAIN expenses
    BY DEF Settled, Open
  <2>2. Net(d, Open) \in Int
    BY <2>1, NetType DEF Inv
  <2> QED
    BY <2>1, <2>2 DEF Debt, Moved
<1>3. \A g \in Members : m[g] \in Int /\ q[g] \in Nat
  BY DEF Session, Tx
<1>4. q[d] = 0 /\ \A g \in others : q[g] = m[g]
  BY <1>1
<1>5. DOMAIN q = Members
  OBVIOUS
<1>6. q = [g \in Members |-> q[g]]
  OBVIOUS
<1>7. \A g \in others : m[g] <= Bound(g, Open)
  BY <1>2 DEF Settled, Moving
<1> HIDE DEF d, q, m, owed
<1>8. SumFunctionOnSet(q, Members) = owed
  <2>1. SumFunctionOnSet(m, Members) = m[d] + SumFunctionOnSet(m, Members \ {d})
    BY <1>1, <1>3, SumElement
  <2>2. SumFunctionOnSet(q, Members) = q[d] + SumFunctionOnSet(q, Members \ {d})
    BY <1>1, <1>3, SumElement
  <2> HIDE DEF others
  <2>3. SumFunctionOnSet(q, others) = SumFunctionOnSet(m, others)
    BY <1>1, <1>4, SumSame
  <2>4. SumFunctionOnSet(m, others) \in Int
    BY <1>1, <1>3, SumType DEF others
  <2> QED
    BY <1>2, <1>4, <2>1, <2>2, <2>3, <2>4 DEF others
<1>9. ASSUME NEW g \in Members PROVE q[g] \in 0 .. owed
  <2> DEFINE rest == Members \ {g}
  <2>1. SumFunctionOnSet(q, Members) = q[g] + SumFunctionOnSet(q, Members \ {g})
    BY <1>1, <1>3, SumElement
  <2>2. IsFiniteSet(rest) /\ \A c \in rest : q[c] \in Nat
    BY <1>1, <1>3, FS_Subset
  <2> HIDE DEF rest
  <2>3. SumFunctionOnSet(q, rest) \in Nat
    BY <2>2, SumType
  <2> QED
    BY <1>2, <1>3, <1>8, <2>1, <2>3 DEF rest
<1>10. -TabSpec!Net(d) = owed /\ \A g \in Members : TabSpec!Net(g) = Net(g, Open)
  BY <1>1, <1>2, RoundIs DEF Inv
<1>11. ASSUME NEW c \in Members
       PROVE  q[c] <= IF c \in TabSpec!Creditors
                      THEN TabSpec!Net(c) + TabSpec!Cardinality(TabSpec!Creditors) - 1 ELSE 0
  <2>1. TabSpec!Creditors = Creditors(Open)
    BY RoundIs DEF Inv
  <2>2. q[c] <= Bound(c, Open)
    <3>1. CASE c = d
      <4>1. d \notin Creditors(Open)
        BY <1>2 DEF Creditors
      <4> QED
        BY <1>4, <3>1, <4>1 DEF Bound
    <3>2. CASE c # d
      BY <1>4, <1>7, <3>2
    <3> QED
      BY <3>1, <3>2
  <2>3. TabSpec!Cardinality(TabSpec!Creditors) = Cardinality(Creditors(Open))
    BY <2>1, TabSums
  <2> QED
    BY <1>10, <2>1, <2>2, <2>3 DEF Bound
<1>12. TabSpec!SumFunction(q) = -TabSpec!Net(d)
  BY <1>5, <1>8, <1>10, TabSums
<1>13. q \in [Members -> 0 .. -TabSpec!Net(d)]
  BY <1>6, <1>9, <1>10
<1>14. q \in TabSpec!Payments(d)
  BY <1>11, <1>12, <1>13 DEF TabSpec!Payments
<1> QED
  BY <1>14 DEF q, d

\* A settlement that commits is one payment of the whole debt and closes the round.
LEMMA SettledTab ==
    ASSUME Inv, NEW r \in Requests, Commit(r), NEW t \in Tx, t = tx[r], Session(r, "commit", t),
           Settled(r, t), t.dirty = {}
    PROVE  TabSpec!Settle(Me(r))
<1> DEFINE d == Me(r)
           q == [g \in Members |-> IF g = d THEN 0 ELSE t.moves[g]]
<1>1. d \in Members /\ q \in TabSpec!Payments(d)
  BY RequestsOf, PaymentsOf
<1>2. /\ t.view = Open /\ t.marks = Open /\ t.cost = 0 /\ Moving(r, t)
      /\ 0 < Debt(r, t) /\ Debt(r, t) <= Funds(d) /\ t.moves[d] = -Debt(r, t)
  BY DEF Settled
<1>3. Net(d, Open) \in Int /\ Debt(r, t) = -Net(d, Open) /\ TabSpec!Net(d) = Net(d, Open)
  <2>1. Net(d, Open) \in Int
    BY NetType DEF Inv, Open
  <2> QED
    BY <1>1, <1>2, <2>1, RoundIs DEF Debt, Inv
<1>4. \A g \in Members : Funds(g)' = Funds(g) + q[g] + (IF g = d THEN TabSpec!Net(d) ELSE 0)
  <2> SUFFICES ASSUME NEW g \in Members
               PROVE  Funds(g)' = Funds(g) + q[g] + (IF g = d THEN TabSpec!Net(d) ELSE 0)
    OBVIOUS
  <2>1. Funds(g)' = Funds(g) + t.moves[g]
    BY <1>2, CommittedFunds
  <2>2. Funds(g) \in Int /\ t.moves[g] \in Int
    BY RequestsOf DEF Funds, Inv, TypeOK, Tx
  <2>3. CASE g = d
    BY <1>1, <1>2, <1>3, <2>1, <2>2, <2>3
  <2>4. CASE g # d
    BY <1>3, <2>1, <2>2, <2>4
  <2> QED
    BY <2>3, <2>4
<1>5. \A g \in Members : Paid(g, Open)' = 0
  <2>1. expenses' = [e \in DOMAIN expenses |-> [expenses[e] EXCEPT !.settled = @ \/ e \in Open]]
    BY <1>2 DEF Commit, Recorded
  <2>2. Open' = {}
    BY <2>1 DEF Open, Inv, TypeOK, Expense
  <2>3. \A g : {e \in Open' : expenses'[e].payer = g} = {}
    BY <2>2
  <2> QED
    BY <2>3, FS_EmptySet, SumFirst DEF Paid
<1>6. [g \in Members |-> IF g \in rows THEN balance[g] ELSE InitialBudget][d] = Funds(d)
  BY <1>1 DEF Funds
<1> HIDE DEF d, q
<1>7. [g \in Members |-> Paid(g, Open)]' = [g \in Members |-> 0]
  BY <1>5
<1>8. [g \in Members |-> IF g \in rows THEN balance[g] ELSE InitialBudget]'
      = [g \in Members |->
            [h \in Members |-> IF h \in rows THEN balance[h] ELSE InitialBudget][g] + q[g]
            + (IF g = d THEN TabSpec!Net(d) ELSE 0)]
  BY <1>4 DEF Funds
<1>9. TabSpec!Net(d) < 0 /\ -TabSpec!Net(d) <= Funds(d)
  BY <1>2, <1>3
<1> QED
  BY <1>1, <1>6, <1>7, <1>8, <1>9 DEF TabSpec!Settle, d

\* A settlement of a member who owes nothing leaves the tab alone.
LEMMA NothingOwedTab ==
    ASSUME Inv, NEW r \in Requests, Commit(r), NEW t \in Tx, t = tx[r],
           t.cost = 0, t.marks = {}, \A g \in Members : t.moves[g] = 0, Moving(r, t)
    PROVE  UNCHANGED TabSpec!tabVars
<1>1. expenses' = [e \in DOMAIN expenses |-> [expenses[e] EXCEPT !.settled = @ \/ e \in {}]]
  BY DEF Commit, Recorded
<1>2. \A e \in DOMAIN expenses : [expenses[e] EXCEPT !.settled = @ \/ e \in {}] = expenses[e]
  BY DEF Inv, TypeOK, Expense
<1>3. expenses' = expenses
  BY <1>1, <1>2 DEF Inv, TypeOK
<1>4. \A g : Paid(g, Open)' = Paid(g, Open)
  BY <1>3 DEF Paid, Open
<1>5. \A g \in Members : Funds(g)' = Funds(g)
  <2> SUFFICES ASSUME NEW g \in Members PROVE Funds(g)' = Funds(g)
    OBVIOUS
  <2>1. Funds(g)' = Funds(g) + t.moves[g]
    <3>1. \A h \in t.dirty : t.moves[h] = 0
      BY DEF Tx
    <3>2. Funds(g)' = Funds(g) + t.moves[g]
      BY <3>1, CommittedFunds
    <3> QED
      BY <3>2
  <2>2. Funds(g) \in Int
    BY RequestsOf DEF Funds, Inv, TypeOK
  <2> QED
    BY <2>1, <2>2
<1>6. [g \in Members |-> IF g \in rows THEN balance[g] ELSE InitialBudget]'
      = [g \in Members |-> IF g \in rows THEN balance[g] ELSE InitialBudget]
  BY <1>5 DEF Funds
<1>7. [g \in Members |-> Paid(g, Open)]' = [g \in Members |-> Paid(g, Open)]
  BY <1>4
<1> QED
  BY <1>6, <1>7 DEF TabSpec!tabVars

LEMMA CommitTab ==
    ASSUME Inv, Turns, NEW r \in Requests, Commit(r)
    PROVE  TabSpec!Spend(Me(r)) \/ TabSpec!Settle(Me(r)) \/ UNCHANGED TabSpec!tabVars
<1>1. pc[r] = "commit" /\ pc[r] \in InFlight
  BY DEF Commit, InFlight
<1>2. PICK t \in Tx : t = tx[r] /\ Session(r, pc[r], t) /\ Turn(r, pc[r], t)
  BY <1>1, TurnCurrent
<1>3. Session(r, "commit", t) /\ Turn(r, "commit", t)
  BY <1>1, <1>2
<1>4. CASE Settled(r, t) /\ t.dirty = {}
  BY <1>2, <1>3, <1>4, SettledTab
<1>5. CASE t.cost \in Amounts /\ t.opened = {} /\ t.written = {}
  BY <1>2, <1>5, AddedTab
<1>6. CASE t.cost = 0 /\ t.marks = {} /\ (\A g \in Members : t.moves[g] = 0) /\ Moving(r, t)
  BY <1>2, <1>6, NothingOwedTab
<1> QED
  BY <1>3, <1>4, <1>5, <1>6 DEF Turn

\* Requests that take turns, without a restart: a committed settlement is one step of
\* Tab, the whole debt to the cent, and a committed expense another; a request that is
\* refused, that fails or that owes nothing leaves no trace on the tab.
THEOREM TurnsImplementTab == ASSUME MaxInFlight = 1, MaxBoots = 0 PROVE Spec => ImplementsTab
<1>1. Init => TabSpec!Init
  BY TabStart
<1>2. Inv /\ Turns /\ [Next]_vars => [TabSpec!Next]_(TabSpec!tabVars)
  <2> SUFFICES ASSUME Inv, Turns, [Next]_vars
               PROVE  TabSpec!Next \/ UNCHANGED TabSpec!tabVars
    OBVIOUS
  <2>1. CASE UNCHANGED db
    <3>1. UNCHANGED <<rows, balance, expenses>>
      BY <2>1 DEF db
    <3> QED
      BY <3>1, TabStill
  <2>2. ASSUME NEW r \in Requests, Commit(r)
        PROVE  TabSpec!Next \/ UNCHANGED TabSpec!tabVars
    <3>1. Me(r) \in Members
      BY RequestsOf
    <3> QED
      BY <2>2, <3>1, CommitTab DEF TabSpec!Next
  <2>3. ~Boot
    BY DEF Boot, Inv, TypeOK
  <2>4. UNCHANGED db \/ \E r \in Requests : Commit(r)
    <3>1. ASSUME UNCHANGED vars PROVE UNCHANGED db
      BY <3>1 DEF vars
    <3>2. ASSUME NEW r \in Requests, AddExpense(r) \/ ReceiveSettle(r) PROVE UNCHANGED db
      BY <3>2 DEF AddExpense, ReceiveSettle
    <3>3. ASSUME NEW r \in Requests, View(r) \/ EnsureMine(r) \/ PayCreditor(r)
          PROVE  UNCHANGED db
      BY <3>3 DEF View, EnsureMine, PayCreditor, Mine, Rollback
    <3>4. ASSUME NEW r \in Requests, OpenBudget(r) \/ Mark(r) \/ FlushRow(r)
          PROVE  UNCHANGED db
      BY <3>4 DEF OpenBudget, Mark, FlushRow, Mine, Rollback
    <3>5. ASSUME NEW r \in Requests, DeadlockVictim(r) \/ Fail(r) PROVE UNCHANGED db
      BY <3>5 DEF DeadlockVictim, Fail, Rollback
    <3> QED
      BY <2>3, <3>1, <3>2, <3>3, <3>4, <3>5 DEF Next, Proceed
  <2> QED
    BY <2>1, <2>2, <2>4
<1> QED
  BY <1>1, <1>2, Invariance, TurnInvariance, PTL DEF Spec, ImplementsTab, TabSpec!Spec

=============================================================================
