------------------------------ MODULE Spending ------------------------------
(***************************************************************************)
(* The spend summary, GET /spend/insights, beside everything that moves    *)
(* the travel budget (Wallet).  A summary is two SELECTs: the budget row,   *)
(* as ensure_budget loads it, and then the list of purchases.  In READ     *)
(* COMMITTED each sees what is committed at its own moment, and the budget *)
(* a guest is shown is the sum of the two.                                 *)
(***************************************************************************)
EXTENDS Wallet, FiniteSets

VARIABLES
    basket,     \* basket[r]: by kind, the purchases r's transaction has flushed
    bought,     \* bought[g]: by kind, the committed purchases of g
    insight     \* insight[r]: whether r is a summary, and the purchases it has read

spendVars == <<vars, basket, bought, insight>>

-----------------------------------------------------------------------------
(* Purchases by kind, and the payload computed from them *)

Greatest(a, b) == IF a < b THEN b ELSE a

\* amount, count: of one kind; largest: its dearest purchase.
NoPurchase == [amount |-> 0, count |-> 0, largest |-> 0]
NoPurchases == [k \in Kinds |-> NoPurchase]

\* Two groups of purchases of one kind together.
Merge(a, b) == [amount |-> a.amount + b.amount, count |-> a.count + b.count,
                largest |-> Greatest(a.largest, b.largest)]

MergeAll(p, q) == [k \in Kinds |-> Merge(p[k], q[k])]

\* What is computed over the whole list: total_spent, tx_count, biggest.
TotalSpent(p) == p["flight"].amount + p["hotel"].amount
TxCount(p) == p["flight"].count + p["hotel"].count
Biggest(p) == Greatest(p["flight"].largest, p["hotel"].largest)

\* part as a share of whole, in tenths of a percent; how a tie is rounded is left open.
Pct(part, whole) ==
    IF whole <= 0 THEN 0 ELSE (2000 * part + whole) \div (2 * whole)

\* insights: the loaded balance plus what the list adds up to.
BudgetShown(r) == tx[r].view + TotalSpent(insight[r].list)

\* _top_categories, without its order: one entry per kind that occurs.
Categories(p) ==
    {[kind |-> k, amount |-> p[k].amount, count |-> p[k].count,
      pct |-> Pct(p[k].amount, TotalSpent(p))] : k \in {k \in Kinds : p[k].count > 0}}

\* The order of the categories: by amount, then by count, the greater ones first.
Before(a, b) == a.amount > b.amount \/ (a.amount = b.amount /\ a.count >= b.count)

\* The category of the first insight line.
Headlines(p) == {a \in Categories(p) : \A b \in Categories(p) : Before(a, b)}

\* The lines _insights writes, in any wording.
Lines(r) ==
    LET p == insight[r].list
        budget == BudgetShown(r)
        remaining == budget - TotalSpent(p)
    IN  IF TxCount(p) = 0 THEN {"nospend"}
        ELSE {"headline"}
             \cup {l \in {"usage"} : budget > 0}
             \cup {l \in {"largest"} : Biggest(p) > 0}
             \cup {l \in {"headroom"} : budget > 0 /\ remaining > 0}

-----------------------------------------------------------------------------
(* Requests *)

\* asked: it is a summary; listed: its second SELECT has answered with list.
NoInsight == [asked |-> FALSE, listed |-> FALSE, list |-> NoPurchases]

SpendInit ==
    /\ Init
    /\ basket = [r \in Requests |-> NoPurchases]
    /\ bought = [g \in Guests |-> NoPurchases]
    /\ insight = [r \in Requests |-> NoInsight]

\* GET /spend/insights enters as GET /budget does, through ensure_budget.
AskInsights(r) ==
    /\ Receive(r)
    /\ call'[r].op = "budget"
    /\ insight' = [insight EXCEPT ![r].asked = TRUE]
    /\ UNCHANGED <<basket, bought>>

\* Variant: the purchases are listed before the budget row is loaded.
ListPurchases_First(r) ==
    /\ pc[r] = "ensure"
    /\ insight[r].asked /\ ~insight[r].listed
    /\ insight' = [insight EXCEPT ![r].listed = TRUE, ![r].list = bought[Me(r)]]
    /\ UNCHANGED <<vars, basket, bought>>

\* list_purchases: what is committed by now, which the loaded balance may not know.
ListPurchases(r) ==
    /\ pc[r] = "commit"
    /\ insight[r].asked /\ ~insight[r].listed
    /\ insight' = [insight EXCEPT ![r].listed = TRUE, ![r].list = bought[Me(r)]]
    /\ UNCHANGED <<vars, basket, bought>>

\* A purchase row, flushed beside its deduction.
Record(r) ==
    /\ Purchase(r)
    /\ LET row == [amount |-> call[r].amount, count |-> 1, largest |-> call[r].amount]
       IN  basket' = [basket EXCEPT ![r][call[r].kind] = Merge(@, row)]
    /\ UNCHANGED <<bought, insight>>

\* The commit of a request; a summary has its list by then.
Publish(r) ==
    /\ Commit(r)
    /\ insight[r].asked => insight[r].listed
    /\ bought' = [bought EXCEPT ![Me(r)] = MergeAll(@, basket[r])]
    /\ basket' = [basket EXCEPT ![r] = NoPurchases]
    /\ insight' = [insight EXCEPT ![r] = NoInsight]

\* A request that ends in any other way leaves nothing, one that goes on keeps all.
Carry(r) ==
    /\ IF pc'[r] \in Answered
       THEN /\ basket' = [basket EXCEPT ![r] = NoPurchases]
            /\ insight' = [insight EXCEPT ![r] = NoInsight]
       ELSE UNCHANGED <<basket, insight>>
    /\ UNCHANGED bought

Other(r) ==
    /\ \/ Arrive(r) \/ CallTool(r) \/ Reply(r)
       \/ EnsureBudget(r) \/ InsertBudget(r) \/ ReadBudget(r) \/ TopUp(r)
       \/ RefusePurchase(r) \/ EnsureHotelStay(r) \/ Fail(r)
    /\ Carry(r)

SpendNext ==
    \E r \in Requests :
        AskInsights(r) \/ ListPurchases(r) \/ Record(r) \/ Publish(r) \/ Other(r)

SpendSpec == SpendInit /\ [][SpendNext]_spendVars

-----------------------------------------------------------------------------
(* Properties *)

Shown(r) == pc[r] = "commit" /\ insight[r].listed

\* A summary never understates what a guest had to spend, whatever commits between
\* its two SELECTs and whichever deductions are lost; a guest whose requests do not
\* overlap is shown the opening budget plus top-ups, to the cent, and headroom only
\* on a balance that is there.  Nobody is told to have used more than everything, and
\* the category named first has at least an even share of what was spent.
SummaryHolds ==
    \A r \in Requests : Shown(r) =>
        LET list == insight[r].list IN
        /\ InitialBudget <= BudgetShown(r)
        /\ Pct(TotalSpent(list), BudgetShown(r)) \in 0 .. 1000
        /\ \A h \in Headlines(list) :
               h.amount * Cardinality(Categories(list)) >= TotalSpent(list)
        /\ Me(r) \in Patient =>
               /\ BudgetShown(r) = InitialBudget + toppedUp[Me(r)]
               /\ "headroom" \in Lines(r) => Me(r) \in rows /\ balance[Me(r)] > 0

=============================================================================
