------------------------------- MODULE Wallet -------------------------------
(***************************************************************************)
(* The demo travel budget: WalletService over PostgreSQL, as concurrent    *)
(* HTTP requests drive it.  Each request runs one database session (one    *)
(* transaction, READ COMMITTED) that commits when the handler returns and  *)
(* rolls back when it raises.  A service call first SELECTs the budget row *)
(* into the session, decides on that copy, and later flushes an UPDATE of  *)
(* the literal new balance; the row lock is held only from that flush to   *)
(* the end of the transaction.  Nothing locks the row between the SELECT   *)
(* and the UPDATE.                                                         *)
(*                                                                         *)
(* A request is either a single call (GET /budget, POST /budget/topup,     *)
(* POST /budget/purchases and the other booking endpoints) or a concierge  *)
(* chat turn, which runs several calls in one transaction, answers a       *)
(* refused call as a tool result without rolling back, and reads the       *)
(* budget once more before it replies.                                     *)
(***************************************************************************)
EXTENDS Integers

CONSTANTS
    Guests,         \* guest ids
    Requests,       \* the HTTP requests that arrive, each handled once
    GuestOf,        \* GuestOf[r]: the authenticated guest of request r
    ChatTurns,      \* the requests that are POST /assistant/chat
    Patient,        \* guests who send again only when their last transaction has ended
    InitialBudget,  \* settings.demo_budget_cents
    TopUps,         \* amounts asked of POST /budget/topup
    Prices,         \* amounts asked of a purchase
    TopUpLimit,     \* the most one top-up may add
    MaxCalls,       \* tool calls the model makes in one chat turn
    NoRequest       \* holder of a free row

ASSUME WalletAssumption ==
    /\ GuestOf \in [Requests -> Guests]
    /\ ChatTurns \subseteq Requests
    /\ Patient \subseteq Guests
    /\ InitialBudget \in Nat
    /\ TopUps \subseteq Int
    /\ Prices \subseteq Int
    /\ TopUpLimit \in Nat
    /\ MaxCalls \in Nat
    /\ NoRequest \notin Requests

VARIABLES
    rows,       \* guests with a committed wallet_budgets row
    balance,    \* balance[g]: its committed balance_cents
    purchased,  \* purchased[g]: SUM(amount_cents) over g's committed purchases
    toppedUp,   \* toppedUp[g]: total of g's committed top-ups (kept nowhere in the code)
    openings,   \* openings[g]: committed INSERTs of g's row
    stays,      \* committed stays rows that hotel purchases created
    hotels,     \* committed hotel purchases that had to create their stay
    holder,     \* holder[g]: the request whose open transaction wrote g's row
    pc,         \* pc[r]: where request r stands
    call,       \* call[r]: the service call r is executing
    tx          \* tx[r]: the open transaction of r, see Tx

db == <<rows, balance, purchased, toppedUp, openings, stays, hotels>>
vars == <<db, holder, pc, call, tx>>

-----------------------------------------------------------------------------
(* Calls and transactions *)

\* "flight" stands for every purchase that needs no new stay: the kinds other
\* than hotel, and a hotel whose details name a stay the database already has.
Kinds == {"flight", "hotel"}

BudgetCall(op) == [op |-> op, kind |-> "flight", amount |-> 0]
TopUpCalls == [op : {"topup"}, kind : {"flight"}, amount : TopUps]
PurchaseCalls == [op : {"purchase"}, kind : Kinds, amount : Prices]
HttpCalls == {BudgetCall("budget")} \cup TopUpCalls \cup PurchaseCalls
ToolCalls == {BudgetCall("budget")} \cup PurchaseCalls

\* The argument checks both operations make before they touch the database.  An
\* unknown kind is refused exactly as a negative amount is.
Valid(c) ==
    /\ c.op = "topup" => c.amount > 0 /\ c.amount <= TopUpLimit
    /\ c.op = "purchase" => c.amount >= 0

\* view: balance_cents of the loaded row object; dirty: the transaction wrote
\* balance_cents; spent, added, stays, hotels: what it did and has not committed.
CleanTx ==
    [calls |-> 0, view |-> 0, dirty |-> FALSE, opened |-> FALSE,
     spent |-> 0, added |-> 0, stays |-> 0, hotels |-> 0]

InFlight == {"think", "ensure", "insert", "loaded", "housed", "commit"}
Answered == {"done", "refused", "failed"}

Me(r) == GuestOf[r]
MayLock(r) == holder[Me(r)] \in {NoRequest, r}
Lock(r) == holder' = [holder EXCEPT ![Me(r)] = r]

\* Variant: a transaction that ends keeps its row locks.
Unlock_Never(r) == UNCHANGED holder

\* COMMIT and ROLLBACK both release what the transaction locked.
Unlock(r) == holder' = [g \in Guests |-> IF holder[g] = r THEN NoRequest ELSE holder[g]]

\* A finished call gives control back to the chat loop, or to the commit.
CallEnds(r) == IF r \in ChatTurns /\ call[r].op # "reply" THEN "think" ELSE "commit"

\* Variant: the purchase rows are saved outside the request's transaction.
Rollback_KeepsPurchases(r, answer) ==
    /\ pc' = [pc EXCEPT ![r] = answer]
    /\ tx' = [tx EXCEPT ![r] = CleanTx]
    /\ call' = [call EXCEPT ![r] = BudgetCall("budget")]
    /\ purchased' = [purchased EXCEPT ![Me(r)] = @ + tx[r].spent]
    /\ Unlock(r)
    /\ UNCHANGED <<rows, balance, toppedUp, openings, stays, hotels>>

\* The exception handler of get_session: the transaction leaves nothing behind.
Rollback(r, answer) ==
    /\ pc' = [pc EXCEPT ![r] = answer]
    /\ tx' = [tx EXCEPT ![r] = CleanTx]
    /\ call' = [call EXCEPT ![r] = BudgetCall("budget")]
    /\ Unlock(r)
    /\ UNCHANGED db

-----------------------------------------------------------------------------
Init ==
    /\ rows = {}
    /\ balance = [g \in Guests |-> 0]
    /\ purchased = [g \in Guests |-> 0]
    /\ toppedUp = [g \in Guests |-> 0]
    /\ openings = [g \in Guests |-> 0]
    /\ stays = 0
    /\ hotels = 0
    /\ holder = [g \in Guests |-> NoRequest]
    /\ pc = [r \in Requests |-> "idle"]
    /\ call = [r \in Requests |-> BudgetCall("budget")]
    /\ tx = [r \in Requests |-> CleanTx]

\* A patient guest has no second request under way.
MaySend(r) ==
    /\ pc[r] = "idle"
    /\ Me(r) \in Patient =>
         \A q \in Requests : GuestOf[q] = Me(r) => pc[q] \notin InFlight

\* A request that makes one service call; a malformed one is answered 422.
Receive(r) ==
    /\ MaySend(r)
    /\ r \notin ChatTurns
    /\ \E c \in HttpCalls :
         /\ call' = [call EXCEPT ![r] = c]
         /\ pc' = [pc EXCEPT ![r] = IF Valid(c) THEN "ensure" ELSE "refused"]
    /\ UNCHANGED <<db, holder, tx>>

\* POST /assistant/chat.
OpenChat(r) ==
    /\ MaySend(r)
    /\ r \in ChatTurns
    /\ pc' = [pc EXCEPT ![r] = "think"]
    /\ UNCHANGED <<db, holder, call, tx>>

\* The language model asks for one more tool.  A malformed booking is answered
\* to the model and the turn goes on.
CallTool(r) ==
    /\ pc[r] = "think"
    /\ tx[r].calls < MaxCalls
    /\ \E c \in ToolCalls :
         /\ call' = [call EXCEPT ![r] = c]
         /\ pc' = [pc EXCEPT ![r] = IF Valid(c) THEN "ensure" ELSE "think"]
    /\ tx' = [tx EXCEPT ![r].calls = @ + 1]
    /\ UNCHANGED <<db, holder>>

\* The turn is over: the endpoint reads the budget for its response.
Reply(r) ==
    /\ pc[r] = "think"
    /\ call' = [call EXCEPT ![r] = BudgetCall("reply")]
    /\ pc' = [pc EXCEPT ![r] = "ensure"]
    /\ UNCHANGED <<db, holder, tx>>

\* session.get of ensure_budget: the transaction's own version of the row if it
\* wrote one, else the latest committed one.
EnsureBudget(r) ==
    /\ pc[r] = "ensure"
    /\ \/ /\ tx[r].dirty
          /\ pc' = [pc EXCEPT ![r] = "loaded"]
          /\ UNCHANGED tx
       \/ /\ ~tx[r].dirty
          /\ Me(r) \in rows
          /\ pc' = [pc EXCEPT ![r] = "loaded"]
          /\ tx' = [tx EXCEPT ![r].view = balance[Me(r)]]
       \/ /\ ~tx[r].dirty
          /\ Me(r) \notin rows
          /\ pc' = [pc EXCEPT ![r] = "insert"]
          /\ UNCHANGED tx
    /\ UNCHANGED <<db, holder, call>>

\* Variant: the row is written over whatever is there.
InsertBudget_Upsert(r) ==
    /\ pc[r] = "insert"
    /\ holder[Me(r)] = NoRequest
    /\ Lock(r)
    /\ pc' = [pc EXCEPT ![r] = "loaded"]
    /\ tx' = [tx EXCEPT ![r].view = InitialBudget, ![r].dirty = TRUE,
                        ![r].opened = TRUE]
    /\ UNCHANGED <<db, call>>

\* The INSERT of a missing row waits for another transaction that inserted the
\* same key; once that has committed it is a unique violation, answered 500.
InsertBudget(r) ==
    /\ pc[r] = "insert"
    /\ holder[Me(r)] = NoRequest
    /\ \/ /\ Me(r) \in rows
          /\ Rollback(r, "failed")
       \/ /\ Me(r) \notin rows
          /\ Lock(r)
          /\ pc' = [pc EXCEPT ![r] = "loaded"]
          /\ tx' = [tx EXCEPT ![r].view = InitialBudget, ![r].dirty = TRUE,
                              ![r].opened = TRUE]
          /\ UNCHANGED <<db, call>>

\* GET /budget, the get_budget tool and the end of a chat turn only read.
ReadBudget(r) ==
    /\ pc[r] = "loaded"
    /\ call[r].op \in {"budget", "reply"}
    /\ pc' = [pc EXCEPT ![r] = CallEnds(r)]
    /\ UNCHANGED <<db, holder, call, tx>>

\* topup: the sum is computed on the loaded copy and flushed.
TopUp(r) ==
    /\ pc[r] = "loaded"
    /\ call[r].op = "topup"
    /\ MayLock(r)
    /\ Lock(r)
    /\ tx' = [tx EXCEPT ![r].view = @ + call[r].amount, ![r].dirty = TRUE,
                        ![r].added = @ + call[r].amount]
    /\ pc' = [pc EXCEPT ![r] = CallEnds(r)]
    /\ UNCHANGED <<db, call>>

\* Variant: a purchase is held against the opening budget, not the balance.
Affordable_FromOpening(r) == call[r].amount <= InitialBudget

\* The check of purchase, on the loaded copy.
Affordable(r) == call[r].amount <= tx[r].view

\* InsufficientBudgetError: 409 and a rollback, or a tool result in a chat turn.
RefusePurchase(r) ==
    /\ pc[r] = "loaded"
    /\ call[r].op = "purchase"
    /\ ~Affordable(r)
    /\ \/ /\ r \notin ChatTurns
          /\ Rollback(r, "refused")
       \/ /\ r \in ChatTurns
          /\ pc' = [pc EXCEPT ![r] = "think"]
          /\ UNCHANGED <<db, holder, call, tx>>

\* Variant: the stay is made before the price is checked.
EnsureHotelStay_First(r) ==
    /\ pc[r] = "loaded"
    /\ call[r].op = "purchase"
    /\ call[r].kind = "hotel"
    /\ tx' = [tx EXCEPT ![r].stays = @ + 1]
    /\ pc' = [pc EXCEPT ![r] = IF Affordable(r) THEN "housed" ELSE CallEnds(r)]
    /\ UNCHANGED <<db, holder, call>>

\* _ensure_hotel_stay: a hotel purchase first inserts and flushes its stay.
EnsureHotelStay(r) ==
    /\ pc[r] = "loaded"
    /\ call[r].op = "purchase"
    /\ call[r].kind = "hotel"
    /\ Affordable(r)
    /\ tx' = [tx EXCEPT ![r].stays = @ + 1]
    /\ pc' = [pc EXCEPT ![r] = "housed"]
    /\ UNCHANGED <<db, holder, call>>

\* Variant: the deduction is flushed and the purchase row is not.
Purchase_Unrecorded(r) ==
    /\ call[r].op = "purchase"
    /\ \/ pc[r] = "housed"
       \/ pc[r] = "loaded" /\ call[r].kind # "hotel" /\ Affordable(r)
    /\ MayLock(r)
    /\ Lock(r)
    /\ tx' = [tx EXCEPT ![r].view = @ - call[r].amount, ![r].dirty = TRUE]
    /\ pc' = [pc EXCEPT ![r] = CallEnds(r)]
    /\ UNCHANGED <<db, call>>

\* The deduction and the purchase row, flushed together.  Only changed columns
\* are written: a free purchase locks the row and leaves balance_cents alone.
Purchase(r) ==
    /\ call[r].op = "purchase"
    /\ \/ pc[r] = "housed"
       \/ pc[r] = "loaded" /\ call[r].kind # "hotel" /\ Affordable(r)
    /\ MayLock(r)
    /\ Lock(r)
    /\ tx' = [tx EXCEPT ![r].view = @ - call[r].amount,
                        ![r].dirty = @ \/ call[r].amount # 0,
                        ![r].spent = @ + call[r].amount,
                        ![r].hotels = @ + (IF pc[r] = "housed" THEN 1 ELSE 0)]
    /\ pc' = [pc EXCEPT ![r] = CallEnds(r)]
    /\ UNCHANGED <<db, call>>

\* The handler returned: everything the transaction wrote becomes visible at once.
Commit(r) ==
    /\ pc[r] = "commit"
    /\ pc' = [pc EXCEPT ![r] = "done"]
    /\ rows' = IF tx[r].opened THEN rows \cup {Me(r)} ELSE rows
    /\ openings' = [openings EXCEPT ![Me(r)] = @ + (IF tx[r].opened THEN 1 ELSE 0)]
    /\ balance' = [balance EXCEPT ![Me(r)] = IF tx[r].dirty THEN tx[r].view ELSE @]
    /\ purchased' = [purchased EXCEPT ![Me(r)] = @ + tx[r].spent]
    /\ toppedUp' = [toppedUp EXCEPT ![Me(r)] = @ + tx[r].added]
    /\ stays' = stays + tx[r].stays
    /\ hotels' = hotels + tx[r].hotels
    /\ tx' = [tx EXCEPT ![r] = CleanTx]
    /\ call' = [call EXCEPT ![r] = BudgetCall("budget")]
    /\ Unlock(r)

\* An exception (the language model or the connection failing, a client gone, the
\* process killed) ends the request at any point: nothing of it stays.
Fail(r) ==
    /\ pc[r] \in InFlight
    /\ Rollback(r, "failed")

Arrive(r) == Receive(r) \/ OpenChat(r)

Proceed(r) ==
    \/ CallTool(r) \/ Reply(r)
    \/ EnsureBudget(r) \/ InsertBudget(r)
    \/ ReadBudget(r) \/ TopUp(r)
    \/ RefusePurchase(r) \/ EnsureHotelStay(r) \/ Purchase(r)
    \/ Commit(r)

Next == \E r \in Requests : Arrive(r) \/ Proceed(r) \/ Fail(r)

Spec == Init /\ [][Next]_vars

\* Every await of a request that was received returns (the clients it awaits have
\* timeouts and the database grants a row lock once its holder has ended).
Fairness == \A r \in Requests : WF_vars(Proceed(r))

FairSpec == Spec /\ Fairness

-----------------------------------------------------------------------------
(* Properties *)

Calls == [op : {"budget", "reply", "topup", "purchase"}, kind : Kinds, amount : Int]
Tx == [calls : Nat, view : Int, dirty : BOOLEAN, opened : BOOLEAN,
       spent : Nat, added : Nat, stays : Nat, hotels : Nat]

\* The types of the tables, the row locks and the sessions.
TypeOK ==
    /\ rows \subseteq Guests
    /\ balance \in [Guests -> Int]
    /\ purchased \in [Guests -> Nat]
    /\ toppedUp \in [Guests -> Nat]
    /\ openings \in [Guests -> Nat]
    /\ stays \in Nat
    /\ hotels \in Nat
    /\ holder \in [Guests -> Requests \cup {NoRequest}]
    /\ pc \in [Requests -> {"idle"} \cup InFlight \cup Answered]
    /\ call \in [Requests -> Calls]
    /\ tx \in [Requests -> Tx]

\* No interleaving of purchases, top-ups and chat turns drives a balance below
\* zero, although the check and the deduction use a copy that may be stale: so a
\* free restaurant reservation is never refused (its tool does not catch that).
NonNegative == \A g \in Guests : balance[g] >= 0

\* However many updates concurrent requests lose, the balance stays between the
\* opening budget less everything bought and the opening budget plus everything
\* added: a lost deduction never costs the guest and a lost top-up never pays.
BalanceBounds ==
    \A g \in rows :
        /\ InitialBudget - purchased[g] <= balance[g]
        /\ balance[g] <= InitialBudget + toppedUp[g]

\* For a guest whose requests never overlap the budget is exact: opening budget
\* plus top-ups less purchases, whatever the other guests do and whichever
\* requests fail or are refused half way.
Conservation ==
    \A g \in rows \cap Patient :
        balance[g] = InitialBudget + toppedUp[g] - purchased[g]

\* Two first requests racing in ensure_budget never both open the budget: a
\* balance that was already spent from is not reset to the opening budget.
OpenedOnce == \A g \in Guests : openings[g] = IF g \in rows THEN 1 ELSE 0

\* A stay is made only with its hotel purchase and a hotel purchase never lacks
\* one, also when later calls of the same chat turn are refused without a rollback.
StaysMatchHotels == stays = hotels

\* Every request that was received is answered: nobody waits for ever for a row
\* lock, not even behind a chat turn that keeps it across its remaining calls.
EveryRequestAnswered ==
    \A r \in Requests : pc[r] \in InFlight ~> pc[r] \in Answered

\* For the patient guests the service implements the atomic ledger: each commit is
\* one charge or one credit of the balance as it stands, all else is a stutter.
Ledger == INSTANCE BudgetLedger WITH
    Holders <- Patient,
    OpeningBudget <- InitialBudget,
    Credits <- 1 .. TopUpLimit,
    funds <- [g \in Patient |-> IF g \in rows THEN balance[g] ELSE InitialBudget],
    spent <- [g \in Patient |-> purchased[g]],
    credited <- [g \in Patient |-> toppedUp[g]]

ImplementsLedger == Ledger!Spec

\* What the code's documentation says of every guest: a purchase deducts
\* atomically, so the balance is the opening budget plus top-ups less purchases.
DeductsAtomically ==
    \A g \in rows : balance[g] = InitialBudget + toppedUp[g] - purchased[g]

=============================================================================
