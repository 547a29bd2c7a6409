---------------------------- MODULE BudgetLedger ----------------------------
(***************************************************************************)
(* What the travel budget promises, with no sessions, snapshots or locks:  *)
(* every guest has one balance, a charge takes from it what it can cover   *)
(* and a credit adds to it, each in one indivisible step.  This is the     *)
(* "deducts atomically" of wallet_service.py; Wallet shows for which       *)
(* clients the code keeps that promise.                                    *)
(***************************************************************************)
EXTENDS Integers

CONSTANTS
    Holders,        \* the guests the ledger accounts for
    OpeningBudget,  \* what an account holds before its first movement
    Credits         \* the amounts one credit may add

VARIABLES
    funds,          \* funds[g]: what guest g can still spend
    spent,          \* spent[g]: everything g was ever charged
    credited        \* credited[g]: everything g ever added

ledgerVars == <<funds, spent, credited>>

Init ==
    /\ funds = [g \in Holders |-> OpeningBudget]
    /\ spent = [g \in Holders |-> 0]
    /\ credited = [g \in Holders |-> 0]

\* One charge, or the charges of one request together: never more than there is.
Charge(g) ==
    \E n \in 0 .. funds[g] :
        /\ funds' = [funds EXCEPT ![g] = @ - n]
        /\ spent' = [spent EXCEPT ![g] = @ + n]
        /\ UNCHANGED credited

Credit(g) ==
    \E n \in Credits :
        /\ funds' = [funds EXCEPT ![g] = @ + n]
        /\ credited' = [credited EXCEPT ![g] = @ + n]
        /\ UNCHANGED spent

Next == \E g \in Holders : Charge(g) \/ Credit(g)

Spec == Init /\ [][Next]_ledgerVars

=============================================================================
