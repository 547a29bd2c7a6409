-------------------------------- MODULE Tab ---------------------------------
(***************************************************************************)
(* What an expense group promises: members share what they spend, and a    *)
(* member who settles hands over exactly the missing part of an equal      *)
(* share to the members who are owed, in one step that closes the round.   *)
(* A creditor gets at most what is owed to it, up to the cents that the    *)
(* integer division leaves over.  SettleUp shows when the code keeps this. *)
(***************************************************************************)
EXTENDS Integers, FiniteSets, Functions

CONSTANTS
    Members,        \* who shares
    OpeningBudget,  \* what each holds at first
    FirstRound,     \* FirstRound[g]: what g has spent for all at first
    Amounts         \* what one expense may cost

VARIABLES
    funds,          \* funds[g]: what g can spend
    spent           \* spent[g]: what g paid for all in the open round

tabVars == <<funds, spent>>

Share == SumFunction(spent) \div Cardinality(Members)
Net(g) == spent[g] - Share
Creditors == {g \in Members : Net(g) > 0}

Init ==
    /\ funds = [g \in Members |-> OpeningBudget]
    /\ spent = FirstRound

Spend(g) ==
    \E n \in Amounts :
        /\ spent' = [spent EXCEPT ![g] = @ + n]
        /\ UNCHANGED funds

\* The payments of a debtor d, none of them to d.
Payments(d) ==
    {p \in [Members -> 0 .. -Net(d)] :
        /\ SumFunction(p) = -Net(d)
        /\ \A c \in Members :
               p[c] <= IF c \in Creditors THEN Net(c) + Cardinality(Creditors) - 1 ELSE 0}

Settle(d) ==
    /\ Net(d) < 0
    /\ -Net(d) <= funds[d]
    /\ \E p \in Payments(d) :
         funds' = [g \in Members |-> funds[g] + p[g] + (IF g = d THEN Net(d) ELSE 0)]
    /\ spent' = [g \in Members |-> 0]

Next == \E g \in Members : Spend(g) \/ Settle(g)

Spec == Init /\ [][Next]_tabVars

=============================================================================
