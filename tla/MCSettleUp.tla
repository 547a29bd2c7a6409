----------------------------- MODULE MCSettleUp -----------------------------
(***************************************************************************)
(* TLC instances of SettleUp: the seeded group of three.  Two members paid *)
(* for all, unequal amounts that do not divide by three; the third owes.   *)
(***************************************************************************)
EXTENDS SettleUp, TLC

MCSeedPayer == 1 :> 102 @@ 2 :> 103
MCSeedAmount == 1 :> 6 @@ 2 :> 4
MCExpenseOf == [r \in Requests |-> 10 + r]

\* The debtor settles twice (a double click), beside another member.
MCCaller == [r \in Requests |-> IF r = 3 THEN 102 ELSE 101]

\* Everybody in turn.
MCTurns == [r \in Requests |-> IF r = 4 THEN 101 ELSE 100 + r]

=============================================================================
