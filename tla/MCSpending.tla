----------------------------- MODULE MCSpending -----------------------------
(***************************************************************************)
(* TLC instance of Spending: the requests of MCWallet, where any plain     *)
(* call may be a summary.                                                  *)
(***************************************************************************)
EXTENDS Spending, MCWallet
=============================================================================
