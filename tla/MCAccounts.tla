----------------------------- MODULE MCAccounts -----------------------------
(***************************************************************************)
(* TLC instances of Accounts: two discovered accounts and a seeded linked   *)
(* one, and the two reservations of the booking connector.                  *)
(***************************************************************************)
EXTENDS Accounts

=============================================================================
