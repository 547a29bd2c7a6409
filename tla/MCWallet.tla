------------------------------ MODULE MCWallet ------------------------------
(***************************************************************************)
(* TLC instances of Wallet.  Requests 1 to 3 are the same guest's: two     *)
(* plain calls and one chat turn.  With the guest "hurried" they overlap   *)
(* freely; with the guest "calm" each waits for the one before it, beside  *)
(* a request of another guest (4).                                         *)
(***************************************************************************)
EXTENDS Wallet, TLC

MCGuestOf == [r \in Requests |->
    IF Patient = {} \/ r >= 4 THEN "hurried" ELSE "calm"]

\* A price below zero and a top-up above the limit are the malformed inputs.
MCPrices == {-1, 0, 2}
MCTopUps == {1, 3}

=============================================================================
