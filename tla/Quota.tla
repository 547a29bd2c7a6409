------------------------------- MODULE Quota -------------------------------
(***************************************************************************)
(* What a limiter per client and bucket promises: in every window of the    *)
(* clock a client is admitted up to its limit, never beyond it and never     *)
(* refused before it, and a refused client that comes back when it was told  *)
(* to finds a new window, at most one window's length away.                  *)
(***************************************************************************)
EXTENDS Naturals

CONSTANTS
    Keys,       \* who is limited: a client and a bucket
    Allowed,    \* Allowed[k]: admissions of k in one window
    Length      \* the length of a window

VARIABLES
    time,       \* the clock
    used,       \* used[k]: admissions of k in the window of the clock
    reply       \* reply[k]: the last answer to k

quotaVars == <<time, used, reply>>

Admission == [verdict |-> "admitted", until |-> 0]
NoReply == [verdict |-> "none", until |-> 0]

Init ==
    /\ time = 0
    /\ used = [k \in Keys |-> 0]
    /\ reply = [k \in Keys |-> NoReply]

\* A new window starts from nothing.
Advance ==
    /\ time' >= time
    /\ used' = IF time' \div Length = time \div Length THEN used ELSE [k \in Keys |-> 0]

Pass == Advance /\ UNCHANGED reply

Admit(k) ==
    /\ used[k] < Allowed[k]
    /\ used' = [used EXCEPT ![k] = @ + 1]
    /\ reply' = [reply EXCEPT ![k] = Admission]
    /\ UNCHANGED time

\* The clock may move while the answer is prepared.
Refuse(k) ==
    /\ used[k] = Allowed[k]
    /\ Advance
    /\ \E u \in (time \div Length + 1) * Length .. time' + Length :
           reply' = [reply EXCEPT ![k] = [verdict |-> "limited", until |-> u]]

\* A restarted process has forgotten what it admitted.
Forget == used' = [k \in Keys |-> 0] /\ UNCHANGED <<time, reply>>

Next == Pass \/ Forget \/ \E k \in Keys : Admit(k) \/ Refuse(k)

Spec == Init /\ [][Next]_quotaVars

=============================================================================
