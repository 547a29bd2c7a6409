------------------------------ MODULE Payments ------------------------------
(***************************************************************************)
(* Hosted checkout: Stripe keeps the truth about a checkout session and      *)
(* tells it in signed events, which it delivers until it gets a 200 and      *)
(* sometimes once more.  The webhook remembers paid sessions in a store of   *)
(* the process.  A poll asks Stripe, and consults the store when the answer  *)
(* is back.  A delayed payment method completes the checkout unpaid and is   *)
(* paid later, which an event of another type tells.                        *)
(***************************************************************************)
EXTENDS Naturals, FiniteSets

CONSTANTS
    Checkouts,      \* checkout sessions
    Polls,          \* polls of their status, each handled once
    NoCheckout

VARIABLES
    stripe,         \* stripe[s]: the session at Stripe
    pending,        \* events Stripe has to deliver
    verified,       \* the store: sessions an event to this process confirmed
    poll            \* poll[r]: a poll and what it has been told

paymentVars == <<stripe, pending, verified, poll>>

Event(s, type, status) == [checkout |-> s, type |-> type, status |-> status]

IdlePoll == [pc |-> "idle", checkout |-> NoCheckout, status |-> "unpaid", confirmed |-> FALSE]

Init ==
    /\ stripe = [s \in Checkouts |-> "none"]
    /\ pending = {}
    /\ verified = {}
    /\ poll = [r \in Polls |-> IdlePoll]

\* create_checkout_session
CreateCheckout(s) ==
    /\ stripe[s] = "none"
    /\ stripe' = [stripe EXCEPT ![s] = "open"]
    /\ UNCHANGED <<pending, verified, poll>>

Moves == {<<"open", "paid", "completed">>, <<"open", "processing", "completed">>,
          <<"open", "expired", "expired">>, <<"processing", "paid", "settled">>}

\* payment_status of a session at Stripe.
PaymentStatus(s) == IF stripe[s] = "paid" THEN "paid" ELSE "unpaid"

\* The customer pays on Stripe's page, at once or by a method that takes its time, or
\* the checkout expires; an event tells.
StripeMoves(s) ==
    /\ \E m \in Moves :
         /\ stripe[s] = m[1]
         /\ stripe' = [stripe EXCEPT ![s] = m[2]]
         /\ pending' = pending \cup {Event(s, m[3], IF m[2] = "paid" THEN "paid" ELSE "unpaid")}
    /\ UNCHANGED <<verified, poll>>

\* Variant: the session is complete, whatever its payment_status.
MarkPaid_Complete(e) ==
    verified' = IF e.type = "completed" THEN verified \cup {e.checkout} ELSE verified

\* Variant: the event of delayed methods is the one that counts.
MarkPaid_Settled(e) ==
    verified' = IF e.type = "settled" THEN verified \cup {e.checkout} ELSE verified

\* stripe_webhook records a session that is completed and paid, and nothing else.
MarkPaid(e) ==
    verified' = IF e.type = "completed" /\ e.status = "paid"
                THEN verified \cup {e.checkout} ELSE verified

\* The event is accepted; if the 200 is lost on its way Stripe delivers it again.
Webhook(e) ==
    /\ e \in pending
    /\ MarkPaid(e)
    /\ pending' \in {pending, pending \ {e}}
    /\ UNCHANGED <<stripe, poll>>

\* get_checkout_session asks Stripe, ...
Ask(r) ==
    /\ poll[r].pc = "idle"
    /\ \E s \in Checkouts :
         /\ stripe[s] # "none"
         /\ poll' = [poll EXCEPT ![r].pc = "asked", ![r].checkout = s]
    /\ UNCHANGED <<stripe, pending, verified>>

\* ... which answers, with an error at times (502), ...
StripeAnswers(r) ==
    /\ poll[r].pc = "asked"
    /\ \/ poll' = [poll EXCEPT ![r].pc = "told", ![r].status = PaymentStatus(poll[r].checkout)]
       \/ poll' = [poll EXCEPT ![r].pc = "failed"]
    /\ UNCHANGED <<stripe, pending, verified>>

\* ... and looks into the store when the answer is there.
Answer(r) ==
    /\ poll[r].pc = "told"
    /\ poll' = [poll EXCEPT ![r].pc = "done", ![r].confirmed = poll[r].checkout \in verified]
    /\ UNCHANGED <<stripe, pending, verified>>

\* The store is the process's.
Crash ==
    /\ verified' = {}
    /\ poll' = [r \in Polls |-> IF poll[r].pc \in {"asked", "told"}
                                THEN [poll[r] EXCEPT !.pc = "failed"] ELSE poll[r]]
    /\ UNCHANGED <<stripe, pending>>

-----------------------------------------------------------------------------
(* Properties *)

\* No answer of a poll, stale or not, claims a payment that Stripe does not have,
\* neither by its status nor by its confirmation.
PollTruth ==
    \A r \in Polls :
        poll[r].status = "paid" \/ poll[r].confirmed => stripe[poll[r].checkout] = "paid"

\* A session that is paid at once is confirmed, though answers to Stripe are lost and
\* the process restarts.
PaidConfirmed ==
    \A s \in Checkouts : Event(s, "completed", "paid") \in pending ~> s \in verified

=============================================================================
