------------------------------ MODULE Gateway ------------------------------
(***************************************************************************)
(* The process: the limiter counts a request before its endpoint sees it,   *)
(* except for Stripe's webhook, and what the process keeps to itself, the   *)
(* limiter's table, the store of confirmed payments and every open          *)
(* transaction, ends with it.  The limiter is extended; Identity, Payments   *)
(* and Points are the parts behind it.                                      *)
(***************************************************************************)
EXTENDS RateLimit

CONSTANTS
    Registrations, Updates, Emails, Names, NoName, DemoUser, Companions, SeedEmail,
    SeedGuest, SeedName, NoRequest,                                \* of Identity
    Checkouts, Polls, NoCheckout,                       \* of Payments
    Orders, Bookings, Price, BasePrice, Carts, Unknown, MaxInt, Multiplier,
    Opening,                                            \* of Points
    Address,        \* Address[r]: the client address request r comes from
    Workloads,      \* sets of requests that may arrive in one behaviour
    MaxStarts       \* bound: the process starts no more often

VARIABLES
    users, guests, holder, writer, pc, tx, parted,          \* of Identity
    stripe, pending, verified, poll,                                \* of Payments
    catalogue, orders, bookings, credits, openings, desk,           \* of Points
    workload,       \* the requests that arrive
    up,             \* the process serves
    starts          \* how often it was started

I == INSTANCE Identity
P == INSTANCE Payments
O == INSTANCE Points WITH DemoGuest <- SeedGuest[DemoUser]

ASSUME GatewayAssumption ==
    /\ I!IdentityAssumption /\ O!PointsAssumption
    /\ \A r \in DOMAIN Address : Address[r] \in Clients
    /\ {"auth", "default"} \subseteq Buckets

identityVars == <<users, guests, holder, writer, pc, tx, parted>>
paymentVars == <<stripe, pending, verified, poll>>
pointsVars == <<catalogue, orders, bookings, credits, openings, desk>>
vars == <<limitVars, identityVars, paymentVars, pointsVars, workload, up, starts>>

-----------------------------------------------------------------------------
GatewayInit ==
    /\ Init /\ I!Init /\ P!Init /\ O!Init
    /\ workload \in Workloads
    /\ up = FALSE /\ starts = 0

\* Paths under /auth have a bucket of their own.
Bucket(r) == IF r \in I!Requests THEN "auth" ELSE "default"

\* Request r has not reached its endpoint.
Unanswered(r) ==
    \/ r \in I!Requests /\ pc[r] = "idle"
    \/ r \in Polls /\ poll[r].pc = "idle"
    \/ r \in O!Requests /\ desk[r].pc = "idle"

\* RateLimitMiddleware.dispatch: a request within its limit reaches its endpoint, ...
Arrive(r) ==
    /\ up /\ r \in workload
    /\ Admit(<<Address[r], Bucket(r)>>)
    /\ \/ /\ r \in I!Requests
          /\ I!Register(r) \/ I!Authenticate(r)
          /\ UNCHANGED <<paymentVars, pointsVars>>
       \/ /\ r \in Polls
          /\ P!Ask(r)
          /\ UNCHANGED <<identityVars, pointsVars>>
       \/ /\ O!PlaceOrder(r) \/ O!Book(r)
          /\ UNCHANGED <<identityVars, paymentVars>>
    /\ UNCHANGED <<workload, up, starts>>

\* ... one beyond it is answered at once, and may be sent again.
TurnAway(r) ==
    /\ up /\ r \in workload
    /\ Unanswered(r)
    /\ Refuse(<<Address[r], Bucket(r)>>)
    /\ UNCHANGED <<identityVars, paymentVars, pointsVars, workload, up, starts>>

Proceed(r) ==
    /\ up
    /\ \/ /\ r \in I!Requests
          /\ I!Proceed(r)
          /\ UNCHANGED <<paymentVars, pointsVars>>
       \/ /\ r \in Polls
          /\ P!StripeAnswers(r) \/ P!Answer(r)
          /\ UNCHANGED <<identityVars, pointsVars>>
       \/ /\ r \in O!Requests
          /\ O!Proceed(r)
          /\ UNCHANGED <<identityVars, paymentVars>>
    /\ UNCHANGED <<limitVars, workload, up, starts>>

\* A checkout is created by a request of its own.
Checkout(s) ==
    /\ up /\ workload \cap Polls # {}
    /\ P!CreateCheckout(s)
    /\ UNCHANGED <<limitVars, identityVars, pointsVars, workload, up, starts>>

\* The path of the webhook is exempt from the limits.
Deliver(e) ==
    /\ up
    /\ P!Webhook(e)
    /\ UNCHANGED <<limitVars, identityVars, pointsVars, workload, up, starts>>

Outside ==
    /\ \/ /\ Tick
          /\ UNCHANGED paymentVars
       \/ /\ \E s \in Checkouts : P!StripeMoves(s)
          /\ UNCHANGED limitVars
    /\ UNCHANGED <<identityVars, pointsVars, workload, up, starts>>

\* entrypoint.sh seeds and then serves; the other documented command only serves.
Start ==
    /\ ~up /\ starts < MaxStarts
    /\ (I!Seed /\ O!Seed) \/ UNCHANGED <<identityVars, pointsVars>>
    /\ up' = TRUE
    /\ starts' = starts + 1
    /\ UNCHANGED <<limitVars, paymentVars, workload>>

\* A deployment, a crash, a killed container.
Stop ==
    /\ up /\ starts < MaxStarts
    /\ Restart /\ I!Crash /\ P!Crash /\ O!Crash
    /\ up' = FALSE
    /\ UNCHANGED <<workload, starts>>

GatewayNext ==
    \/ Start \/ Stop \/ Outside
    \/ \E r \in DOMAIN Address : Arrive(r) \/ TurnAway(r) \/ Proceed(r)
    \/ \E s \in Checkouts : Checkout(s)
    \/ \E e \in pending : Deliver(e)

GatewaySpec == GatewayInit /\ [][GatewayNext]_vars

\* The process is started again, and Stripe delivers an event until it is accepted.
Fairness ==
    /\ WF_vars(Start)
    /\ \A s \in Checkouts : WF_vars(Deliver(P!Event(s, "completed", "paid")))

FairSpec == GatewaySpec /\ Fairness

-----------------------------------------------------------------------------
(* Properties *)

\* One login per email and one guest per login, whoever races and whatever is seeded.
OneLoginOneGuest == I!OneLoginOneGuest

\* Login and guest keep one name, unless changes of it overlap or the seed renames.
NamesPaired == I!NamesPaired

\* Whatever fails or is seeded again, orders and bookings explain the ledger of points.
LedgerExplained == O!LedgerExplained

\* No poll claims a payment Stripe does not have.
PollTruth == P!PollTruth

\* Stripe's confirmation of a payment arrives, whatever is restarted meanwhile.
PaidConfirmed == P!PaidConfirmed

=============================================================================
