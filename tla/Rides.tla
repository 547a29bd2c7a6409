------------------------------- MODULE Rides -------------------------------
(***************************************************************************)
(* Rides booked at a live provider.  A booking asks the provider for        *)
(* estimates, checks the guest's budget, requests the trip, and only then   *)
(* charges the wallet and commits.  The provider acts on a request that it  *)
(* got even if its answer is lost.  Both calls carry an OAuth token that is *)
(* minted when needed and cached for the process.                           *)
(*                                                                         *)
(* Beside the rides, other requests of the guest charge the same budget:    *)
(* a confirmed trip plan is several purchases in one transaction, a car or  *)
(* a scooter is a plan of one.  That a budget is opened on first use is     *)
(* left to Wallet: this guest's is open.                                    *)
(***************************************************************************)
EXTENDS Fares, Sequences, FiniteSets

CONSTANTS
    RideRequests,   \* requests that book a ride, each handled once
    PlanRequests,   \* requests that confirm a plan, each handled once
    NoRequest,      \* holder of the free row
    Opening,        \* the guest's balance at first
    Products,       \* products of the ride provider, as it may describe them
    NamedFare,      \* NamedFare[r]: the fare in cents that the client names, from a search
                    \* of its own, or Open
    Plans,          \* the prices of the items of plans
    Timeout,        \* ticks one leg of an HTTP call can take
    Margin,         \* _UBER_TOKEN_MARGIN in ticks
    Lives,          \* values of expires_in
    MaxClock        \* ticks that are looked at

Requests == RideRequests \cup PlanRequests

ASSUME RidesAssumption ==
    /\ RideRequests \cap PlanRequests = {}
    /\ NoRequest \notin Requests
    /\ Opening \in Nat /\ Products \subseteq Offers
    /\ NamedFare \in [RideRequests -> Nat \cup {Open}]
    /\ Plans \subseteq Seq(Int)
    /\ Timeout \in Nat \ {0} /\ MaxClock \in Nat
    /\ Margin \in Nat /\ 2 * Timeout <= Margin
    /\ Lives \subseteq {life \in Nat : 2 * Timeout <= life}

VARIABLES
    balance,        \* committed balance of the guest
    booked,         \* booked[r]: how many committed purchases r made
    holder,         \* the request whose open transaction wrote the budget row
    posted,         \* trip requests on their way that the provider may act on
    trips,          \* requests the provider dispatched a trip for
    fares,          \* fares[r]: the fare in cents that r's trip was requested at, or Open
    cache,          \* _UBER_TOKEN_CACHE: used until, and when the token really expires
    now,            \* time.monotonic
    pc,             \* pc[r]: where request r stands
    tx              \* tx[r]: what request r has read and written, see CleanTx

db == <<balance, booked>>
provider == <<posted, trips, fares>>
vars == <<db, holder, provider, cache, now, pc, tx>>

-----------------------------------------------------------------------------
(* Transactions and calls *)

\* call: the API call to make; bearer: when its token expires; since: when the call
\* was sent, both while it is awaited; asked: the prices to pay; left: those not charged
\* yet; view: the balance in the loaded budget row; ride: the product that is booked.
NoRide == [fare |-> Nothing, price |-> Nothing, pinned |-> FALSE]
CleanTx == [call |-> "search", bearer |-> 0, since |-> 0, asked |-> <<>>, left |-> <<>>,
            view |-> 0, ride |-> NoRide]

InFlight == {"token", "minting", "sent", "budget", "charge", "commit"}
Answered == {"done", "refused", "upstream", "failed"}

MayLock(r) == holder \in {NoRequest, r}

\* COMMIT and ROLLBACK both release what the transaction locked.
Unlock(r) == holder' = IF holder = r THEN NoRequest ELSE holder

\* Variant: what was charged before the refusal stays, as it does in a chat turn.
Rollback_KeepsCharged(r, answer) ==
    /\ pc' = [pc EXCEPT ![r] = answer]
    /\ booked' = [booked EXCEPT ![r] = Len(tx[r].asked) - Len(tx[r].left)]
    /\ balance' = IF booked'[r] > 0 THEN tx[r].view ELSE balance
    /\ tx' = [tx EXCEPT ![r] = CleanTx]
    /\ Unlock(r)
    /\ UNCHANGED <<provider, cache, now>>

\* The exception handler of get_session.  What the provider was sent is not undone.
Rollback(r, answer) ==
    /\ pc' = [pc EXCEPT ![r] = answer]
    /\ tx' = [tx EXCEPT ![r] = CleanTx]
    /\ Unlock(r)
    /\ UNCHANGED <<db, provider, cache, now>>

\* Variant: the fare of the search is not passed on.
FareOf_Current(r) == NamedFare[r]

\* fare_id: the one that the client names, else the one of the search.
FareOf(r) == IF NamedFare[r] # Open THEN NamedFare[r] ELSE Due(tx[r].ride)

\* A call with its Authorization header leaves.
Send(r, bearer) ==
    /\ tx' = [tx EXCEPT ![r].bearer = bearer, ![r].since = now]
    /\ pc' = [pc EXCEPT ![r] = "sent"]
    /\ IF tx[r].call = "trip"
       THEN posted' = posted \cup {r} /\ fares' = [fares EXCEPT ![r] = FareOf(r)]
       ELSE UNCHANGED <<posted, fares>>
    /\ UNCHANGED <<db, holder, trips, now>>

-----------------------------------------------------------------------------
Init ==
    /\ balance = Opening
    /\ booked = [r \in Requests |-> 0]
    /\ holder = NoRequest
    /\ posted = {}
    /\ trips = {}
    /\ fares = [r \in RideRequests |-> Open]
    /\ cache = [until |-> 0, expires |-> 0]
    /\ now = 0
    /\ pc = [r \in Requests |-> "idle"]
    /\ tx = [r \in Requests |-> CleanTx]

\* POST /transfers/book: first the search, for the price of the option.
BookRide(r) ==
    /\ r \in RideRequests
    /\ pc[r] = "idle"
    /\ pc' = [pc EXCEPT ![r] = "token"]
    /\ UNCHANGED <<db, holder, provider, cache, now, tx>>

\* POST /trips/confirm, /cars/book, scooters; an empty plan is a 422.
Confirm(r) ==
    /\ r \in PlanRequests
    /\ pc[r] = "idle"
    /\ \E items \in Plans :
         /\ tx' = [tx EXCEPT ![r].asked = items, ![r].left = items]
         /\ pc' = [pc EXCEPT ![r] = IF items = <<>> THEN "refused" ELSE "budget"]
    /\ UNCHANGED <<db, holder, provider, cache, now>>

\* _uber_access_token: the cached token, if it is not to be renewed.
UseToken(r) ==
    /\ pc[r] = "token"
    /\ IF cache.until > now
       THEN /\ Send(r, cache.expires)
            /\ UNCHANGED cache
       ELSE /\ pc' = [pc EXCEPT ![r] = "minting"]
            /\ tx' = [tx EXCEPT ![r].since = now]
            /\ UNCHANGED <<db, holder, provider, cache, now>>

\* Variant: without the margin.
UsedUntil_Expiry(life) == now + life

\* How long a token that just arrived may be used.
UsedUntil(life) == now + (IF life > Margin THEN life - Margin ELSE 0)

\* A token issued at some moment of the call; others may be minting too, and the
\* last answer stays in the cache.
Mint(r) ==
    /\ pc[r] = "minting"
    /\ \E issued \in tx[r].since .. now, life \in Lives :
         /\ cache' = [until |-> UsedUntil(life), expires |-> issued + life]
         /\ Send(r, issued + life)

\* Variant: a trip whose answer is lost is taken to be on its way.
Upstream_Optimistic(r) ==
    \/ /\ pc[r] = "sent"
       /\ tx[r].call = "trip"
       /\ pc' = [pc EXCEPT ![r] = "charge"]
       /\ UNCHANGED <<db, holder, provider, cache, now, tx>>
    \/ /\ pc[r] = "minting" \/ (pc[r] = "sent" /\ tx[r].call = "search")
       /\ Rollback(r, "upstream")

\* TransferSearchError: a timeout, a connection lost, an error status, an answer
\* without a trip id.  The provider may have acted or act yet.
Upstream(r) ==
    /\ pc[r] \in {"minting", "sent"}
    /\ Rollback(r, "upstream")

\* The options of the search; an option that is not among them is a 404, one without
\* cars a 409.
Estimates(r) ==
    /\ pc[r] = "sent"
    /\ tx[r].call = "search"
    /\ \/ /\ \E product \in Products :
               tx' = [tx EXCEPT ![r].asked = <<Price(product)>>, ![r].left = <<Price(product)>>,
                                ![r].ride = product, ![r].bearer = 0, ![r].since = 0]
          /\ pc' = [pc EXCEPT ![r] = "budget"]
          /\ UNCHANGED <<db, holder, provider, cache, now>>
       \/ Rollback(r, "refused")

\* ensure_budget.  A ride that costs more is an InsufficientBudgetError nobody
\* catches; a guest without a phone number gets no trip.
EnsureBudget(r) ==
    /\ pc[r] = "budget"
    /\ \/ /\ r \in RideRequests
          /\ tx[r].asked[1] > balance
          /\ Rollback(r, "failed")
       \/ /\ r \in RideRequests
          /\ tx[r].asked[1] <= balance
          /\ Rollback(r, "upstream")
       \/ /\ r \in RideRequests => tx[r].asked[1] <= balance
          /\ tx' = [tx EXCEPT ![r].view = balance, ![r].call = "trip"]
          /\ pc' = [pc EXCEPT ![r] = IF r \in RideRequests THEN "token" ELSE "charge"]
          /\ UNCHANGED <<db, holder, provider, cache, now>>

\* The provider acts on a request for a trip, whether or not it is still awaited.
Dispatch(r) ==
    /\ r \in posted
    /\ posted' = posted \ {r}
    /\ trips' = trips \cup {r}
    /\ UNCHANGED <<db, holder, fares, cache, now, pc, tx>>

\* Its answer, with a trip id.
TripAnswer(r) ==
    /\ pc[r] = "sent"
    /\ tx[r].call = "trip"
    /\ r \in trips
    /\ pc' = [pc EXCEPT ![r] = "charge"]
    /\ tx' = [tx EXCEPT ![r].bearer = 0, ![r].since = 0]
    /\ UNCHANGED <<db, holder, provider, cache, now>>

\* Variant: the budget is read again after the trip was requested.
Affordable_Fresh(r, amount) == amount <= balance

\* purchase: session.get returns the row object that ensure_budget loaded, because
\* the handler still refers to it.
Affordable(r, amount) == amount <= tx[r].view

\* purchase, for the next item.
Charge(r) ==
    /\ pc[r] = "charge"
    /\ LET amount == Head(tx[r].left) IN
       \/ /\ amount < 0 \/ ~Affordable(r, amount)
          /\ Rollback(r, "refused")
       \/ /\ amount >= 0 /\ Affordable(r, amount)
          /\ MayLock(r)
          /\ holder' = r
          /\ tx' = [tx EXCEPT ![r].view = @ - amount, ![r].left = Tail(@)]
          /\ pc' = [pc EXCEPT ![r] = IF Len(tx[r].left) = 1 THEN "commit" ELSE "charge"]
          /\ UNCHANGED <<db, provider, cache, now>>

\* Everything becomes visible at once; an unchanged balance is not written.
Commit(r) ==
    /\ pc[r] = "commit"
    /\ balance' = IF \E i \in DOMAIN tx[r].asked : tx[r].asked[i] > 0
                  THEN tx[r].view ELSE balance
    /\ booked' = [booked EXCEPT ![r] = Len(tx[r].asked)]
    /\ pc' = [pc EXCEPT ![r] = "done"]
    /\ tx' = [tx EXCEPT ![r] = [CleanTx EXCEPT !.asked = tx[r].asked,
                                                   !.ride = tx[r].ride]]
    /\ Unlock(r)
    /\ UNCHANGED <<provider, cache, now>>

\* A lost connection, a client gone, an answer that is no JSON.
Fail(r) ==
    /\ pc[r] \in InFlight
    /\ Rollback(r, "failed")

\* Time passes, but no call outlives its timeout.
Tick ==
    /\ now < MaxClock
    /\ \A r \in Requests : pc[r] \in {"minting", "sent"} => now - tx[r].since < Timeout
    /\ now' = now + 1
    /\ UNCHANGED <<db, holder, provider, cache, pc, tx>>

Proceed(r) ==
    \/ UseToken(r) \/ Mint(r) \/ Upstream(r) \/ Estimates(r) \/ EnsureBudget(r)
    \/ TripAnswer(r) \/ Charge(r) \/ Commit(r)

Next ==
    \/ \E r \in Requests :
         BookRide(r) \/ Confirm(r) \/ Proceed(r) \/ Dispatch(r) \/ Fail(r)
    \/ Tick

Spec == Init /\ [][Next]_vars

-----------------------------------------------------------------------------
(* Properties *)

\* A ride that is refused on its price or its option was never requested from the
\* provider, although other requests of the guest spend the budget while the
\* provider is asked: the wallet decides on the balance that was checked before.
RefusedRideNeverRequested ==
    \A r \in RideRequests : pc[r] = "refused" => r \notin trips \cup posted

\* A ride that was charged was dispatched.
ChargedRideDispatched ==
    \A r \in RideRequests : booked[r] > 0 => r \in trips

\* A ride is charged at the fare its trip was requested at, if that is the fare of its
\* own search: not one that the client remembers, and not a fare above 1000 units, of
\* which a hundredth is charged.
ChargedAsRequested ==
    \A r \in RideRequests :
        booked[r] > 0 /\ NamedFare[r] = Open /\ Plain(tx[r].ride) =>
            fares[r] = Due(tx[r].ride) /\ fares[r] \in {Open, tx[r].asked[1]}

\* A plan is booked with all its items, or no item of it is.
PlanWhole ==
    \A r \in Requests : booked[r] = IF pc[r] = "done" THEN Len(tx[r].asked) ELSE 0

\* No call reaches the provider with a token that has expired, though tokens are
\* minted by several requests at once, age on their way and wait in the cache.
TokenLive ==
    \A r \in RideRequests : pc[r] = "sent" => now <= tx[r].bearer

=============================================================================
