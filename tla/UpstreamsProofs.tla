-------------------------- MODULE UpstreamsProofs ---------------------------
(***************************************************************************)
(* Proofs about Rides, Rates and Tracking.  Of rides, for any number of    *)
(* them and of plans, any products, prices, token lives and clock: what a  *)
(* ride that is refused or charged says of its trip, that plans are whole, *)
(* and that no token expires on its way.  Of rates and of tracking, for    *)
(* any requests and any durations: what is shown is fresh, and never goes  *)
(* back.                                                                   *)
(***************************************************************************)
EXTENDS Upstreams, SequenceTheorems, TLAPS

-----------------------------------------------------------------------------
(* Fares *)

\* The price of an option is an amount of cents.
LEMMA PriceType ==
    ASSUME NEW product \in Offers
    PROVE  Price(product) \in Nat
<1>1. \A money \in Monies : Cents(money) \in Nat
  <2> SUFFICES ASSUME NEW money \in Monies PROVE Cents(money) \in Nat
    OBVIOUS
  <2>1. /\ money.form \in Forms /\ money.units \in Nat /\ money.high \in Nat
    BY DEF Monies
  <2> QED
    BY <2>1 DEF Cents, Cent
<1> QED
  BY <1>1 DEF Price, Offers

\* What the provider keeps to is what the option costs, if the amount cannot be
\* mistaken for cents (_coerce_money_cents).
LEMMA PlainFare ==
    ASSUME NEW product \in Offers, Plain(product)
    PROVE  Due(product) \in {Open, Price(product)}
<1> DEFINE money == product.fare
<1>1. /\ money.form \in Forms /\ money.units \in Nat
  BY DEF Offers, Monies
<1>2. CASE Due(product) = Open
  BY <1>2
<1>3. CASE Due(product) # Open
  <2>1. /\ money.form \notin {"range", "none"} /\ money.units > 0
        /\ Due(product) = money.units * Cent
    BY <1>3 DEF Due
  <2>2. Cents(money) = money.units * Cent
    BY <1>1, <2>1 DEF Cents, Plain, Forms, Cent
  <2>3. Cents(money) > 0
    BY <1>1, <2>1, <2>2 DEF Cent
  <2> QED
    BY <2>1, <2>2, <2>3 DEF Price
<1> QED
  BY <1>2, <1>3

-----------------------------------------------------------------------------
(* The invariant *)

Stages == {"idle"} \cup InFlight \cup Answered
Tx == [call : {"search", "trip"}, bearer : Nat, since : Nat, asked : Seq(Int),
       left : Seq(Int), view : Int, ride : Offers]

TypeOK ==
    /\ balance \in Int
    /\ booked \in [Requests -> Nat]
    /\ posted \subseteq RideRequests /\ trips \subseteq RideRequests
    /\ fares \in [RideRequests -> Int]
    /\ cache \in [until : Nat, expires : Nat]
    /\ now \in Nat
    /\ pc \in [Requests -> Stages]
    /\ tx \in [Requests -> Tx]

\* A cached token that may still be used lives longer than a leg of a call takes.
CacheOK == cache.until > now => cache.until + Margin <= cache.expires + Timeout

\* What a request booked, by where it stands.
Whole(r) == booked[r] = IF pc[r] = "done" THEN Len(tx[r].asked) ELSE 0

\* A request that has not begun has read nothing.
Unbegun(r) == pc[r] = "idle" => tx[r] = CleanTx

\* A call is younger than its timeout, and its token outlives it.
Calling(r) ==
    /\ pc[r] \in {"token", "minting", "sent"} => r \in RideRequests
    /\ pc[r] \in {"minting", "sent"} => tx[r].since <= now /\ now <= tx[r].since + Timeout
    /\ pc[r] = "sent" => tx[r].since + Timeout <= tx[r].bearer

\* What is to be charged has an item left.
Owing(r) == pc[r] \in {"budget", "charge"} => tx[r].left # <<>>

\* The call for a trip is being made, or has been answered.
ForTrip(r) == pc[r] \in {"token", "minting", "sent"} /\ tx[r].call = "trip"
Answering(r) == pc[r] \in {"charge", "commit"}

\* What a ride in hand costs, and that the loaded budget row covers it.
Priced(r) ==
    /\ pc[r] \in {"budget", "charge"} \/ ForTrip(r) => tx[r].left = tx[r].asked
    /\ pc[r] \in {"budget", "commit", "charge", "done"} \/ ForTrip(r) =>
           tx[r].asked = <<Price(tx[r].ride)>>
    /\ pc[r] = "charge" \/ ForTrip(r) => Price(tx[r].ride) <= tx[r].view

\* Only a ride whose trip was asked for, and is not refused, is known to the provider; it
\* is charged if the provider dispatched it.
Known(r) ==
    /\ r \in posted \cup trips =>
           \/ pc[r] \in {"upstream", "failed", "done"}
           \/ pc[r] = "sent" /\ tx[r].call = "trip"
           \/ Answering(r)
    /\ Answering(r) \/ pc[r] = "done" => r \in trips

\* The fare that the trip was requested at.
Fared(r) ==
    Answering(r) \/ pc[r] = "done" \/ (pc[r] = "sent" /\ tx[r].call = "trip") =>
        fares[r] = FareOf(r)

SessionOK(r) ==
    /\ Whole(r) /\ Unbegun(r) /\ Calling(r) /\ Owing(r)
    /\ r \in RideRequests => Priced(r) /\ Known(r) /\ Fared(r)

Inv == TypeOK /\ CacheOK /\ \A r \in Requests : SessionOK(r)

-----------------------------------------------------------------------------
LEMMA CleanType == CleanTx \in Tx
BY DEF CleanTx, Tx, NoRide, Offers, Monies, Forms, Nothing, Money

LEMMA InitInv == Init => Inv
<1> SUFFICES ASSUME Init PROVE Inv
  OBVIOUS
<1>1. TypeOK
  BY CleanType, RidesAssumption DEF Init, TypeOK, Stages, Requests, Open
<1>2. CacheOK
  BY DEF Init, CacheOK
<1>3. ASSUME NEW r \in Requests PROVE SessionOK(r)
  BY <1>3 DEF Init, SessionOK, Whole, Unbegun, Calling, Owing, ForTrip, Answering,
     Priced, Known, Fared
<1> QED
  BY <1>1, <1>2, <1>3 DEF Inv

\* A session that a step does not touch keeps its invariant while the clock stands, as long
\* as the provider only goes on with what it was asked.
LEMMA Undisturbed ==
    ASSUME NEW q \in Requests, SessionOK(q), now' = now,
           pc'[q] = pc[q], tx'[q] = tx[q], booked'[q] = booked[q],
           q \in RideRequests =>
               /\ fares'[q] = fares[q]
               /\ q \in trips => q \in trips'
               /\ q \in posted' \cup trips' => q \in posted \cup trips
    PROVE  SessionOK(q)'
BY DEF SessionOK, Whole, Unbegun, Calling, Owing, ForTrip, Answering, Priced, Known, Fared, FareOf

\* A step of r that keeps every other session only has to account for r.
LEMMA SessionStep ==
    ASSUME Inv, NEW r \in Requests, TypeOK', CacheOK', SessionOK(r)', now' = now,
           trips' = trips, posted' \ {r} = posted \ {r},
           \A q \in Requests \ {r} :
               pc'[q] = pc[q] /\ tx'[q] = tx[q] /\ booked'[q] = booked[q],
           \A q \in RideRequests \ {r} : fares'[q] = fares[q]
    PROVE  Inv'
<1>1. ASSUME NEW q \in Requests PROVE SessionOK(q)'
  <2>1. CASE q = r
    BY <2>1
  <2>2. CASE q # r
    <3>1. q \in posted' => q \in posted
      BY <2>2
    <3> QED
      BY <2>2, <3>1, Undisturbed DEF Inv
  <2> QED
    BY <2>1, <2>2
<1> QED
  BY <1>1 DEF Inv

\* ROLLBACK leaves the session empty; a refused ride was not asked for.
LEMMA RollbackStep ==
    ASSUME Inv, NEW r \in Requests, NEW answer \in {"refused", "upstream", "failed"},
           pc[r] \in InFlight, Rollback(r, answer),
           answer = "refused" /\ r \in RideRequests => r \notin posted \cup trips
    PROVE  Inv'
<1>1. TypeOK'
  BY CleanType DEF Inv, TypeOK, Rollback, Stages, Answered, db, provider
<1>2. CacheOK'
  BY DEF Inv, CacheOK, Rollback
<1>3. SessionOK(r)'
  <2>1. pc'[r] = answer /\ tx'[r] = CleanTx /\ booked'[r] = booked[r]
    BY DEF Inv, TypeOK, Rollback, db
  <2>2. booked[r] = 0
    BY DEF Inv, SessionOK, Whole, InFlight
  <2>3. UNCHANGED <<posted, trips, fares, now>>
    BY DEF Rollback, provider
  <2> QED
    BY <2>1, <2>2, <2>3 DEF SessionOK, Whole, Unbegun, Calling, Owing, ForTrip, Answering, Priced,
       Known, Fared
<1>4. \A q \in Requests \ {r} :
          pc'[q] = pc[q] /\ tx'[q] = tx[q] /\ booked'[q] = booked[q]
  BY DEF Rollback, Inv, TypeOK, db
<1> QED
  BY <1>1, <1>2, <1>3, <1>4, SessionStep DEF Rollback, provider

-----------------------------------------------------------------------------
(* The steps *)

\* A call that leaves with a token that outlives it.
LEMMA SendStep ==
    ASSUME Inv, NEW r \in Requests, NEW bearer \in Nat, pc[r] \in {"token", "minting"},
           now + Timeout <= bearer, Send(r, bearer),
           cache' \in [until : Nat, expires : Nat], CacheOK'
    PROVE  Inv'
<1>1. r \in RideRequests /\ tx[r] \in Tx /\ now \in Nat /\ Timeout \in Nat
  BY RidesAssumption DEF Inv, SessionOK, Calling, TypeOK
<1>2. tx' = [tx EXCEPT ![r] = [tx[r] EXCEPT !.bearer = bearer, !.since = now]]
  BY DEF Send
<1>3. [tx[r] EXCEPT !.bearer = bearer, !.since = now] \in Tx
  BY <1>1 DEF Tx
<1>4. FareOf(r) \in Int
  <2>1. tx[r].ride.fare.units \in Nat
    BY <1>1 DEF Tx, Offers, Monies
  <2>2. Due(tx[r].ride) \in Int /\ Open \in Int
    BY <2>1 DEF Due, Open, Cent
  <2>3. NamedFare[r] \in Nat \cup {Open}
    BY <1>1, RidesAssumption
  <2> QED
    BY <2>2, <2>3 DEF FareOf
<1>5. TypeOK'
  <2>1. posted' \subseteq RideRequests /\ fares' \in [RideRequests -> Int]
    BY <1>1, <1>4 DEF Inv, TypeOK, Send
  <2>2. tx' \in [Requests -> Tx]
    BY <1>2, <1>3 DEF Inv, TypeOK
  <2> QED
    BY <2>1, <2>2 DEF Inv, TypeOK, Send, db, Stages, InFlight
<1>6. SessionOK(r)'
  <2>1. /\ pc'[r] = "sent" /\ tx'[r] = [tx[r] EXCEPT !.bearer = bearer, !.since = now]
        /\ booked'[r] = booked[r] /\ now' = now /\ trips' = trips
    BY <1>2 DEF Inv, TypeOK, Send, db
  <2>2. /\ tx'[r].call = tx[r].call /\ tx'[r].asked = tx[r].asked /\ tx'[r].left = tx[r].left
        /\ tx'[r].view = tx[r].view /\ tx'[r].ride = tx[r].ride
        /\ tx'[r].bearer = bearer /\ tx'[r].since = now
    BY <1>1, <2>1 DEF Tx
  <2>3. Whole(r)' /\ Unbegun(r)' /\ Calling(r)' /\ Owing(r)'
    BY <1>1, <2>1, <2>2 DEF Inv, SessionOK, Whole, Unbegun, Calling, Owing
  <2>4. Priced(r)'
    BY <1>1, <2>1, <2>2 DEF Inv, SessionOK, Priced, ForTrip
  <2>5. r \notin posted \cup trips
    BY <1>1 DEF Inv, SessionOK, Known, Answering
  <2>6. /\ tx[r].call = "trip" => r \in posted' /\ fares'[r] = FareOf(r)
        /\ tx[r].call # "trip" => posted' = posted
    BY <1>1 DEF Inv, TypeOK, Send
  <2>7. Known(r)'
    BY <2>1, <2>2, <2>5, <2>6 DEF Known, Answering
  <2>8. Fared(r)'
    BY <2>1, <2>2, <2>6 DEF Fared, FareOf, Answering
  <2> QED
    BY <2>3, <2>4, <2>7, <2>8 DEF SessionOK
<1>7. /\ trips' = trips /\ posted' \ {r} = posted \ {r} /\ now' = now
      /\ \A q \in RideRequests \ {r} : fares'[q] = fares[q]
      /\ \A q \in Requests \ {r} :
             pc'[q] = pc[q] /\ tx'[q] = tx[q] /\ booked'[q] = booked[q]
  BY DEF Inv, TypeOK, Send, db
<1> QED
  BY <1>5, <1>6, <1>7, SessionStep

\* A ride begins with its search.
LEMMA BookRideStep == ASSUME Inv, NEW r \in Requests, BookRide(r) PROVE Inv'
<1>1. TypeOK'
  BY DEF Inv, TypeOK, BookRide, Stages, InFlight, db, provider
<1>2. CacheOK'
  BY DEF Inv, CacheOK, BookRide
<1>3. SessionOK(r)'
  <2>1. /\ pc'[r] = "token" /\ tx'[r] = tx[r] /\ booked'[r] = booked[r]
        /\ UNCHANGED <<posted, trips, fares, now>>
    BY DEF Inv, TypeOK, BookRide, db, provider
  <2>2. r \in RideRequests /\ tx[r].call = "search" /\ booked[r] = 0
    BY DEF Inv, BookRide, SessionOK, Unbegun, Whole, CleanTx
  <2>3. r \notin posted \cup trips
    BY <2>2 DEF Inv, BookRide, SessionOK, Known, Answering
  <2>4. Whole(r)' /\ Unbegun(r)' /\ Calling(r)' /\ Owing(r)'
    BY <2>1, <2>2 DEF Whole, Unbegun, Calling, Owing
  <2>5. Priced(r)' /\ Known(r)' /\ Fared(r)'
    BY <2>1, <2>2, <2>3 DEF Priced, Known, Fared, ForTrip, Answering
  <2> QED
    BY <2>4, <2>5 DEF SessionOK
<1> QED
  BY <1>1, <1>2, <1>3, SessionStep DEF BookRide, Inv, TypeOK, db, provider

\* A plan begins with the prices of its items.
LEMMA ConfirmStep == ASSUME Inv, NEW r \in Requests, Confirm(r) PROVE Inv'
<1>1. PICK items \in Plans :
          /\ tx' = [tx EXCEPT ![r].asked = items, ![r].left = items]
          /\ pc' = [pc EXCEPT ![r] = IF items = <<>> THEN "refused" ELSE "budget"]
  BY DEF Confirm
<1>2. items \in Seq(Int) /\ tx[r] \in Tx /\ r \notin RideRequests
  BY RidesAssumption DEF Inv, TypeOK, Confirm
<1>3. [tx[r] EXCEPT !.asked = items, !.left = items] \in Tx
  BY <1>2 DEF Tx
<1>4. TypeOK'
  <2>1. tx' = [tx EXCEPT ![r] = [tx[r] EXCEPT !.asked = items, !.left = items]]
    BY <1>1 DEF Inv, TypeOK
  <2>2. tx' \in [Requests -> Tx]
    BY <1>3, <2>1 DEF Inv, TypeOK
  <2>3. pc' \in [Requests -> Stages]
    BY <1>1 DEF Inv, TypeOK, Stages, InFlight, Answered
  <2> QED
    BY <2>2, <2>3 DEF Inv, TypeOK, Confirm, db, provider
<1>5. CacheOK'
  BY DEF Inv, CacheOK, Confirm
<1>6. SessionOK(r)'
  <2>1. /\ pc[r] = "idle" /\ pc'[r] \in {"refused", "budget"} /\ booked'[r] = booked[r]
        /\ pc'[r] = "budget" => items # <<>>
    BY <1>1 DEF Inv, TypeOK, Confirm, db
  <2>2. tx'[r].left = items
    BY <1>1, <1>2 DEF Inv, TypeOK, Tx
  <2> QED
    BY <1>2, <2>1, <2>2 DEF Inv, SessionOK, Whole, Unbegun, Calling, Owing
<1> QED
  BY <1>1, <1>4, <1>5, <1>6, SessionStep DEF Confirm, Inv, TypeOK, db, provider

\* The token of the cache outlives the call; without one, a call for a token leaves.
LEMMA UseTokenStep == ASSUME Inv, NEW r \in Requests, UseToken(r) PROVE Inv'
<1> USE RidesAssumption
<1>1. CASE cache.until > now
  <2>1. Send(r, cache.expires) /\ cache' = cache /\ now' = now
    BY <1>1 DEF UseToken, Send
  <2>2. now + Timeout <= cache.expires /\ cache.expires \in Nat
    BY <1>1 DEF Inv, TypeOK, CacheOK
  <2> QED
    BY <2>1, <2>2, SendStep DEF UseToken, Inv, TypeOK, CacheOK
<1>2. CASE ~(cache.until > now)
  <2>1. /\ pc' = [pc EXCEPT ![r] = "minting"]
        /\ tx' = [tx EXCEPT ![r] = [tx[r] EXCEPT !.since = now]]
        /\ UNCHANGED <<db, holder, provider, cache, now>>
    BY <1>2 DEF UseToken
  <2>2. tx[r] \in Tx /\ [tx[r] EXCEPT !.since = now] \in Tx /\ now \in Nat
    BY DEF Inv, TypeOK, Tx
  <2>3. TypeOK'
    BY <2>1, <2>2 DEF Inv, TypeOK, Stages, InFlight, db, provider
  <2>4. CacheOK'
    BY <2>1 DEF Inv, CacheOK
  <2>5. SessionOK(r)'
    <3>1. /\ tx'[r].call = tx[r].call /\ tx'[r].asked = tx[r].asked
          /\ tx'[r].left = tx[r].left /\ tx'[r].view = tx[r].view
          /\ tx'[r].ride = tx[r].ride /\ tx'[r].since = now
      BY <2>1, <2>2 DEF Inv, TypeOK, Tx
    <3>2. pc'[r] = "minting" /\ pc[r] = "token" /\ booked'[r] = booked[r]
      BY <2>1 DEF Inv, TypeOK, UseToken, db
    <3> QED
      BY <2>1, <2>2, <3>1, <3>2 DEF Inv, SessionOK, Whole, Unbegun, Calling, Owing, ForTrip,
         Answering, Priced, Known, Fared, provider
  <2> QED
    BY <2>1, <2>3, <2>4, <2>5, SessionStep DEF Inv, TypeOK, db, provider
<1> QED
  BY <1>1, <1>2

\* A token that just arrived outlives the call, and the cache gives it up in time.
LEMMA MintStep == ASSUME Inv, NEW r \in Requests, Mint(r) PROVE Inv'
<1> USE RidesAssumption
<1>1. PICK issued \in tx[r].since .. now, life \in Lives :
          /\ cache' = [until |-> UsedUntil(life), expires |-> issued + life]
          /\ Send(r, issued + life)
  BY DEF Mint
<1>2. /\ tx[r].since \in Nat /\ now \in Nat /\ Timeout \in Nat /\ Margin \in Nat
      /\ life \in Nat /\ issued \in Nat
      /\ now <= tx[r].since + Timeout /\ tx[r].since <= issued
      /\ 2 * Timeout <= life
  BY DEF Inv, TypeOK, Tx, SessionOK, Calling, Mint
<1>3. now + Timeout <= issued + life
  BY <1>2
<1>4. now' = now
  BY <1>1 DEF Send
<1>5. UsedUntil(life) \in Nat /\ CacheOK'
  BY <1>1, <1>2, <1>4 DEF UsedUntil, CacheOK
<1>6. cache' \in [until : Nat, expires : Nat]
  BY <1>1, <1>2, <1>5
<1> QED
  BY <1>1, <1>2, <1>3, <1>5, <1>6, SendStep DEF Mint

\* Any answer of the provider that is no answer, and any failure, rolls back.
LEMMA UpstreamStep == ASSUME Inv, NEW r \in Requests, Upstream(r) \/ Fail(r) PROVE Inv'
BY RollbackStep DEF Upstream, Fail, InFlight

\* The option that is booked, or the refusal of a ride nobody asked the provider for.
LEMMA EstimatesStep == ASSUME Inv, NEW r \in Requests, Estimates(r) PROVE Inv'
<1>1. /\ r \in RideRequests /\ pc[r] = "sent" /\ tx[r].call = "search"
      /\ r \notin posted \cup trips /\ tx[r] \in Tx /\ booked[r] = 0
  BY DEF Estimates, Inv, TypeOK, SessionOK, Calling, Known, Answering, Whole
<1>2. CASE Rollback(r, "refused")
  BY <1>1, <1>2, RollbackStep DEF InFlight
<1>3. ASSUME NEW product \in Products,
             tx' = [tx EXCEPT ![r].asked = <<Price(product)>>, ![r].left = <<Price(product)>>,
                              ![r].ride = product, ![r].bearer = 0, ![r].since = 0],
             pc' = [pc EXCEPT ![r] = "budget"],
             UNCHANGED <<db, holder, provider, cache, now>>
      PROVE  Inv'
  <2>1. product \in Offers /\ Price(product) \in Nat
    BY RidesAssumption, PriceType
  <2>2. tx' = [tx EXCEPT ![r] = [tx[r] EXCEPT !.asked = <<Price(product)>>,
                    !.left = <<Price(product)>>, !.ride = product, !.bearer = 0, !.since = 0]]
    BY <1>3 DEF Inv, TypeOK
  <2>3. [tx[r] EXCEPT !.asked = <<Price(product)>>, !.left = <<Price(product)>>,
                      !.ride = product, !.bearer = 0, !.since = 0] \in Tx
    <3>1. <<Price(product)>> \in Seq(Int)
      BY <2>1
    <3> QED
      BY <1>1, <2>1, <3>1 DEF Tx
  <2>4. tx' \in [Requests -> Tx]
    BY <2>2, <2>3 DEF Inv, TypeOK
  <2>5. TypeOK'
    BY <1>3, <2>4 DEF Inv, TypeOK, Stages, InFlight, db, provider
  <2>6. CacheOK'
    BY <1>3 DEF Inv, CacheOK
  <2>7. SessionOK(r)'
    <3>1. /\ tx'[r].call = "search" /\ tx'[r].asked = <<Price(product)>>
          /\ tx'[r].left = <<Price(product)>> /\ tx'[r].ride = product
      BY <1>1, <2>2 DEF Inv, TypeOK, Tx
    <3>2. /\ pc'[r] = "budget" /\ booked'[r] = 0
          /\ UNCHANGED <<posted, trips, fares, now>>
      BY <1>1, <1>3 DEF Inv, TypeOK, db, provider
    <3>3. Whole(r)' /\ Unbegun(r)' /\ Calling(r)' /\ Owing(r)'
      BY <3>1, <3>2 DEF Whole, Unbegun, Calling, Owing
    <3>4. Priced(r)' /\ Known(r)' /\ Fared(r)'
      BY <1>1, <3>1, <3>2 DEF Priced, Known, Fared, ForTrip, Answering
    <3> QED
      BY <3>3, <3>4 DEF SessionOK
  <2> QED
    BY <1>3, <2>5, <2>6, <2>7, SessionStep DEF Inv, TypeOK, db, provider
<1> QED
  BY <1>2, <1>3 DEF Estimates

\* The balance that a ride's price was compared with is the one of the loaded row.
LEMMA EnsureBudgetStep == ASSUME Inv, NEW r \in Requests, EnsureBudget(r) PROVE Inv'
<1>1. /\ pc[r] = "budget" /\ tx[r] \in Tx /\ booked[r] = 0 /\ balance \in Int
      /\ pc \in [Requests -> Stages]
  BY DEF EnsureBudget, Inv, TypeOK, SessionOK, Whole
<1>2. r \in RideRequests =>
          /\ r \notin posted \cup trips /\ tx[r].left = tx[r].asked
          /\ tx[r].asked = <<Price(tx[r].ride)>>
  BY <1>1 DEF Inv, SessionOK, Known, Priced, Answering
<1>3. CASE Rollback(r, "failed") \/ Rollback(r, "upstream")
  BY <1>1, <1>3, RollbackStep DEF InFlight
<1>4. CASE /\ r \in RideRequests => tx[r].asked[1] <= balance
           /\ tx' = [tx EXCEPT ![r].view = balance, ![r].call = "trip"]
           /\ pc' = [pc EXCEPT ![r] = IF r \in RideRequests THEN "token" ELSE "charge"]
           /\ UNCHANGED <<db, holder, provider, cache, now>>
  <2>1. tx' = [tx EXCEPT ![r] = [tx[r] EXCEPT !.view = balance, !.call = "trip"]]
    BY <1>4 DEF Inv, TypeOK
  <2>2. [tx[r] EXCEPT !.view = balance, !.call = "trip"] \in Tx
    BY <1>1 DEF Tx
  <2>3. tx' \in [Requests -> Tx]
    BY <2>1, <2>2 DEF Inv, TypeOK
  <2>4. pc' \in [Requests -> Stages]
    BY <1>1, <1>4 DEF Stages, InFlight
  <2>5. TypeOK'
    BY <1>4, <2>3, <2>4 DEF Inv, TypeOK, db, provider
  <2>6. CacheOK'
    BY <1>4 DEF Inv, CacheOK
  <2>7. SessionOK(r)'
    <3>1. /\ tx'[r].call = "trip" /\ tx'[r].asked = tx[r].asked
          /\ tx'[r].left = tx[r].left /\ tx'[r].ride = tx[r].ride /\ tx'[r].view = balance
      BY <1>1, <2>1 DEF Inv, TypeOK, Tx
    <3>2. /\ pc'[r] = IF r \in RideRequests THEN "token" ELSE "charge"
          /\ booked'[r] = 0 /\ UNCHANGED <<posted, trips, fares, now>>
      BY <1>1, <1>4 DEF Inv, TypeOK, db, provider
    <3>3. tx[r].left # <<>>
      BY <1>1 DEF Inv, SessionOK, Owing
    <3>4. Whole(r)' /\ Unbegun(r)' /\ Calling(r)' /\ Owing(r)'
      BY <3>1, <3>2, <3>3 DEF Whole, Unbegun, Calling, Owing
    <3>5. r \in RideRequests => Price(tx[r].ride) <= balance
      BY <1>2, <1>4
    <3>6. r \in RideRequests => Priced(r)' /\ Known(r)' /\ Fared(r)'
      BY <1>2, <3>1, <3>2, <3>5 DEF Priced, Known, Fared, ForTrip, Answering
    <3> QED
      BY <3>4, <3>6 DEF SessionOK
  <2> QED
    BY <1>4, <2>5, <2>6, <2>7, SessionStep DEF Inv, TypeOK, db, provider
<1> QED
  BY <1>3, <1>4 DEF EnsureBudget

\* The answer to the request for a trip that the provider dispatched.
LEMMA TripAnswerStep == ASSUME Inv, NEW r \in Requests, TripAnswer(r) PROVE Inv'
<1>1. /\ pc[r] = "sent" /\ tx[r].call = "trip" /\ r \in trips /\ tx[r] \in Tx
      /\ booked[r] = 0 /\ r \in RideRequests
  BY DEF TripAnswer, Inv, TypeOK, SessionOK, Whole
<1>2. tx' = [tx EXCEPT ![r] = [tx[r] EXCEPT !.bearer = 0, !.since = 0]]
  BY DEF TripAnswer, Inv, TypeOK
<1>3. [tx[r] EXCEPT !.bearer = 0, !.since = 0] \in Tx
  BY <1>1 DEF Tx
<1>4. tx' \in [Requests -> Tx]
  BY <1>2, <1>3 DEF Inv, TypeOK
<1>5. TypeOK'
  BY <1>4 DEF TripAnswer, Inv, TypeOK, Stages, InFlight, db, provider
<1>6. CacheOK'
  BY DEF TripAnswer, Inv, CacheOK
<1>7. SessionOK(r)'
  <2>1. /\ tx'[r].asked = tx[r].asked /\ tx'[r].left = tx[r].left
        /\ tx'[r].ride = tx[r].ride /\ tx'[r].view = tx[r].view /\ tx'[r].call = "trip"
    BY <1>1, <1>2 DEF Inv, TypeOK, Tx
  <2>2. /\ pc'[r] = "charge" /\ booked'[r] = 0
        /\ UNCHANGED <<posted, trips, fares, now>>
    BY <1>1 DEF TripAnswer, Inv, TypeOK, db, provider
  <2>3. Priced(r) /\ Fared(r)
    BY <1>1 DEF Inv, SessionOK
  <2>4. Whole(r)' /\ Unbegun(r)' /\ Calling(r)' /\ Owing(r)'
    BY <1>1, <2>1, <2>2, <2>3 DEF Whole, Unbegun, Calling, Owing, Priced, ForTrip
  <2>5. Priced(r)'
    BY <1>1, <2>1, <2>2, <2>3 DEF Priced, ForTrip
  <2>6. Known(r)' /\ Fared(r)'
    BY <1>1, <2>1, <2>2, <2>3 DEF Known, Fared, FareOf, Answering
  <2> QED
    BY <2>4, <2>5, <2>6 DEF SessionOK
<1> QED
  BY <1>5, <1>6, <1>7, SessionStep DEF TripAnswer, Inv, TypeOK, db, provider

\* A ride is never refused at its charge: the loaded row covers its price.  A purchase
\* takes the next item off.
LEMMA ChargeStep == ASSUME Inv, NEW r \in Requests, Charge(r) PROVE Inv'
<1> DEFINE amount == Head(tx[r].left)
<1>1. /\ pc[r] = "charge" /\ tx[r] \in Tx /\ tx[r].left \in Seq(Int) /\ tx[r].left # <<>>
      /\ booked[r] = 0 /\ pc \in [Requests -> Stages] /\ tx[r].view \in Int
  BY DEF Charge, Inv, TypeOK, SessionOK, Whole, Owing, Tx
<1>2. /\ amount \in Int /\ Tail(tx[r].left) \in Seq(Int)
      /\ Len(tx[r].left) # 1 => Tail(tx[r].left) # <<>>
  <2>1. amount \in Int /\ Tail(tx[r].left) \in Seq(Int)
        /\ Len(Tail(tx[r].left)) = Len(tx[r].left) - 1
    BY <1>1, HeadTailProperties
  <2>2. Len(tx[r].left) \in Nat /\ Len(<<>>) = 0
    BY <1>1, LenProperties, EmptySeq
  <2>3. Len(tx[r].left) # 1 => Len(Tail(tx[r].left)) # 0
    BY <2>1, <2>2
  <2> QED
    BY <2>1, <2>2, <2>3
<1>3. r \in RideRequests =>
          /\ Priced(r) /\ Known(r) /\ Fared(r) /\ tx[r].left = <<Price(tx[r].ride)>>
          /\ Price(tx[r].ride) \in Nat /\ Price(tx[r].ride) <= tx[r].view
  BY <1>1, PriceType DEF Inv, SessionOK, Priced, Tx
<1>4. CASE (amount < 0 \/ ~Affordable(r, amount)) /\ Rollback(r, "refused")
  <2>1. r \in RideRequests => amount = Price(tx[r].ride)
    BY <1>3
  <2>2. r \notin RideRequests
    BY <1>2, <1>3, <1>4, <2>1 DEF Affordable
  <2> QED
    BY <1>1, <1>4, <2>2, RollbackStep DEF InFlight
<1>5. CASE /\ tx' = [tx EXCEPT ![r].view = @ - amount, ![r].left = Tail(@)]
           /\ pc' = [pc EXCEPT ![r] = IF Len(tx[r].left) = 1 THEN "commit" ELSE "charge"]
           /\ UNCHANGED <<db, provider, cache, now>>
  <2>1. tx' = [tx EXCEPT ![r] = [tx[r] EXCEPT !.view = tx[r].view - amount,
                                              !.left = Tail(tx[r].left)]]
    BY <1>1, <1>5 DEF Inv, TypeOK, Tx
  <2>2. [tx[r] EXCEPT !.view = tx[r].view - amount, !.left = Tail(tx[r].left)] \in Tx
    <3>1. tx[r].view - amount \in Int
      BY <1>1, <1>2
    <3> HIDE DEF amount
    <3> QED
      BY <1>1, <1>2, <3>1 DEF Tx
  <2>3. tx' \in [Requests -> Tx]
    BY <2>1, <2>2 DEF Inv, TypeOK
  <2>4. pc' \in [Requests -> Stages]
    BY <1>1, <1>5 DEF Stages, InFlight
  <2>5. TypeOK'
    BY <1>5, <2>3, <2>4 DEF Inv, TypeOK, db, provider
  <2>6. CacheOK'
    BY <1>5 DEF Inv, CacheOK
  <2>7. SessionOK(r)'
    <3>1. /\ tx'[r].asked = tx[r].asked /\ tx'[r].ride = tx[r].ride
          /\ tx'[r].left = Tail(tx[r].left) /\ tx'[r].call = tx[r].call
      BY <1>1, <2>1 DEF Inv, TypeOK, Tx
    <3>2. /\ pc'[r] = IF Len(tx[r].left) = 1 THEN "commit" ELSE "charge"
          /\ booked'[r] = 0 /\ UNCHANGED <<posted, trips, fares, now>>
      BY <1>1, <1>5 DEF Inv, TypeOK, db, provider
    <3>3. Whole(r)' /\ Unbegun(r)' /\ Calling(r)' /\ Owing(r)'
      BY <1>2, <3>1, <3>2 DEF Whole, Unbegun, Calling, Owing
    <3>4. ASSUME r \in RideRequests PROVE Priced(r)' /\ Known(r)' /\ Fared(r)'
      <4>1. Len(tx[r].left) = 1
        BY <1>3, <3>4
      <4>2. pc'[r] = "commit"
        BY <3>2, <4>1
      <4>3. tx[r].asked = <<Price(tx[r].ride)>> /\ r \in trips /\ fares[r] = FareOf(r)
        BY <1>1, <1>3, <3>4 DEF Priced, Known, Fared, Answering
      <4> QED
        BY <3>1, <3>2, <4>2, <4>3 DEF Priced, Known, Fared, ForTrip, Answering, FareOf
    <3> QED
      BY <3>3, <3>4 DEF SessionOK
  <2> QED
    BY <1>5, <2>5, <2>6, <2>7, SessionStep DEF Inv, TypeOK, db, provider
<1> QED
  BY <1>4, <1>5 DEF Charge

\* A commit books everything that was asked for.
LEMMA CommitStep == ASSUME Inv, NEW r \in Requests, Commit(r) PROVE Inv'
<1> DEFINE kept == [CleanTx EXCEPT !.asked = tx[r].asked, !.ride = tx[r].ride]
<1>1. /\ pc[r] = "commit" /\ tx[r] \in Tx /\ tx[r].asked \in Seq(Int) /\ tx[r].view \in Int
      /\ pc' = [pc EXCEPT ![r] = "done"] /\ booked' = [booked EXCEPT ![r] = Len(tx[r].asked)]
      /\ tx' = [tx EXCEPT ![r] = kept]
  BY DEF Commit, Inv, TypeOK, Tx
<1>2. kept \in Tx /\ kept.asked = tx[r].asked /\ kept.ride = tx[r].ride
  BY <1>1, CleanType DEF Tx
<1>3. TypeOK'
  <2>1. tx' \in [Requests -> Tx] /\ pc' \in [Requests -> Stages]
    BY <1>1, <1>2 DEF Inv, TypeOK, Stages, Answered
  <2>2. booked' \in [Requests -> Nat] /\ balance' \in Int
    BY <1>1 DEF Commit, Inv, TypeOK
  <2> QED
    BY <2>1, <2>2 DEF Commit, Inv, TypeOK, provider
<1>4. CacheOK'
  BY DEF Commit, Inv, CacheOK
<1>5. SessionOK(r)'
  <2>1. /\ pc'[r] = "done" /\ booked'[r] = Len(tx[r].asked) /\ tx'[r] = kept
        /\ UNCHANGED <<posted, trips, fares, now>>
    BY <1>1 DEF Commit, Inv, TypeOK, provider
  <2>2. tx'[r].asked = tx[r].asked /\ tx'[r].ride = tx[r].ride
    BY <1>2, <2>1
  <2>3. Whole(r)' /\ Unbegun(r)' /\ Calling(r)' /\ Owing(r)'
    BY <2>1, <2>2 DEF Whole, Unbegun, Calling, Owing
  <2>4. r \in RideRequests => Priced(r) /\ Known(r) /\ Fared(r)
    BY DEF Inv, SessionOK
  <2>5. r \in RideRequests => Priced(r)' /\ Known(r)' /\ Fared(r)'
    BY <1>1, <2>1, <2>2, <2>4 DEF Priced, Known, Fared, ForTrip, Answering, FareOf
  <2> QED
    BY <2>3, <2>5 DEF SessionOK
<1>6. /\ trips' = trips /\ posted' = posted /\ fares' = fares /\ now' = now
      /\ \A q \in Requests \ {r} :
             pc'[q] = pc[q] /\ tx'[q] = tx[q] /\ booked'[q] = booked[q]
  BY <1>1 DEF Commit, Inv, TypeOK, provider
<1> QED
  BY <1>3, <1>4, <1>5, <1>6, SessionStep

\* The provider goes on with what it was asked.
LEMMA DispatchStep == ASSUME Inv, NEW r \in Requests, Dispatch(r) PROVE Inv'
<1>1. TypeOK'
  BY DEF Dispatch, Inv, TypeOK, db
<1>2. CacheOK'
  BY DEF Dispatch, Inv, CacheOK
<1>3. ASSUME NEW q \in Requests PROVE SessionOK(q)'
  BY <1>3, Undisturbed DEF Dispatch, Inv, db
<1> QED
  BY <1>1, <1>2, <1>3 DEF Inv

\* The clock only ticks while no call outlives its timeout.
LEMMA TickStep == ASSUME Inv, Tick PROVE Inv'
<1>1. now \in Nat /\ now' = now + 1 /\ UNCHANGED <<db, holder, provider, cache, pc, tx>>
  BY DEF Inv, TypeOK, Tick
<1>2. TypeOK'
  BY <1>1 DEF Inv, TypeOK, db, provider
<1>3. CacheOK'
  BY <1>1 DEF Inv, TypeOK, CacheOK
<1>4. ASSUME NEW q \in Requests PROVE SessionOK(q)'
  <2>1. SessionOK(q) /\ tx[q] \in Tx /\ Timeout \in Nat
    BY RidesAssumption DEF Inv, TypeOK
  <2>2. pc[q] \in {"minting", "sent"} => now - tx[q].since < Timeout
    BY DEF Tick
  <2>3. tx[q].since \in Nat
    BY <2>1 DEF Tx
  <2>4. Calling(q)'
    BY <1>1, <2>1, <2>2, <2>3 DEF SessionOK, Calling
  <2> QED
    BY <1>1, <2>1, <2>4 DEF SessionOK, Whole, Unbegun, Owing, ForTrip, Answering, Priced, Known,
       Fared, FareOf, db, provider
<1> QED
  BY <1>2, <1>3, <1>4 DEF Inv

\* A stuttering step.
LEMMA StutterStep == ASSUME Inv, UNCHANGED vars PROVE Inv'
<1>1. UNCHANGED <<balance, booked, posted, trips, fares, cache, now, pc, tx>>
  BY DEF vars, db, provider
<1>2. TypeOK' /\ CacheOK'
  BY <1>1 DEF Inv, TypeOK, CacheOK
<1>3. ASSUME NEW q \in Requests PROVE SessionOK(q)'
  BY <1>1, Undisturbed DEF Inv
<1> QED
  BY <1>2, <1>3 DEF Inv

\* The invariant is inductive.
LEMMA NextStep == Inv /\ [Next]_vars => Inv'
<1> SUFFICES ASSUME Inv, [Next]_vars PROVE Inv'
  OBVIOUS
<1>1. ASSUME NEW r \in Requests, BookRide(r) \/ Confirm(r) \/ Dispatch(r) \/ Fail(r)
      PROVE  Inv'
  BY <1>1, BookRideStep, ConfirmStep, DispatchStep, UpstreamStep
<1>2. ASSUME NEW r \in Requests, Proceed(r) PROVE Inv'
  BY <1>2, UseTokenStep, MintStep, UpstreamStep, EstimatesStep, EnsureBudgetStep,
     TripAnswerStep, ChargeStep, CommitStep DEF Proceed
<1> QED
  BY <1>1, <1>2, TickStep, StutterStep DEF Next

\* In every state of every behaviour.
LEMMA Invariance == Spec => []Inv
BY InitInv, NextStep, PTL DEF Spec

-----------------------------------------------------------------------------
(* What it shows *)

\* The variables have their types.
THEOREM TypeCorrect == Spec => []TypeOK
<1>1. Inv => TypeOK
  BY DEF Inv
<1> QED
  BY <1>1, Invariance, PTL

\* A ride that is refused was never requested from the provider: its wallet decides on
\* the balance that the price was compared with before.
THEOREM RefusedSafe == Spec => []RefusedRideNeverRequested
<1>1. Inv => RefusedRideNeverRequested
  BY DEF Inv, SessionOK, Known, Answering, RefusedRideNeverRequested, Requests
<1> QED
  BY <1>1, Invariance, PTL

\* A ride that was charged was dispatched.
THEOREM ChargedSafe == Spec => []ChargedRideDispatched
<1>1. Inv => ChargedRideDispatched
  <2> SUFFICES ASSUME Inv, NEW r \in RideRequests, booked[r] > 0 PROVE r \in trips
    BY DEF ChargedRideDispatched
  <2>1. SessionOK(r)
    BY DEF Inv, Requests
  <2>2. pc[r] = "done"
    BY <2>1 DEF SessionOK, Whole
  <2> QED
    BY <2>1, <2>2 DEF SessionOK, Known
<1> QED
  BY <1>1, Invariance, PTL

\* A ride is charged at the fare its trip was requested at, where that is the fare of its
\* search and cannot be mistaken for cents.
THEOREM ChargeHonest == Spec => []ChargedAsRequested
<1>1. Inv => ChargedAsRequested
  <2> SUFFICES ASSUME Inv, NEW r \in RideRequests, booked[r] > 0, NamedFare[r] = Open,
                      Plain(tx[r].ride)
               PROVE  fares[r] = Due(tx[r].ride) /\ fares[r] \in {Open, tx[r].asked[1]}
    BY DEF ChargedAsRequested
  <2>1. SessionOK(r) /\ tx[r].ride \in Offers
    BY DEF Inv, TypeOK, Requests, Tx
  <2>2. pc[r] = "done"
    BY <2>1 DEF SessionOK, Whole
  <2>3. fares[r] = Due(tx[r].ride) /\ tx[r].asked = <<Price(tx[r].ride)>>
    BY <2>1, <2>2 DEF SessionOK, Fared, Priced, FareOf
  <2> QED
    BY <2>1, <2>3, PlainFare
<1> QED
  BY <1>1, Invariance, PTL

\* A plan is booked with all its items, or not at all.
THEOREM PlansWhole == Spec => []PlanWhole
<1>1. Inv => PlanWhole
  BY DEF Inv, SessionOK, Whole, PlanWhole
<1> QED
  BY <1>1, Invariance, PTL

\* No call reaches the provider with a token that has expired.
THEOREM TokensLive == Spec => []TokenLive
<1>1. Inv => TokenLive
  <2> SUFFICES ASSUME Inv, NEW r \in RideRequests, pc[r] = "sent" PROVE now <= tx[r].bearer
    BY DEF TokenLive
  <2>1. SessionOK(r) /\ tx[r] \in Tx /\ now \in Nat /\ Timeout \in Nat
    BY RidesAssumption DEF Inv, TypeOK, Requests
  <2>2. tx[r].since \in Nat /\ tx[r].bearer \in Nat
    BY <2>1 DEF Tx
  <2> QED
    BY <2>1, <2>2 DEF SessionOK, Calling
<1> QED
  BY <1>1, Invariance, PTL

-----------------------------------------------------------------------------
(* Upstreams: exchange rates *)

\* A behaviour about any of the three is one of Rides, whose theorems it inherits.
THEOREM RidesComposed == UpstreamsSpec => Spec
<1>1. UpstreamsInit => Init
  BY DEF UpstreamsInit
<1>2. [UpstreamsNext]_upstreamVars => [Next]_vars
  BY DEF UpstreamsNext, upstreamVars
<1> QED
  BY <1>1, <1>2, PTL DEF UpstreamsSpec, Spec

RateStages == {"idle", "same", "asked", "fetching", "done", "refused", "failed", "upstream"}
RateTables == [live : BOOLEAN, made : Int, per : Currencies, body : R!Bodies]
RateEntries == [stored : Int, table : RateTables]
RateQuotes == [pc : RateStages, op : {"fx", "convert", "currencies"}, from : Currencies,
               to : Currencies, since : Nat, answered : Nat, table : RateTables]

RatesTyped ==
    /\ clock \in Nat
    /\ caches \in [R!Apis -> [Currencies -> RateEntries]]
    /\ quote \in [Quotes -> RateQuotes]

\* What is cached under base: live rates per it that were made while they were fetched.
Live(entry, base) ==
    entry.stored # -1 =>
        /\ entry.stored <= clock /\ entry.table.live /\ entry.table.per = base
        /\ entry.stored - entry.table.made <= Patience

\* What a request s may be answered with at a moment.
Honest(s, table, moment) ==
    IF table.live THEN moment - table.made < TTL + Patience /\ table.per = s.from
    ELSE s.op # "fx" /\ table.made = moment /\ (s.from \in Listed => table.per = s.from)

\* A fetch has not outlived its timeout.
Quoting(s) ==
    /\ s.pc = "fetching" => s.since <= clock /\ clock - s.since <= Patience
    /\ s.pc = "done" => Honest(s, s.table, s.answered)

RatesInv ==
    /\ RatesTyped
    /\ \A a \in R!Apis, b \in Currencies : Live(caches[a][b], b)
    /\ \A q \in Quotes : Quoting(quote[q])

LEMMA RateConstants ==
    /\ Anchor \in Currencies /\ Listed \subseteq Currencies
    /\ TTL \in Nat \ {0} /\ Patience \in Nat
BY UpstreamsAssumption DEF R!RatesAssumption

\* Nothing is cached, and an idle request has nothing.
LEMMA MissType ==
    /\ R!Miss \in RateEntries /\ R!Miss.stored = -1
    /\ R!Miss.table \in RateTables
    /\ R!NoQuote \in RateQuotes /\ R!NoQuote.pc = "idle"
BY RateConstants DEF R!Miss, R!Table, R!NoQuote, R!Bodies, RateEntries, RateTables, RateQuotes,
    RateStages

LEMMA RatesInit == R!Init => RatesInv
<1> SUFFICES ASSUME R!Init PROVE RatesInv
  OBVIOUS
<1>1. RatesTyped
  BY MissType DEF R!Init, RatesTyped
<1>2. \A a \in R!Apis, b \in Currencies : Live(caches[a][b], b)
  BY MissType DEF R!Init, Live
<1>3. \A q \in Quotes : Quoting(quote[q])
  BY MissType DEF R!Init, Quoting
<1> QED
  BY <1>1, <1>2, <1>3 DEF RatesInv

\* An answer, which is honest if there is one.
LEMMA AnswerStep ==
    ASSUME RatesInv, clock' = clock, NEW q \in Quotes, NEW outcome \in RateStages \ {"fetching"},
           NEW table \in RateTables, outcome = "done" => Honest(quote[q], table, clock),
           R!Answer(q, outcome, table)
    PROVE  /\ quote' \in [Quotes -> RateQuotes]
           /\ \A u \in Quotes : Quoting(quote[u])'
<1> DEFINE s == quote[q]
           t == [s EXCEPT !.pc = outcome, !.table = table, !.answered = clock]
<1>0. s \in RateQuotes /\ clock \in Nat /\ quote \in [Quotes -> RateQuotes]
  BY DEF RatesInv, RatesTyped
<1>1. quote' = [quote EXCEPT ![q] = t]
  BY <1>0 DEF R!Answer, RateQuotes
<1>2. t \in RateQuotes
  BY <1>0 DEF RateQuotes
<1>3. t.pc = outcome /\ t.table = table /\ t.answered = clock /\ t.from = s.from /\ t.op = s.op
  BY <1>0 DEF RateQuotes
<1> HIDE DEF t
<1>4. quote' \in [Quotes -> RateQuotes]
  BY <1>0, <1>1, <1>2
<1>5. \A u \in Quotes : Quoting(quote[u])'
  <2> SUFFICES ASSUME NEW u \in Quotes PROVE Quoting(quote[u])'
    OBVIOUS
  <2>1. CASE u = q
    <3>1. quote'[u] = t
      BY <1>0, <1>1, <2>1
    <3>2. t.pc = "done" => Honest(t, t.table, t.answered)
      BY <1>3 DEF Honest
    <3> QED
      BY <1>3, <3>1, <3>2 DEF Quoting, Honest
  <2>2. CASE u # q
    <3>1. quote'[u] = quote[u] /\ Quoting(quote[u])
      BY <1>0, <1>1, <2>2 DEF RatesInv
    <3> QED
      BY <3>1 DEF Quoting, Honest
  <2> QED
    BY <2>1, <2>2
<1> QED
  BY <1>4, <1>5

LEMMA AskStep == ASSUME RatesInv, NEW q \in Quotes, R!Ask(q) PROVE RatesInv'
<1>1. PICK op \in {"fx", "convert", "currencies"}, from \in Currencies, to \in Currencies :
        quote' = [quote EXCEPT ![q] =
            [R!NoQuote EXCEPT !.op = op, !.from = from, !.to = to,
                 !.pc = IF op = "convert" /\ from = to THEN "same" ELSE "asked"]]
  BY DEF R!Ask
<1> DEFINE outcome == IF op = "convert" /\ from = to THEN "same" ELSE "asked"
           t == [R!NoQuote EXCEPT !.op = op, !.from = from, !.to = to, !.pc = outcome]
<1>2. outcome \in {"same", "asked"}
  OBVIOUS
<1> HIDE DEF outcome
<1>3. t \in RateQuotes /\ t.pc = outcome
  BY <1>2, MissType DEF RateQuotes, RateStages
<1>4. quote' = [quote EXCEPT ![q] = t] /\ UNCHANGED <<clock, caches>>
  BY <1>1 DEF R!Ask, outcome
<1> HIDE DEF t
<1>5. RatesTyped'
  BY <1>3, <1>4 DEF RatesInv, RatesTyped
<1>6. \A u \in Quotes : Quoting(quote[u])'
  BY <1>2, <1>3, <1>4 DEF RatesInv, RatesTyped, Quoting, Honest
<1>7. \A a \in R!Apis, b \in Currencies : Live(caches[a][b], b)'
  BY <1>4 DEF RatesInv, Live
<1> QED
  BY <1>5, <1>6, <1>7 DEF RatesInv

\* The endpoints of the wallet and of PaxPal.
LEMMA ApiType ==
    ASSUME NEW q \in Quotes
    PROVE  R!Api(q) \in R!Apis /\ (R!Api(q) = "wallet" <=> quote[q].op # "fx")
BY DEF R!Api, R!Apis

LEMMA OutcomeType ==
    ASSUME NEW q \in Quotes, NEW table
    PROVE  R!Outcome(q, table) \in {"failed", "refused", "done"}
BY DEF R!Outcome

LEMMA UseCachedStep == ASSUME RatesInv, NEW q \in Quotes, R!UseCached(q) PROVE RatesInv'
<1> DEFINE entry == caches[R!Api(q)][quote[q].from]
           outcome == R!Outcome(q, entry.table)
<1>1. R!Fresh(entry) /\ R!Answer(q, outcome, entry.table) /\ UNCHANGED <<clock, caches>>
  BY DEF R!UseCached
<1>2. /\ quote[q] \in RateQuotes /\ clock \in Nat
      /\ caches \in [R!Apis -> [Currencies -> RateEntries]]
  BY DEF RatesInv, RatesTyped
<1>3. quote[q].from \in Currencies
  BY <1>2 DEF RateQuotes
<1>4. entry \in RateEntries /\ Live(entry, quote[q].from)
  BY <1>2, <1>3, ApiType DEF RatesInv
<1>5. outcome \in RateStages \ {"fetching"}
  BY OutcomeType DEF RateStages
<1> HIDE DEF entry, outcome
<1>6. entry.table \in RateTables /\ entry.stored \in Int /\ entry.table.made \in Int
  BY <1>4 DEF RateEntries, RateTables
<1>7. Honest(quote[q], entry.table, clock)
  BY <1>1, <1>2, <1>4, <1>6, RateConstants DEF R!Fresh, Live, Honest
<1>8. quote' \in [Quotes -> RateQuotes] /\ \A u \in Quotes : Quoting(quote[u])'
  BY <1>1, <1>5, <1>6, <1>7, AnswerStep
<1>9. \A a \in R!Apis, b \in Currencies : Live(caches[a][b], b)'
  BY <1>1 DEF RatesInv, Live
<1> QED
  BY <1>1, <1>8, <1>9 DEF RatesInv, RatesTyped

LEMMA FetchStep == ASSUME RatesInv, NEW q \in Quotes, R!Fetch(q) PROVE RatesInv'
<1> DEFINE s == quote[q]
           t == [s EXCEPT !.pc = "fetching", !.since = clock]
<1>0. s \in RateQuotes /\ clock \in Nat /\ quote \in [Quotes -> RateQuotes]
  BY DEF RatesInv, RatesTyped
<1>1. quote' = [quote EXCEPT ![q] = t] /\ UNCHANGED <<clock, caches>>
  BY <1>0 DEF R!Fetch, RateQuotes
<1>2. t \in RateQuotes /\ t.pc = "fetching" /\ t.since = clock
  BY <1>0 DEF RateQuotes, RateStages
<1> HIDE DEF t
<1>3. RatesTyped'
  BY <1>0, <1>1, <1>2 DEF RatesInv, RatesTyped
<1>4. \A u \in Quotes : Quoting(quote[u])'
  BY <1>0, <1>1, <1>2, RateConstants DEF RatesInv, Quoting, Honest
<1>5. \A a \in R!Apis, b \in Currencies : Live(caches[a][b], b)'
  BY <1>1 DEF RatesInv, Live
<1> QED
  BY <1>3, <1>4, <1>5 DEF RatesInv

\* The end of a fetch with a table, honest now, that is live rates fetched in time if it
\* is one of the provider's.
LEMMA TakeStep ==
    ASSUME RatesInv, NEW q \in Quotes, NEW table \in RateTables, UNCHANGED clock,
           Honest(quote[q], table, clock),
           table.live => clock - table.made <= Patience /\ table.per = quote[q].from,
           R!Take(q, table)
    PROVE  RatesInv'
<1> DEFINE outcome == R!Outcome(q, table)
           api == R!Api(q)
           base == quote[q].from
           e == [stored |-> clock, table |-> table]
<1>1. R!Answer(q, outcome, table)
  BY DEF R!Take
<1>2. outcome \in RateStages \ {"fetching"}
  BY OutcomeType DEF RateStages
<1> HIDE DEF outcome
<1>3. quote' \in [Quotes -> RateQuotes] /\ \A u \in Quotes : Quoting(quote[u])'
  BY <1>1, <1>2, AnswerStep
<1>4. /\ quote[q] \in RateQuotes /\ clock \in Nat
      /\ caches \in [R!Apis -> [Currencies -> RateEntries]]
  BY DEF RatesInv, RatesTyped
<1>5. base \in Currencies /\ api \in R!Apis
  BY <1>4, ApiType DEF RateQuotes
<1>6. e \in RateEntries /\ e.stored = clock /\ e.table = table
  BY <1>4 DEF RateEntries
<1>7. CASE R!Keeps(api, table)
  <2>1. caches' = [caches EXCEPT ![api][base] = e]
    BY <1>7 DEF R!Take
  <2>2. table.live
    BY <1>7 DEF R!Keeps
  <2> HIDE DEF e, api, base
  <2>3. caches' \in [R!Apis -> [Currencies -> RateEntries]]
    BY <1>4, <1>5, <1>6, <2>1
  <2>4. \A a \in R!Apis, b \in Currencies : Live(caches[a][b], b)'
    <3> SUFFICES ASSUME NEW a \in R!Apis, NEW b \in Currencies PROVE Live(caches[a][b], b)'
      OBVIOUS
    <3>1. CASE a = api /\ b = base
      <4>1. caches'[a][b] = e
        BY <1>4, <1>5, <2>1, <3>1
      <4> QED
        BY <1>4, <1>6, <2>2, <3>1, <4>1 DEF Live, base
    <3>2. CASE ~(a = api /\ b = base)
      <4>1. caches'[a][b] = caches[a][b]
        BY <1>4, <1>5, <2>1, <3>2
      <4>2. Live(caches[a][b], b)
        BY DEF RatesInv
      <4> QED
        BY <4>1, <4>2 DEF Live
    <3> QED
      BY <3>1, <3>2
  <2> QED
    BY <1>3, <1>4, <2>3, <2>4 DEF RatesInv, RatesTyped
<1>8. CASE ~R!Keeps(api, table)
  <2>1. caches' = caches
    BY <1>8 DEF R!Take
  <2>2. \A a \in R!Apis, b \in Currencies : Live(caches[a][b], b)'
    BY <2>1 DEF RatesInv, Live
  <2> QED
    BY <1>3, <1>4, <2>1, <2>2 DEF RatesInv, RatesTyped
<1> QED
  BY <1>7, <1>8

\* The fixed table is honest to the wallet, and PaxPal is not answered.
LEMMA WithoutStep ==
    ASSUME RatesInv, NEW q \in Quotes, NEW error \in {"failed", "upstream"}, UNCHANGED clock,
           R!Without(q, error)
    PROVE  RatesInv'
<1>0. /\ quote[q] \in RateQuotes /\ clock \in Nat
      /\ caches \in [R!Apis -> [Currencies -> RateEntries]]
  BY DEF RatesInv, RatesTyped
<1>1. CASE R!Api(q) = "wallet"
  <2> DEFINE base == quote[q].from
             per == IF base \in Listed THEN base ELSE Anchor
             table == R!Fallback(base)
  <2>1. base \in Currencies /\ quote[q].op # "fx"
    BY <1>0, <1>1, ApiType DEF RateQuotes
  <2>2. per \in Currencies /\ (base \in Listed => per = base)
    BY <2>1, RateConstants
  <2>3. table = [live |-> FALSE, made |-> clock, per |-> per, body |-> "rates"]
    BY DEF R!Fallback, R!Table
  <2> HIDE DEF per
  <2>4. /\ table \in RateTables /\ table.live = FALSE /\ table.made = clock /\ table.per = per
    BY <1>0, <2>2, <2>3 DEF RateTables, R!Bodies
  <2>5. R!Take(q, table)
    BY <1>1 DEF R!Without
  <2> HIDE DEF table
  <2>6. Honest(quote[q], table, clock)
    BY <2>1, <2>2, <2>4 DEF Honest
  <2> QED
    BY <2>4, <2>5, <2>6, TakeStep
<1>2. CASE R!Api(q) # "wallet"
  <2>1. R!Answer(q, error, R!Miss.table) /\ UNCHANGED caches
    BY <1>2 DEF R!Without
  <2>2. quote' \in [Quotes -> RateQuotes] /\ \A u \in Quotes : Quoting(quote[u])'
    BY <2>1, MissType, AnswerStep DEF RateStages
  <2>3. \A a \in R!Apis, b \in Currencies : Live(caches[a][b], b)'
    BY <2>1 DEF RatesInv, Live
  <2> QED
    BY <1>0, <2>1, <2>2, <2>3 DEF RatesInv, RatesTyped
<1> QED
  BY <1>1, <1>2

LEMMA ProviderAnswersStep ==
    ASSUME RatesInv, NEW q \in Quotes, R!ProviderAnswers(q) PROVE RatesInv'
<1>1. /\ quote[q].pc = "fetching" /\ UNCHANGED clock
      /\ quote[q] \in RateQuotes /\ clock \in Nat /\ Quoting(quote[q])
  BY DEF R!ProviderAnswers, RatesInv, RatesTyped
<1>2. PICK made \in quote[q].since .. clock, body \in R!Bodies :
        IF body = "noise" \/ (body = "empty" /\ R!Api(q) = "wallet")
        THEN R!Without(q, "failed")
        ELSE R!Take(q, R!Table(TRUE, made, quote[q].from, body))
  BY DEF R!ProviderAnswers
<1>3. CASE R!Without(q, "failed")
  BY <1>1, <1>3, WithoutStep
<1>4. CASE R!Take(q, R!Table(TRUE, made, quote[q].from, body))
  <2> DEFINE table == R!Table(TRUE, made, quote[q].from, body)
  <2>1. /\ quote[q].since \in Nat /\ quote[q].from \in Currencies
        /\ quote[q].since <= clock /\ clock - quote[q].since <= Patience
    BY <1>1 DEF RateQuotes, Quoting
  <2>2. made \in Int /\ clock - made <= Patience
    BY <1>1, <2>1, RateConstants
  <2>3. /\ table \in RateTables /\ table.live = TRUE /\ table.made = made
        /\ table.per = quote[q].from
    BY <2>1, <2>2 DEF R!Table, RateTables
  <2>4. R!Take(q, table)
    BY <1>4
  <2> HIDE DEF table
  <2>5. Honest(quote[q], table, clock)
    BY <1>1, <2>2, <2>3, RateConstants DEF Honest
  <2> QED
    BY <1>1, <2>2, <2>3, <2>4, <2>5, TakeStep
<1> QED
  BY <1>2, <1>3, <1>4

LEMMA ProviderFailsStep == ASSUME RatesInv, NEW q \in Quotes, R!ProviderFails(q) PROVE RatesInv'
BY WithoutStep DEF R!ProviderFails

\* The clock stops while a fetch is due.
LEMMA RatesTickStep == ASSUME RatesInv, R!Tick PROVE RatesInv'
<1>0. /\ clock \in Nat /\ clock' = clock + 1 /\ UNCHANGED <<caches, quote>>
      /\ caches \in [R!Apis -> [Currencies -> RateEntries]]
      /\ quote \in [Quotes -> RateQuotes]
  BY DEF R!Tick, RatesInv, RatesTyped
<1>1. \A a \in R!Apis, b \in Currencies : Live(caches[a][b], b)'
  <2> SUFFICES ASSUME NEW a \in R!Apis, NEW b \in Currencies PROVE Live(caches[a][b], b)'
    OBVIOUS
  <2>1. caches[a][b] \in RateEntries /\ Live(caches[a][b], b)
    BY <1>0 DEF RatesInv
  <2>2. caches[a][b].stored \in Int
    BY <2>1 DEF RateEntries
  <2> QED
    BY <1>0, <2>1, <2>2 DEF Live
<1>2. \A u \in Quotes : Quoting(quote[u])'
  <2> SUFFICES ASSUME NEW u \in Quotes PROVE Quoting(quote[u])'
    OBVIOUS
  <2>1. /\ quote[u] \in RateQuotes /\ Quoting(quote[u])
        /\ quote[u].pc = "fetching" => clock - quote[u].since < Patience
    BY <1>0 DEF RatesInv, R!Tick
  <2>2. quote[u].since \in Nat
    BY <2>1 DEF RateQuotes
  <2> QED
    BY <1>0, <2>1, <2>2, RateConstants DEF Quoting, Honest
<1> QED
  BY <1>0, <1>1, <1>2 DEF RatesInv, RatesTyped

LEMMA RatesRestartStep == ASSUME RatesInv, R!Restart PROVE RatesInv'
<1>0. /\ UNCHANGED clock /\ clock \in Nat /\ quote \in [Quotes -> RateQuotes]
      /\ caches' = [a \in R!Apis |-> [b \in Currencies |-> R!Miss]]
  BY DEF R!Restart, RatesInv, RatesTyped
<1>1. caches' \in [R!Apis -> [Currencies -> RateEntries]]
  BY <1>0, MissType
<1>2. \A a \in R!Apis, b \in Currencies : Live(caches[a][b], b)'
  BY <1>0, MissType DEF Live
<1>3. \A u \in Quotes : quote'[u] \in RateQuotes /\ Quoting(quote[u])'
  <2> SUFFICES ASSUME NEW u \in Quotes PROVE quote'[u] \in RateQuotes /\ Quoting(quote[u])'
    OBVIOUS
  <2> DEFINE s == quote[u]
             t == [s EXCEPT !.pc = "failed"]
  <2>1. s \in RateQuotes /\ Quoting(s)
    BY <1>0 DEF RatesInv
  <2>2. t \in RateQuotes /\ t.pc = "failed"
    BY <2>1 DEF RateQuotes, RateStages
  <2>3. quote'[u] = s \/ quote'[u] = t
    BY DEF R!Restart
  <2> HIDE DEF s, t
  <2> QED
    BY <1>0, <2>1, <2>2, <2>3 DEF Quoting, Honest
<1>4. quote' \in [Quotes -> RateQuotes]
  <2>1. quote' = [u \in Quotes |-> quote'[u]]
    BY DEF R!Restart
  <2> QED
    BY <1>3, <2>1
<1> QED
  BY <1>0, <1>1, <1>2, <1>3, <1>4 DEF RatesInv, RatesTyped

LEMMA RatesQuiet == ASSUME RatesInv, UNCHANGED <<clock, caches, quote>> PROVE RatesInv'
<1>1. RatesTyped'
  BY DEF RatesInv, RatesTyped
<1>2. \A a \in R!Apis, b \in Currencies : Live(caches[a][b], b)'
  BY DEF RatesInv, Live
<1>3. \A u \in Quotes : Quoting(quote[u])'
  BY DEF RatesInv, Quoting, Honest
<1> QED
  BY <1>1, <1>2, <1>3 DEF RatesInv

\* Rates shown as live are hardly older than the cache allows, and the fixed rates do not
\* outlast the failure: what is cached is live and was fetched in time.
THEOREM RatesFresh == UpstreamsSpec => []RatesHonest
<1>1. UpstreamsInit => RatesInv
  BY RatesInit DEF UpstreamsInit
<1>2. RatesInv /\ [UpstreamsNext]_upstreamVars => RatesInv'
  <2> SUFFICES ASSUME RatesInv, [UpstreamsNext]_upstreamVars PROVE RatesInv'
    OBVIOUS
  <2>1. CASE R!Next
    BY <2>1, AskStep, UseCachedStep, FetchStep, ProviderAnswersStep, ProviderFailsStep,
       RatesTickStep, RatesRestartStep DEF R!Next
  <2>2. CASE UNCHANGED <<clock, caches, quote>>
    BY <2>2, RatesQuiet
  <2> QED
    BY <2>1, <2>2 DEF UpstreamsNext, upstreamVars, rateVars
<1>3. RatesInv => RatesHonest
  <2> SUFFICES ASSUME RatesInv, NEW q \in Quotes, quote[q].pc = "done"
               PROVE  LET t == quote[q].table IN
                      IF t.live
                      THEN quote[q].answered - t.made < TTL + Patience /\ t.per = quote[q].from
                      ELSE /\ R!Api(q) = "wallet"
                           /\ t.made = quote[q].answered
                           /\ quote[q].from \in Listed => t.per = quote[q].from
    BY DEF RatesHonest, R!RatesHonest, R!Done
  <2> QED
    BY ApiType DEF RatesInv, Quoting, Honest
<1> QED
  BY <1>1, <1>2, <1>3, PTL DEF UpstreamsSpec

-----------------------------------------------------------------------------
(* Upstreams: tracking a ride *)

Statuses == {"processing", "redispatched", "accepted", "rider_gone", "en_route_to_pickup",
             "on_trip", "en_route_to_dropoff", "droppedoff", "cancelled"}
PollStages == {"idle", "asked", "looked", "done", "upstream", "failed"}
Views == [status : {"arriving", "in_progress", "completed", "cancelled"}, progress : Int]
PollRecords == [pc : PollStages, live : BOOLEAN, sent : Nat, answered : Nat,
                raw : Statuses \cup {"none"}, shown : Views]

\* How far a trip is: before its passenger is in the car, on its way, over.  Unlike the
\* status, and the progress shown of it, this never falls back.
Height(status) ==
    IF status \in {"droppedoff", "cancelled"} THEN 2
    ELSE IF status \in {"on_trip", "en_route_to_dropoff"} THEN 1 ELSE 0

TrackingTyped ==
    /\ minute \in Nat
    /\ stage \in Statuses
    /\ poll \in [Polls -> PollRecords]

\* The provider has looked at the trip.
Saw(s) == s.live /\ s.pc \in {"looked", "done"}

Polling(s) ==
    /\ s.pc \in {"asked", "looked"} => s.live /\ s.sent <= minute
    /\ s.pc = "done" => s.sent <= s.answered /\ s.answered <= minute
    /\ s.pc = "done" /\ s.live => s.shown = T!MapStatus(s.raw)
    /\ s.pc = "done" /\ ~s.live => s.answered = s.sent /\ s.shown = T!Track(s.sent)
    /\ Saw(s) => s.raw \in Statuses /\ Height(s.raw) <= Height(stage)

\* A look for a question that was sent after an answer is of a later trip.
Ordered(s, t) ==
    Saw(s) /\ s.pc = "done" /\ Saw(t) /\ s.answered < t.sent => Height(s.raw) <= Height(t.raw)

TrackingInv ==
    /\ TrackingTyped
    /\ \A p \in Polls : Polling(poll[p])
    /\ \A p, q \in Polls : Ordered(poll[p], poll[q])

LEMMA HeightType == ASSUME NEW status PROVE Height(status) \in 0 .. 2
BY DEF Height

\* The trip does not fall back.
LEMMA Onward ==
    ASSUME NEW status \in Statuses, NEW next \in T!Successors(status)
    PROVE  next \in Statuses /\ Height(status) <= Height(next)
BY DEF T!Successors, Statuses, Height

\* A record of the sandbox's answer, or of what the provider's status is shown as.
LEMMA ShownType ==
    ASSUME NEW status \in {"arriving", "in_progress", "completed", "cancelled"},
           NEW progress \in Int
    PROVE  /\ T!Shown(status, progress) \in Views
           /\ T!Shown(status, progress).status = status
           /\ T!Shown(status, progress).progress = progress
BY DEF T!Shown, Views

LEMMA MapStatusType == ASSUME NEW raw PROVE T!MapStatus(raw) \in Views
BY ShownType DEF T!MapStatus

LEMMA PhaseConstants == PickupPhase \in Nat \ {0} /\ RideDuration \in Nat /\ PickupPhase < RideDuration
BY UpstreamsAssumption DEF T!TrackingAssumption

LEMMA Quotients ==
    ASSUME NEW n \in Nat \ {0}, NEW a \in Nat, NEW b \in Nat, a <= b
    PROVE  a \div n \in Nat /\ b \div n \in Nat /\ a \div n <= b \div n
OBVIOUS

LEMMA Quotient ==
    ASSUME NEW n \in Nat \ {0}, NEW a \in Nat
    PROVE  (n * a) \div n = a
OBVIOUS

\* The parts of a phase that are over: they grow with time, up to the whole.
LEMMA Portion ==
    ASSUME NEW n \in Nat \ {0}, NEW whole \in Nat, NEW a \in Nat, NEW b \in Nat, a <= b, b <= n
    PROVE  /\ (a * whole) \div n \in Nat /\ (b * whole) \div n \in Nat
           /\ (a * whole) \div n <= (b * whole) \div n
           /\ (b * whole) \div n <= whole
<1>1. /\ a * whole \in Nat /\ b * whole \in Nat /\ n * whole \in Nat
      /\ a * whole <= b * whole /\ b * whole <= n * whole
  OBVIOUS
<1>2. (n * whole) \div n = whole
  BY Quotient
<1> QED
  BY <1>1, <1>2, Quotients

\* The three parts of the ride of the sandbox.
LEMMA TrackParts ==
    ASSUME NEW elapsed \in Nat
    PROVE  /\ elapsed < PickupPhase =>
                T!Track(elapsed) = T!Shown("arriving", (elapsed * 20) \div PickupPhase)
           /\ elapsed >= PickupPhase /\ elapsed < RideDuration =>
                T!Track(elapsed) = T!Shown("in_progress",
                    20 + ((elapsed - PickupPhase) * 80) \div (RideDuration - PickupPhase))
           /\ elapsed >= RideDuration => T!Track(elapsed) = T!Shown("completed", 100)
BY PhaseConstants DEF T!Track

\* What they show.
LEMMA TrackType ==
    ASSUME NEW elapsed \in Nat
    PROVE  T!Track(elapsed) \in Views
<1> DEFINE part == (elapsed * 20) \div PickupPhase
           rest == ((elapsed - PickupPhase) * 80) \div (RideDuration - PickupPhase)
<1>1. CASE elapsed < PickupPhase
  <2>1. part \in Int
    BY PhaseConstants
  <2> QED
    BY <1>1, <2>1, TrackParts, ShownType
<1>2. CASE elapsed >= PickupPhase /\ elapsed < RideDuration
  <2>1. elapsed - PickupPhase \in Nat /\ RideDuration - PickupPhase \in Nat \ {0}
    BY <1>2, PhaseConstants
  <2>2. rest \in Int
    BY <2>1
  <2>3. 20 + rest \in Int
    BY <2>2
  <2> QED
    BY <1>2, <2>3, TrackParts, ShownType
<1>3. CASE elapsed >= RideDuration
  BY <1>3, TrackParts, ShownType
<1> QED
  BY <1>1, <1>2, <1>3, PhaseConstants

\* The ride of the sandbox does not fall back.
LEMMA TrackForward ==
    ASSUME NEW a \in Nat, NEW b \in Nat, a <= b
    PROVE  /\ T!Rank(T!Track(a).status) <= T!Rank(T!Track(b).status)
           /\ T!Track(a).progress <= T!Track(b).progress
<1> DEFINE part(e) == (e * 20) \div PickupPhase
           rest(e) == ((e - PickupPhase) * 80) \div (RideDuration - PickupPhase)
<1>0. /\ T!Rank("arriving") = 0 /\ T!Rank("in_progress") = 1 /\ T!Rank("completed") = 2
  BY DEF T!Rank
<1>1. ASSUME NEW e \in Nat, e < PickupPhase
      PROVE  /\ part(e) \in Nat /\ part(e) <= 20
             /\ T!Track(e).status = "arriving" /\ T!Track(e).progress = part(e)
  <2>1. part(e) \in Nat /\ part(e) <= 20
    BY <1>1, PhaseConstants, Portion
  <2> HIDE DEF part
  <2>2. T!Track(e) = T!Shown("arriving", part(e))
    BY <1>1, TrackParts DEF part
  <2> QED
    BY <2>1, <2>2, ShownType
<1>2. ASSUME NEW e \in Nat, e >= PickupPhase, e < RideDuration
      PROVE  /\ rest(e) \in Nat /\ rest(e) <= 80
             /\ T!Track(e).status = "in_progress" /\ T!Track(e).progress = 20 + rest(e)
  <2>1. /\ RideDuration - PickupPhase \in Nat \ {0} /\ e - PickupPhase \in Nat
        /\ e - PickupPhase <= RideDuration - PickupPhase
    BY <1>2, PhaseConstants
  <2>2. rest(e) \in Nat /\ rest(e) <= 80
    BY <2>1, Portion
  <2> HIDE DEF rest
  <2>3. T!Track(e) = T!Shown("in_progress", 20 + rest(e)) /\ 20 + rest(e) \in Int
    BY <1>2, <2>2, TrackParts DEF rest
  <2> QED
    BY <2>2, <2>3, ShownType
<1>3. ASSUME NEW e \in Nat, e >= RideDuration
      PROVE  T!Track(e).status = "completed" /\ T!Track(e).progress = 100
  BY <1>3, TrackParts, ShownType
<1>4. CASE b < PickupPhase
  <2>1. part(a) <= part(b)
    BY <1>4, PhaseConstants, Portion
  <2> HIDE DEF part
  <2>2. a < PickupPhase
    BY <1>4, PhaseConstants
  <2>3. T!Track(a).progress = part(a) /\ T!Track(a).status = "arriving"
    BY <1>1, <2>2
  <2>4. T!Track(b).progress = part(b) /\ T!Track(b).status = "arriving"
    BY <1>1, <1>4
  <2> QED
    BY <1>0, <2>1, <2>3, <2>4
<1>5. CASE a >= PickupPhase /\ b < RideDuration
  <2>1. /\ RideDuration - PickupPhase \in Nat \ {0} /\ a - PickupPhase \in Nat
        /\ b - PickupPhase \in Nat
        /\ a - PickupPhase <= b - PickupPhase
        /\ b - PickupPhase <= RideDuration - PickupPhase
    BY <1>5, PhaseConstants
  <2>2. rest(a) <= rest(b)
    BY <2>1, Portion
  <2> HIDE DEF rest
  <2>3. /\ a >= PickupPhase /\ a < RideDuration /\ b >= PickupPhase /\ b < RideDuration
    BY <1>5, PhaseConstants
  <2>4. T!Track(a).progress = 20 + rest(a) /\ T!Track(a).status = "in_progress"
        /\ rest(a) \in Nat
    BY <1>2, <2>3
  <2>5. T!Track(b).progress = 20 + rest(b) /\ T!Track(b).status = "in_progress"
        /\ rest(b) \in Nat
    BY <1>2, <2>3
  <2> QED
    BY <1>0, <2>2, <2>4, <2>5
<1>6. CASE ~(b < PickupPhase) /\ ~(a >= PickupPhase /\ b < RideDuration)
  <2> HIDE DEF part, rest
  <2>1. CASE b < RideDuration
    <3>1. a < PickupPhase /\ b >= PickupPhase
      BY <1>6, <2>1, PhaseConstants
    <3>2. T!Track(a).progress <= 20 /\ T!Track(a).status = "arriving"
      BY <1>1, <3>1
    <3>3. T!Track(b).progress >= 20 /\ T!Track(b).status = "in_progress"
          /\ T!Track(b).progress \in Nat
      BY <1>2, <2>1, <3>1
    <3>4. T!Track(a).progress \in Nat
      BY <1>1, <3>1
    <3> QED
      BY <1>0, <3>2, <3>3, <3>4
  <2>2. CASE b >= RideDuration
    <3>1. T!Track(b).progress = 100 /\ T!Track(b).status = "completed"
      BY <1>3, <2>2
    <3>2. /\ T!Track(a).progress \in Nat /\ T!Track(a).progress <= 100
          /\ T!Track(a).status \in {"arriving", "in_progress", "completed"}
      <4>1. CASE a < PickupPhase
        BY <1>1, <4>1
      <4>2. CASE a >= PickupPhase /\ a < RideDuration
        BY <1>2, <4>2
      <4>3. CASE a >= RideDuration
        BY <1>3, <4>3
      <4> QED
        BY <4>1, <4>2, <4>3, PhaseConstants
    <3> QED
      BY <1>0, <3>1, <3>2
  <2> QED
    BY <2>1, <2>2, PhaseConstants
<1> QED
  BY <1>4, <1>5, <1>6

\* Nor does what is shown of the provider's statuses that the code names.
LEMMA MapStatusForward ==
    ASSUME NEW a \in Statuses, NEW b \in Statuses, b \in T!Named, Height(a) <= Height(b)
    PROVE  /\ T!Rank(T!MapStatus(a).status) <= T!Rank(T!MapStatus(b).status)
           /\ T!MapStatus(a).progress <= T!MapStatus(b).progress
<1>1. ASSUME NEW c \in Statuses
      PROVE  /\ Height(c) = 0 => T!MapStatus(c).status = "arriving"
                                 /\ T!MapStatus(c).progress \in {10, 20}
             /\ Height(c) = 1 => T!MapStatus(c).status = "in_progress"
                                 /\ T!MapStatus(c).progress = 65
             /\ Height(c) = 2 => T!MapStatus(c).status \in {"completed", "cancelled"}
                                 /\ T!MapStatus(c).progress = 100
             /\ Height(c) = 0 /\ c \in T!Named => T!MapStatus(c).progress = 20
  BY <1>1, ShownType DEF Statuses, Height, T!MapStatus, T!Named
<1>2. /\ T!Rank("arriving") = 0 /\ T!Rank("in_progress") = 1 /\ T!Rank("completed") = 2
      /\ T!Rank("cancelled") = 2
  BY DEF T!Rank
<1>3. Height(a) \in {0, 1, 2} /\ Height(b) \in {0, 1, 2}
  BY DEF Height
<1>4. CASE Height(b) = 0
  <2>1. Height(a) = 0
    BY <1>3, <1>4
  <2> QED
    BY <1>1, <1>2, <1>4, <2>1
<1>5. CASE Height(b) = 1
  <2>1. Height(a) \in {0, 1}
    BY <1>3, <1>5
  <2> QED
    BY <1>1, <1>2, <1>5, <2>1
<1>6. CASE Height(b) = 2
  <2>1. T!Rank(T!MapStatus(b).status) = 2 /\ T!MapStatus(b).progress = 100
    BY <1>1, <1>2, <1>6
  <2>2. T!Rank(T!MapStatus(a).status) \in {0, 1, 2} /\ T!MapStatus(a).progress \in {10, 20, 65, 100}
    BY <1>1, <1>2, <1>3
  <2> QED
    BY <2>1, <2>2
<1> QED
  BY <1>3, <1>4, <1>5, <1>6

LEMMA NoPollType == T!NoPoll \in PollRecords /\ T!NoPoll.pc = "idle" /\ T!NoPoll.live = FALSE
BY ShownType DEF T!NoPoll, PollRecords, PollStages

LEMMA TrackingInit == T!Init => TrackingInv
<1> SUFFICES ASSUME T!Init PROVE TrackingInv
  OBVIOUS
<1>1. TrackingTyped
  BY NoPollType DEF T!Init, TrackingTyped, Statuses
<1>2. \A p \in Polls : Polling(poll[p])
  BY NoPollType DEF T!Init, Polling, Saw
<1>3. \A p, q \in Polls : Ordered(poll[p], poll[q])
  BY NoPollType DEF T!Init, Ordered, Saw
<1> QED
  BY <1>1, <1>2, <1>3 DEF TrackingInv

\* A step of one request keeps the invariant if its new record does, on its own and with
\* those of the others.
LEMMA PollStep ==
    ASSUME TrackingInv, UNCHANGED <<minute, stage>>, NEW p \in Polls, NEW t \in PollRecords,
           poll' = [poll EXCEPT ![p] = t], Polling(t), Ordered(t, t),
           \A q \in Polls \ {p} : Ordered(poll[q], t) /\ Ordered(t, poll[q])
    PROVE  TrackingInv'
<1>0. poll \in [Polls -> PollRecords]
  BY DEF TrackingInv, TrackingTyped
<1>1. poll'[p] = t /\ \A q \in Polls \ {p} : poll'[q] = poll[q]
  BY <1>0
<1>2. TrackingTyped'
  BY <1>0 DEF TrackingInv, TrackingTyped
<1>3. \A q \in Polls : Polling(poll[q])'
  <2> SUFFICES ASSUME NEW q \in Polls PROVE Polling(poll[q])'
    OBVIOUS
  <2>1. PICK s : poll'[q] = s /\ Polling(s)
    BY <1>1 DEF TrackingInv
  <2> QED
    BY <2>1 DEF Polling, Saw
<1>4. \A q, u \in Polls : Ordered(poll[q], poll[u])'
  BY <1>1 DEF TrackingInv, Ordered, Saw
<1> QED
  BY <1>2, <1>3, <1>4 DEF TrackingInv

\* One that awaits nothing and was not answered says nothing.
LEMMA IdlePoll ==
    ASSUME NEW s, NEW t, s.pc \notin {"asked", "looked", "done"} \/ (~s.live /\ s.pc = "done")
    PROVE  Ordered(s, t) /\ Ordered(t, s)
BY DEF Ordered, Saw

LEMMA TrackBookingStep ==
    ASSUME TrackingInv, NEW p \in Polls, T!TrackBooking(p) PROVE TrackingInv'
<1>0. /\ UNCHANGED <<minute, stage>> /\ minute \in Nat
      /\ poll \in [Polls -> PollRecords]
  BY DEF T!TrackBooking, TrackingInv, TrackingTyped
<1>1. CASE dispatched /\ ~sandbox
  <2> DEFINE t == [T!NoPoll EXCEPT !.pc = "asked", !.live = TRUE, !.sent = minute]
  <2>1. poll' = [poll EXCEPT ![p] = t]
    BY <1>1 DEF T!TrackBooking
  <2>2. t \in PollRecords /\ t.pc = "asked" /\ t.live = TRUE /\ t.sent = minute
    BY <1>0, NoPollType DEF PollRecords, PollStages
  <2> HIDE DEF t
  <2>3. Polling(t) /\ \A s : Ordered(s, t) /\ Ordered(t, s)
    BY <1>0, <2>2 DEF Polling, Saw, Ordered
  <2> QED
    BY <1>0, <2>1, <2>2, <2>3, PollStep
<1>2. CASE ~(dispatched /\ ~sandbox)
  <2> DEFINE view == T!Track(minute)
             t == [T!NoPoll EXCEPT !.pc = "done", !.sent = minute, !.answered = minute,
                                   !.shown = view]
  <2>1. poll' = [poll EXCEPT ![p] = t]
    BY <1>2 DEF T!TrackBooking
  <2>2. view \in Views
    BY <1>0, TrackType
  <2> HIDE DEF view
  <2>3. /\ t \in PollRecords /\ t.pc = "done" /\ t.live = FALSE /\ t.sent = minute
        /\ t.answered = minute /\ t.shown = view
    BY <1>0, <2>2, NoPollType DEF PollRecords, PollStages
  <2> HIDE DEF t
  <2>4. Polling(t) /\ \A s : Ordered(s, t) /\ Ordered(t, s)
    BY <1>0, <2>3 DEF Polling, Saw, Ordered, view
  <2> QED
    BY <1>0, <2>1, <2>3, <2>4, PollStep
<1> QED
  BY <1>1, <1>2

\* The provider sees a trip that is as far as any that was seen before.
LEMMA LookStep == ASSUME TrackingInv, NEW p \in Polls, T!Look(p) PROVE TrackingInv'
<1> DEFINE s == poll[p]
           t == [s EXCEPT !.pc = "looked", !.raw = stage]
<1>0. /\ UNCHANGED <<minute, stage>> /\ minute \in Nat /\ stage \in Statuses
      /\ poll \in [Polls -> PollRecords] /\ s \in PollRecords /\ Polling(s) /\ s.pc = "asked"
  BY DEF T!Look, TrackingInv, TrackingTyped
<1>1. poll' = [poll EXCEPT ![p] = t]
  BY <1>0 DEF T!Look, PollRecords
<1>2. /\ t \in PollRecords /\ t.pc = "looked" /\ t.raw = stage /\ t.live = s.live
      /\ t.sent = s.sent
  BY <1>0 DEF PollRecords, PollStages
<1> HIDE DEF t
<1>3. Polling(t)
  BY <1>0, <1>2, HeightType DEF Polling, Saw
<1>4. Ordered(t, t)
  BY <1>2 DEF Ordered
<1>5. \A q \in Polls \ {p} : Ordered(poll[q], t) /\ Ordered(t, poll[q])
  <2> SUFFICES ASSUME NEW q \in Polls PROVE Ordered(poll[q], t) /\ Ordered(t, poll[q])
    OBVIOUS
  <2>1. Polling(poll[q])
    BY DEF TrackingInv
  <2> QED
    BY <1>2, <2>1 DEF Polling, Ordered, Saw
<1> QED
  BY <1>0, <1>1, <1>2, <1>3, <1>4, <1>5, PollStep

\* What is answered now was seen before any question to come is sent.
LEMMA TripStatusStep == ASSUME TrackingInv, NEW p \in Polls, T!TripStatus(p) PROVE TrackingInv'
<1> DEFINE s == poll[p]
           view == T!MapStatus(s.raw)
           t == [s EXCEPT !.pc = "done", !.shown = view, !.answered = minute]
<1>0. /\ UNCHANGED <<minute, stage>> /\ minute \in Nat
      /\ poll \in [Polls -> PollRecords] /\ s \in PollRecords /\ Polling(s) /\ s.pc = "looked"
  BY DEF T!TripStatus, TrackingInv, TrackingTyped
<1>1. poll' = [poll EXCEPT ![p] = t]
  BY <1>0 DEF T!TripStatus, PollRecords
<1>2. view \in Views
  BY MapStatusType
<1>3. s.live /\ s.sent \in Nat /\ s.sent <= minute /\ s.raw \in Statuses
      /\ Height(s.raw) <= Height(stage)
  BY <1>0 DEF Polling, Saw, PollRecords
<1> HIDE DEF view
<1>4. /\ t \in PollRecords /\ t.pc = "done" /\ t.raw = s.raw /\ t.live = s.live
      /\ t.sent = s.sent /\ t.answered = minute /\ t.shown = view
  BY <1>0, <1>2 DEF PollRecords, PollStages
<1> HIDE DEF t
<1>5. Polling(t)
  BY <1>0, <1>3, <1>4 DEF Polling, Saw, view
<1>6. Ordered(t, t)
  BY <1>0, <1>3, <1>4 DEF Ordered
<1>7. \A q \in Polls \ {p} : Ordered(poll[q], t) /\ Ordered(t, poll[q])
  <2> SUFFICES ASSUME NEW q \in Polls PROVE Ordered(poll[q], t) /\ Ordered(t, poll[q])
    OBVIOUS
  <2>1. /\ Polling(poll[q]) /\ Ordered(poll[q], s) /\ poll[q] \in PollRecords
    BY <1>0 DEF TrackingInv
  <2>2. Ordered(poll[q], t)
    BY <1>0, <1>3, <1>4, <2>1 DEF Ordered, Saw
  <2>3. Saw(poll[q]) => poll[q].sent \in Nat /\ poll[q].sent <= minute
    <3>1. poll[q].sent \in Nat /\ poll[q].answered \in Nat
      BY <2>1 DEF PollRecords
    <3> QED
      BY <1>0, <2>1, <3>1 DEF Polling, Saw
  <2>4. Ordered(t, poll[q])
    BY <1>0, <1>4, <2>3 DEF Ordered
  <2> QED
    BY <2>2, <2>4
<1> QED
  BY <1>0, <1>1, <1>4, <1>5, <1>6, <1>7, PollStep

LEMMA TrackFailsStep == ASSUME TrackingInv, NEW p \in Polls, T!Upstream(p) PROVE TrackingInv'
<1> DEFINE s == poll[p]
           t == [s EXCEPT !.pc = "upstream"]
<1>0. /\ UNCHANGED <<minute, stage>> /\ poll \in [Polls -> PollRecords] /\ s \in PollRecords
  BY DEF T!Upstream, TrackingInv, TrackingTyped
<1>1. poll' = [poll EXCEPT ![p] = t]
  BY <1>0 DEF T!Upstream, PollRecords
<1>2. t \in PollRecords /\ t.pc = "upstream"
  BY <1>0 DEF PollRecords, PollStages
<1> HIDE DEF t
<1>3. Polling(t) /\ \A u : Ordered(t, u) /\ Ordered(u, t)
  BY <1>2, IdlePoll DEF Polling, Saw
<1> QED
  BY <1>0, <1>1, <1>2, <1>3, PollStep

LEMMA DriveStep == ASSUME TrackingInv, T!Drive PROVE TrackingInv'
<1>0. /\ UNCHANGED <<minute, poll>> /\ stage \in Statuses /\ stage' \in T!Successors(stage)
      /\ poll \in [Polls -> PollRecords]
  BY DEF T!Drive, TrackingInv, TrackingTyped
<1>1. stage' \in Statuses /\ Height(stage) <= Height(stage')
  BY <1>0, Onward
<1>2. TrackingTyped'
  BY <1>0, <1>1 DEF TrackingInv, TrackingTyped
<1>3. \A p \in Polls : Polling(poll[p])'
  <2> SUFFICES ASSUME NEW p \in Polls PROVE Polling(poll[p])'
    OBVIOUS
  <2>1. Polling(poll[p])
    BY DEF TrackingInv
  <2>2. Saw(poll[p]) => Height(poll[p].raw) <= Height(stage')
    BY <1>1, <2>1, HeightType DEF Polling
  <2> QED
    BY <1>0, <2>1, <2>2 DEF Polling, Saw
<1>4. \A p, q \in Polls : Ordered(poll[p], poll[q])'
  BY <1>0 DEF TrackingInv, Ordered, Saw
<1> QED
  BY <1>2, <1>3, <1>4 DEF TrackingInv

LEMMA TrackingTickStep == ASSUME TrackingInv, T!Tick PROVE TrackingInv'
<1>0. /\ UNCHANGED <<stage, poll>> /\ minute \in Nat /\ minute' = minute + 1
      /\ poll \in [Polls -> PollRecords]
  BY DEF T!Tick, TrackingInv, TrackingTyped
<1>1. TrackingTyped'
  BY <1>0 DEF TrackingInv, TrackingTyped
<1>2. \A p \in Polls : Polling(poll[p])'
  <2> SUFFICES ASSUME NEW p \in Polls PROVE Polling(poll[p])'
    OBVIOUS
  <2>1. poll[p] \in PollRecords /\ Polling(poll[p])
    BY <1>0 DEF TrackingInv
  <2>2. poll[p].sent \in Nat /\ poll[p].answered \in Nat
    BY <2>1 DEF PollRecords
  <2> QED
    BY <1>0, <2>1, <2>2 DEF Polling, Saw
<1>3. \A p, q \in Polls : Ordered(poll[p], poll[q])'
  BY <1>0 DEF TrackingInv, Ordered, Saw
<1> QED
  BY <1>1, <1>2, <1>3 DEF TrackingInv

LEMMA TrackingRestartStep == ASSUME TrackingInv, T!Restart PROVE TrackingInv'
<1>0. /\ UNCHANGED <<minute, stage>> /\ poll \in [Polls -> PollRecords]
  BY DEF T!Restart, TrackingInv, TrackingTyped
<1>1. \A p \in Polls : poll'[p] \in PollRecords /\ (poll'[p] = poll[p] \/ poll'[p].pc = "failed")
  <2> SUFFICES ASSUME NEW p \in Polls
               PROVE  poll'[p] \in PollRecords /\ (poll'[p] = poll[p] \/ poll'[p].pc = "failed")
    OBVIOUS
  <2> DEFINE t == [poll[p] EXCEPT !.pc = "failed"]
  <2>1. poll[p] \in PollRecords
    BY <1>0
  <2>2. t \in PollRecords /\ t.pc = "failed"
    BY <2>1 DEF PollRecords, PollStages
  <2>3. poll'[p] = t \/ poll'[p] = poll[p]
    BY DEF T!Restart
  <2> HIDE DEF t
  <2> QED
    BY <2>1, <2>2, <2>3
<1>2. poll' \in [Polls -> PollRecords]
  <2>1. poll' = [p \in Polls |-> poll'[p]]
    BY DEF T!Restart
  <2> QED
    BY <1>1, <2>1
<1>3. TrackingTyped'
  BY <1>0, <1>2 DEF TrackingInv, TrackingTyped
<1>4. \A p \in Polls : Polling(poll[p])'
  BY <1>0, <1>1 DEF TrackingInv, Polling, Saw
<1>5. \A p, q \in Polls : Ordered(poll[p], poll[q])'
  <2> SUFFICES ASSUME NEW p \in Polls, NEW q \in Polls PROVE Ordered(poll[p], poll[q])'
    OBVIOUS
  <2>1. CASE poll'[p] = poll[p] /\ poll'[q] = poll[q]
    BY <2>1 DEF TrackingInv, Ordered, Saw
  <2>2. CASE poll'[p].pc = "failed" \/ poll'[q].pc = "failed"
    BY <2>2 DEF Ordered, Saw
  <2> QED
    BY <1>1, <2>1, <2>2
<1> QED
  BY <1>3, <1>4, <1>5 DEF TrackingInv

LEMMA TrackingQuiet == ASSUME TrackingInv, UNCHANGED <<minute, stage, poll>> PROVE TrackingInv'
<1>1. TrackingTyped'
  BY DEF TrackingInv, TrackingTyped
<1>2. \A p \in Polls : Polling(poll[p])'
  BY DEF TrackingInv, Polling, Saw
<1>3. \A p, q \in Polls : Ordered(poll[p], poll[q])'
  BY DEF TrackingInv, Ordered, Saw
<1> QED
  BY <1>1, <1>2, <1>3 DEF TrackingInv

\* A ride that is asked for again has not fallen back: the provider's trip only goes on,
\* and so does the sandbox's.
THEOREM RidesGoForward == UpstreamsSpec => []TrackingForward
<1>1. UpstreamsInit => TrackingInv
  BY TrackingInit DEF UpstreamsInit
<1>2. TrackingInv /\ [UpstreamsNext]_upstreamVars => TrackingInv'
  <2> SUFFICES ASSUME TrackingInv, [UpstreamsNext]_upstreamVars PROVE TrackingInv'
    OBVIOUS
  <2>1. CASE T!Next
    BY <2>1, TrackBookingStep, LookStep, TripStatusStep, TrackFailsStep, DriveStep,
       TrackingTickStep, TrackingRestartStep DEF T!Next
  <2>2. CASE UNCHANGED <<minute, stage, poll>>
    BY <2>2, TrackingQuiet
  <2> QED
    BY <2>1, <2>2 DEF UpstreamsNext, upstreamVars, trackVars
<1>3. TrackingInv => TrackingForward
  <2> SUFFICES ASSUME TrackingInv, NEW p \in Polls, NEW q \in Polls,
                      poll[p].pc = "done", poll[q].pc = "done",
                      poll[p].answered < poll[q].sent, poll[p].live = poll[q].live,
                      poll[q].live => poll[q].raw \in T!Named
               PROVE  /\ T!Rank(poll[p].shown.status) <= T!Rank(poll[q].shown.status)
                      /\ poll[p].shown.progress <= poll[q].shown.progress
    BY DEF TrackingForward, T!TrackingForward
  <2>1. /\ Polling(poll[p]) /\ Polling(poll[q]) /\ Ordered(poll[p], poll[q])
        /\ poll[p] \in PollRecords /\ poll[q] \in PollRecords
    BY DEF TrackingInv, TrackingTyped
  <2>2. CASE poll[p].live
    <3>1. poll[q].live
      BY <2>2
    <3>2. /\ poll[p].raw \in Statuses /\ poll[q].raw \in Statuses
          /\ Height(poll[p].raw) <= Height(poll[q].raw)
          /\ poll[p].shown = T!MapStatus(poll[p].raw)
          /\ poll[q].shown = T!MapStatus(poll[q].raw)
      BY <2>1, <2>2, <3>1 DEF Polling, Ordered, Saw
    <3> QED
      BY <3>1, <3>2, MapStatusForward
  <2>3. CASE ~poll[p].live
    <3>1. ~poll[q].live
      BY <2>3
    <3>2. /\ poll[p].sent \in Nat /\ poll[q].sent \in Nat /\ poll[p].sent <= poll[q].sent
          /\ poll[p].shown = T!Track(poll[p].sent) /\ poll[q].shown = T!Track(poll[q].sent)
      BY <2>1, <2>3, <3>1 DEF Polling, PollRecords
    <3> QED
      BY <3>2, TrackForward
  <2> QED
    BY <2>2, <2>3
<1> QED
  BY <1>1, <1>2, <1>3, PTL DEF UpstreamsSpec

=============================================================================
