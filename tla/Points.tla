------------------------------- MODULE Points -------------------------------
(***************************************************************************)
(* Room-service orders and travel bookings, and the ledger of loyalty       *)
(* points both write to.  An order or a booking and the points it earns are *)
(* rows of one transaction; a guest's balance is the sum of the guest's     *)
(* rows.  The opening rows of the demo guest come with the seed, and only   *)
(* when that guest has no rows yet.                                         *)
(***************************************************************************)
EXTENDS Naturals, Sequences, FiniteSets, Functions

CONSTANTS
    Orders,         \* POST /stays/{id}/orders requests, each handled once
    Bookings,       \* POST /travel/bookings requests, each handled once
    Price,          \* Price[i]: cents of menu item i
    BasePrice,      \* BasePrice[t]: cents of travel category or deal t
    Carts,          \* what may be ordered: sequences of items and quantities
    Unknown,        \* a target, stay, item or guest there is not
    MaxInt,         \* the largest number an INTEGER column holds
    Multiplier,     \* of points on travel bookings
    DemoGuest,      \* the guest whom room service credits
    Opening         \* points of the demo guest's opening rows

\* What the constants must be; a module that uses this one assumes it of its own.
PointsAssumption ==
    /\ Price \in [DOMAIN Price -> Nat] /\ BasePrice \in [DOMAIN BasePrice -> Nat]
    /\ \A cart \in Carts : cart \in Seq([item : DOMAIN Price, quantity : Nat \ {0}])
    /\ Multiplier \in Nat /\ Opening \in Nat
    /\ Orders \cap Bookings = {} /\ IsFiniteSet(Orders) /\ IsFiniteSet(Bookings)

VARIABLES
    guests,         \* the guests there are, by id; only read here
    catalogue,      \* the menu, the stays and the travel catalogue are seeded
    orders,         \* committed orders: subtotal, discount and total, by request
    bookings,       \* committed bookings: guest, total and points, by request
    credits,        \* committed earn rows of the ledger: guest and amount, by reference
    openings,       \* how often the opening rows were inserted
    desk            \* desk[r]: where request r stands and what it has written

pointsVars == <<catalogue, orders, bookings, credits, openings, desk>>

Requests == Orders \cup Bookings

\* wrote: the rows it has flushed; shown: the balance it answers.
CleanDraft == [pc |-> "idle", guest |-> Unknown, subtotal |-> 0, total |-> 0, points |-> 0,
               wrote |-> {}, shown |-> 0]

Written == {"save", "earn", "balance", "commit"}

\* What an exception or the end of the process leaves of a request.
Failed == [CleanDraft EXCEPT !.pc = "failed"]

Earned(ledger, guest) ==
    SumFunctionOnSet([r \in DOMAIN ledger |-> ledger[r].amount],
                     {r \in DOMAIN ledger : ledger[r].guest = guest})

\* SUM(amount) of a guest's rows.
Balance(guest) == Earned(credits, guest) + (IF guest = DemoGuest THEN openings * Opening ELSE 0)

\* round(subtotal * 0.15): to even where it is half way.
Discount(subtotal) ==
    LET q == (15 * subtotal) \div 100
        r == (15 * subtotal) % 100
    IN  IF r > 50 \/ (r = 50 /\ q % 2 = 1) THEN q + 1 ELSE q

Subtotal(cart) == SumFunction([i \in DOMAIN cart |-> Price[cart[i].item] * cart[i].quantity])

\* LoyaltyService.compute_points: whole dollars count.
ComputePoints(total, multiplier) == (total \div 100) * multiplier

-----------------------------------------------------------------------------
Init ==
    /\ catalogue = FALSE
    /\ orders = [r \in {} |-> 0]
    /\ bookings = [r \in {} |-> 0]
    /\ credits = [r \in {} |-> 0]
    /\ openings = 0
    /\ desk = [r \in Requests |-> CleanDraft]

Refuse(r) == desk' = [desk EXCEPT ![r].pc = "refused"]

\* OrderService.place_order: an unknown stay or item is a 404, and the total is
\* computed from the menu.
PlaceOrder(r) ==
    /\ r \in Orders /\ desk[r].pc = "idle"
    /\ \/ Refuse(r)
       \/ /\ catalogue
          /\ \E cart \in Carts :
               LET subtotal == Subtotal(cart)
                   total == subtotal - Discount(subtotal)
               IN  desk' = [desk EXCEPT ![r].pc = "save", ![r].guest = DemoGuest,
                               ![r].subtotal = subtotal, ![r].total = total,
                               ![r].points = ComputePoints(total, 1)]
    /\ UNCHANGED <<catalogue, orders, bookings, credits, openings>>

\* TravelService.create_booking: guest and target must be there.
Book(r) ==
    /\ r \in Bookings /\ desk[r].pc = "idle"
    /\ \E g \in DOMAIN guests \cup {Unknown}, t \in DOMAIN BasePrice \cup {Unknown} :
         IF g \in DOMAIN guests /\ t \in DOMAIN BasePrice /\ catalogue
         THEN desk' = [desk EXCEPT ![r].pc = "earn", ![r].guest = g, ![r].total = BasePrice[t],
                          ![r].points = ComputePoints(BasePrice[t], Multiplier)]
         ELSE Refuse(r)
    /\ UNCHANGED <<catalogue, orders, bookings, credits, openings>>

\* LoyaltyService.earn: an order is saved by then, a booking is not yet.
Earn(r) ==
    /\ desk[r].pc = "earn"
    /\ desk' = [desk EXCEPT ![r].pc = IF r \in Orders THEN "commit" ELSE "save",
                            ![r].wrote = @ \cup {"credit"}]
    /\ UNCHANGED <<catalogue, orders, bookings, credits, openings>>

\* OrderRepository.save, TravelRepository.create_booking: nothing limits the quantities
\* of an order before its row does.
Save(r) ==
    /\ desk[r].pc = "save"
    /\ desk' = IF desk[r].subtotal > MaxInt THEN [desk EXCEPT ![r] = Failed]
               ELSE [desk EXCEPT ![r].pc = IF r \in Orders THEN "earn" ELSE "balance",
                                 ![r].wrote = @ \cup {"purchase"}]
    /\ UNCHANGED <<catalogue, orders, bookings, credits, openings>>

\* The sum as this transaction sees it, its own row and what has been committed.
Shown(r) == Balance(desk[r].guest) + (IF "credit" \in desk[r].wrote THEN desk[r].points ELSE 0)

\* A confirmation names the new balance.
ReadBalance(r) ==
    /\ desk[r].pc = "balance"
    /\ desk' = [desk EXCEPT ![r].pc = "commit", ![r].shown = Shown(r)]
    /\ UNCHANGED <<catalogue, orders, bookings, credits, openings>>

With(rows, r, row) == [q \in DOMAIN rows \cup {r} |-> IF q = r THEN row ELSE rows[q]]

Commit(r) ==
    LET d == desk[r] IN
    /\ d.pc = "commit"
    /\ credits' = IF "credit" \in d.wrote
                  THEN With(credits, r, [guest |-> d.guest, amount |-> d.points]) ELSE credits
    /\ orders' = IF r \in Orders
                 THEN With(orders, r, [subtotal |-> d.subtotal, total |-> d.total]) ELSE orders
    /\ bookings' = IF r \in Bookings
                   THEN With(bookings, r, [guest |-> d.guest, total |-> d.total,
                                           points |-> d.points])
                   ELSE bookings
    /\ desk' = [desk EXCEPT ![r].pc = "done"]
    /\ UNCHANGED <<catalogue, openings>>

Proceed(r) == Earn(r) \/ Save(r) \/ ReadBalance(r) \/ Commit(r)

\* Variant: every seed brings the opening rows.
SeedLedger_Again == openings' = openings + 1

\* _seed_loyalty_ledger: only for a guest without rows.
SeedLedger ==
    openings' = IF openings = 0 /\ \A r \in DOMAIN credits : credits[r].guest # DemoGuest
                THEN 1 ELSE openings

\* The seed's rows of the menu and the catalogue are written over as they are.
Seed ==
    /\ catalogue' = TRUE
    /\ SeedLedger
    /\ UNCHANGED <<orders, bookings, credits, desk>>

\* The end of the process ends its transactions.
Crash ==
    /\ desk' = [r \in Requests |-> IF desk[r].pc \in Written THEN Failed ELSE desk[r]]
    /\ UNCHANGED <<catalogue, orders, bookings, credits, openings>>

-----------------------------------------------------------------------------
(* Properties *)

\* Whatever fails and whenever it is seeded, the ledger is explained by the bookings and
\* orders there are: each of them has its row, of its guest and for its stored total, and
\* there is no other beside the opening rows, which the demo guest has had from the start.
\* The balance a confirmation shows is the guest's: what the booking earned is in it once,
\* and none of it is missing from the ledger afterwards.
LedgerExplained ==
    /\ DOMAIN credits = DOMAIN orders \cup DOMAIN bookings
    /\ \A r \in DOMAIN orders :
           credits[r] = [guest |-> DemoGuest, amount |-> orders[r].total \div 100]
    /\ \A r \in DOMAIN bookings :
           /\ credits[r] = [guest |-> bookings[r].guest, amount |-> bookings[r].points]
           /\ bookings[r].points = Multiplier * (bookings[r].total \div 100)
    /\ openings = (IF DemoGuest \in DOMAIN guests THEN 1 ELSE 0)
    /\ \A r \in Bookings :
           desk[r].pc = "done" =>
               desk[r].points <= desk[r].shown /\ desk[r].shown <= Balance(desk[r].guest)

=============================================================================
