----------------------------- MODULE MCPlanner -----------------------------
(***************************************************************************)
(* TLC instance of Concierge and its Planner: prompts with and without a     *)
(* route, with no hint, two hints and a malformed one; skeletons with days   *)
(* and items beyond their bounds; searches with several options, with none,  *)
(* with none priced and with more than are shown; conversations that are     *)
(* clear, fragments, follow-ups, too long; tools called with and without     *)
(* what they need.                                                           *)
(***************************************************************************)
EXTENDS Concierge

Prompt(route, known, hint, currency, nights, wants) ==
    [route |-> route, known |-> known, hint |-> hint, currency |-> currency,
     nights |-> nights, wants |-> wants, short |-> FALSE]

Help == Prompt(FALSE, FALSE, NoBudget, "EUR", 2, {})
Hi == [Help EXCEPT !.short = TRUE]
Rome == Prompt(TRUE, TRUE, 150000, "EUR", 2, {})
Typo == Prompt(TRUE, TRUE, Malformed, "EUR", 2, {"hotel"})

MCPrompts ==
    {Help, Hi, Rome, Typo,
     Prompt(TRUE, FALSE, NoBudget, "EUR", 40, {"hotel", "transfer"}),
     Prompt(TRUE, FALSE, 60000, "USD", 2, {"restaurant"})}

Skeleton(destination, known, days, flight, hotel, items) ==
    [destination |-> destination, known |-> known, days |-> days, flight |-> flight,
     hotel |-> hotel, items |-> items]

Spec1(kind, day) == [kind |-> kind, day |-> day, free |-> FALSE]

MCSkeletons ==
    {Skeleton(FALSE, FALSE, 2, TRUE, TRUE, <<>>),
     Skeleton(TRUE, TRUE, Infinite, TRUE, TRUE, <<>>),
     Skeleton(TRUE, TRUE, 2, TRUE, TRUE, <<Spec1("restaurant", Infinite)>>),
     Skeleton(TRUE, TRUE, 2, FALSE, FALSE, <<Spec1("flight", Infinite)>>),
     Skeleton(TRUE, FALSE, Junk, TRUE, TRUE,
              <<Spec1("restaurant", Junk), Spec1("flight", 1),
                [kind |-> "activity", day |-> -1, free |-> TRUE], Spec1("restaurant", 5)>>),
     Skeleton(TRUE, TRUE, 45, TRUE, FALSE, <<Spec1("transfer", 99), Spec1("activity", 2)>>)}

Flight(legs, price, minutes) == [legs |-> legs, price |-> price, minutes |-> minutes]
MCFlights ==
    {<<>>, <<Flight(1, None, 95), Flight(2, 0, None)>>,
     <<Flight(1, 310, 150), Flight(0, 99, 60), Flight(2, 240, 200), Flight(1, None, 155),
       Flight(3, 420, 400), Flight(2, 260, None), Flight(1, 330, 145), Flight(1, 305, 160)>>}

Hotel(named, total, night, rating) ==
    [named |-> named, total |-> total, night |-> night, rating |-> rating]
MCHotels ==
    {<<>>, <<Hotel(TRUE, None, None, 4)>>,
     <<Hotel(TRUE, 500, 250, 3), Hotel(TRUE, None, 90, 5), Hotel(FALSE, 100, 50, 5),
       Hotel(TRUE, 0, 90, None), Hotel(TRUE, 320, None, 4)>>}

Table(titled, rating, level) == [titled |-> titled, rating |-> rating, level |-> level]
MCRestaurants ==
    {<<>>, <<Table(TRUE, None, 0)>>,
     <<Table(TRUE, 4, 1), Table(FALSE, 6, 1), Table(TRUE, 5, 3), Table(TRUE, 5, 2)>>}

MCEstimate == [flight |-> 21000, hotel |-> 11000, restaurant |-> 7000, transfer |-> 3000,
               activity |-> 5000]

Text(fragment, follow, day, route, near, rules) ==
    [fragment |-> fragment, follow |-> follow, day |-> day, route |-> route, near |-> near,
     rules |-> rules]

FromTo == Text(FALSE, FALSE, None, "known", FALSE, Rome)
Tomorrow == Text(TRUE, TRUE, 1, "none", FALSE, Help)
User(text) == [role |-> "user", text |-> text]
Model == [role |-> "assistant", text |-> FromTo]

\* The last but two: an empty message; a long conversation, in which the guest's last
\* message is out of sight; a day that is over.
MCConversations ==
    {<<User(FromTo)>>, <<User(Tomorrow)>>, <<User(FromTo), Model, User(Tomorrow)>>,
     <<User(Text(TRUE, FALSE, None, "none", FALSE, Hi))>>,
     <<User(Text(FALSE, FALSE, 16, "unknown", FALSE, Typo)), User(Blank)>>,
     <<User(FromTo)>> \o [i \in 1 .. 10 |-> Model],
     <<User(Text(FALSE, FALSE, -5, "none", TRUE, Typo))>>}

Flights1(known, from, to, sort) ==
    [tool |-> "search_flights", known |-> known, from |-> from, to |-> to, sort |-> sort]
Hotels1(place, from, to, sort) ==
    [tool |-> "search_hotels", place |-> place, from |-> from, to |-> to, sort |-> sort]
Book1(tool, price) == [tool |-> tool, price |-> price]
Restaurants1 == [tool |-> "search_restaurants"]
Table1 == [tool |-> "book_restaurant"]
Other1 == [tool |-> "other"]

MCBatches ==
    {<<Flights1(TRUE, 20, None, "duration_asc"), Hotels1(TRUE, 18, 10, "rating_desc")>>,
     <<Flights1(TRUE, -3, 10, Junk)>>, <<Flights1(FALSE, 20, None, "price_desc")>>,
     <<Hotels1(FALSE, 20, 10, "price_asc"), Restaurants1>>,
     <<Book1("book_hotel", 50000), Table1>>, <<Book1("book_flight", 30000), Other1>>,
     <<Book1("book_flight", Junk), Book1("book_flight", -1), Book1("book_hotel", Infinite)>>}

=============================================================================
