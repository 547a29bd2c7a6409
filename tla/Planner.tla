------------------------------ MODULE Planner ------------------------------
(***************************************************************************)
(* A trip plan from a sentence.  /trips/plan asks up to three searches at    *)
(* once and prices every leg that none of them prices with an estimate;      *)
(* /trips/ai-plan has a language model design the days first, and starts     *)
(* again with the rules when anything on that way fails; /assistant/chat     *)
(* answers with the rules where it has no language model.  A plan is         *)
(* confirmed as it was shown, item by item, against the travel wallet.       *)
(***************************************************************************)
EXTENDS Searches, FiniteSetsExt, SequencesExt

CONSTANTS
    Prompts,        \* what the rules find in a sentence: route, cities, hint, currency, nights, wants
    Budgets,        \* budgets a request may name
    Skeletons,      \* what the language model may design
    Flights, Hotels, Restaurants,   \* lists of entries the search provider may return
    Estimate,       \* Estimate[kind]: cents, by a hash of the route
    Opening,        \* the wallet's balance
    WalletCurrency,
    NoBudget, Malformed,            \* a hint that is absent, or no number
    Junk, Infinite,                 \* of a day: no number, and JSON's Infinity
    NoPlan,
    Asked, Failed                   \* of a search: under way, and without a result

\* The legs that are searched for.
Legs == {"flight", "hotel", "restaurant"}

\* What the three searches may return, the hotels for a number of nights.
FlightAnswers == {FlightOptions(raw) : raw \in Flights}
RestaurantAnswers == {RestaurantOptions(raw) : raw \in Restaurants}

Said(leg, nights) ==
    IF leg = "flight" THEN FlightAnswers
    ELSE IF leg = "hotel" THEN {HotelOptions(raw, nights) : raw \in Hotels}
    ELSE RestaurantAnswers

\* A number that may be missing, and a day as the language model may write it.
Number == {None} \cup Int
Day == {Junk, Infinite} \cup Int

ASSUME PlannerAssumption ==
    /\ Opening \in Nat /\ Asked # Failed
    /\ \A k \in DOMAIN Estimate : Estimate[k] \in Nat
    /\ {"flight", "hotel", "restaurant", "transfer", "activity"} \subseteq DOMAIN Estimate
    /\ \A p \in Prompts : p.nights \in Int /\ p.route \in BOOLEAN
    /\ Skeletons \subseteq
           [destination : BOOLEAN, known : BOOLEAN, days : Day, flight : BOOLEAN, hotel : BOOLEAN,
            items : Seq([kind : STRING, day : Day, free : BOOLEAN])]
    /\ Flights \subseteq Seq([legs : Nat, price : Number, minutes : Number])
    /\ Hotels \subseteq Seq([named : BOOLEAN, total : Number, night : Number, rating : Number])
    /\ Restaurants \subseteq Seq([titled : BOOLEAN, rating : {None} \cup Nat, level : Nat])

VARIABLES
    keys,       \* the services the process has keys of
    endpoint, prompt, asked,        \* the request and the budget it names
    pc,
    path,       \* who composes the plan: "ai" or "rules"
    trip,       \* what is to be priced: legs, nights, items of days
    tasks,      \* the searches that were started
    said,       \* what they have returned
    plan,
    balance

request == <<keys, endpoint, prompt, asked>>
vars == <<request, pc, path, trip, tasks, said, plan, balance>>

Working == {"design", "rules", "legs", "summary"}

NoTrip == [flight |-> FALSE, hotel |-> FALSE, nights |-> 1, items |-> <<>>]

-----------------------------------------------------------------------------
\* Pricing

\* _price_num: only a positive price is one.
Priced(options) == {i \in DOMAIN options : options[i].price # None /\ options[i].price > 0}

Item(kind, day, amount, live) == [kind |-> kind, day |-> day, amount |-> amount, live |-> live]

Estimated(kind, day) == Item(kind, day, Estimate[kind], FALSE)

\* Variant: one timeout for all searches, so one that is late takes the others along.
ResultOf_AllInTime(leg) ==
    IF leg \in tasks /\ \A other \in tasks : said[other] # Failed THEN said[leg] ELSE Failed

\* zip(tasks.keys(), results): a search that was not started has no result.
ResultOf(leg) == IF leg \in tasks THEN said[leg] ELSE Failed

\* What a leg's search has found; an error that stayed in the map is not a list.
Found(leg) == IF ResultOf(leg) = Failed THEN <<>> ELSE ResultOf(leg)

\* The best flight is the cheapest.
FlightItem ==
    LET found == Found("flight")
        prices == {found[i].price : i \in Priced(found)}
    IN  IF prices = {} THEN Estimated("flight", 0)
        ELSE Item("flight", 0, 100 * Min(prices), TRUE)

\* The hotels by price, and else as they were found.
Cheaper(i, j) ==
    LET found == Found("hotel")
    IN  \/ found[i].price < found[j].price
        \/ found[i].price = found[j].price /\ i < j

\* The hotel is the median by price; nights are those of the trip.
HotelItem ==
    LET found == Found("hotel")
        priced == Arranged(found, Priced(found), Cheaper)
    IN  IF priced = <<>> THEN Item("hotel", 0, Estimate["hotel"] * trip.nights, FALSE)
        ELSE Item("hotel", 0, 100 * priced[Len(priced) \div 2 + 1].price, TRUE)

\* The first of the best rated; two dine, at 30 a dollar sign or at 60 without any.
RestaurantItem(day) ==
    LET found == Found("restaurant")
        Rating(i) == IF found[i].rating = None THEN 0 ELSE found[i].rating
        best == Min({i \in DOMAIN found : \A j \in DOMAIN found : Rating(j) <= Rating(i)})
        level == found[best].level
    IN  IF found = <<>> THEN Estimated("restaurant", day)
        ELSE Item("restaurant", day, 2 * (IF level = 0 THEN 6000 ELSE 3000 * level), TRUE)

DayItem(spec) ==
    IF spec.kind = "restaurant" THEN RestaurantItem(spec.day)
    ELSE IF spec.kind = "activity" /\ spec.free THEN Item("activity", spec.day, 0, FALSE)
    ELSE Estimated(spec.kind, spec.day)

\* The items of the plan: flight and hotel are trip-wide, the others have their day
\* (0 is none).
Items ==
    (IF trip.flight THEN <<FlightItem>> ELSE <<>>)
    \o (IF trip.hotel THEN <<HotelItem>> ELSE <<>>)
    \o [i \in DOMAIN trip.items |-> DayItem(trip.items[i])]

\* What the first n items cost.
Sum(items, n) == SumFunctionOnSet([i \in DOMAIN items |-> items[i].amount], 1 .. n)

Total(items) == Sum(items, Len(items))

-----------------------------------------------------------------------------
\* Skeleton hygiene

Clamp(n, low, high) == IF n < low THEN low ELSE IF n > high THEN high ELSE n

\* _clamp_days
ClampDays(days) == IF days = Junk THEN 3 ELSE Clamp(days, 1, 30)

\* _normalise_items: an entry of another kind, or without a title, is skipped.
Kept(raw) == Only(raw, {i \in DOMAIN raw : raw[i].kind \in {"restaurant", "activity", "transfer"}})

NormaliseItems(raw, days) ==
    [i \in DOMAIN Kept(raw) |->
        LET e == Kept(raw)[i]
        IN  [e EXCEPT !.day = IF e.day = Junk THEN 1 ELSE Clamp(e.day, 1, days)]]

\* int() of JSON's Infinity is neither a TypeError nor a ValueError.
Overflows(s) ==
    s.days = Infinite \/ \E i \in DOMAIN Kept(s.items) : Kept(s.items)[i].day = Infinite

-----------------------------------------------------------------------------
Init ==
    /\ keys \in SUBSET {"openai", "serpapi"}
    /\ endpoint \in {"plan", "ai-plan", "chat"}
    /\ prompt \in Prompts
    /\ asked \in Budgets \cup {NoBudget}
    /\ pc = "idle"
    /\ path = "rules"
    /\ trip = NoTrip
    /\ tasks = {}
    /\ said = [l \in Legs |-> Failed]
    /\ plan = NoPlan
    /\ balance = Opening

\* plan_trip, ai_plan_trip, and chat without a key for the language model, where a
\* sentence of fewer than three characters is no TripPlanRequest.
Receive ==
    /\ pc = "idle"
    /\ ~(endpoint = "chat" /\ "openai" \in keys)
    /\ pc' = IF prompt.short THEN "error"
             ELSE IF endpoint = "ai-plan" /\ "openai" \in keys THEN "design" ELSE "rules"
    /\ path' = IF pc' = "design" THEN "ai" ELSE "rules"
    /\ UNCHANGED <<request, trip, tasks, said, plan, balance>>

FallBack ==
    /\ pc' = "rules" /\ path' = "rules"
    /\ UNCHANGED <<request, trip, tasks, said, plan, balance>>

\* _fetch_live: flights are searched between known cities only.
Search(t, known) ==
    /\ trip' = t
    /\ tasks' = {l \in Legs :
                    /\ "serpapi" \in keys
                    /\ \/ l = "flight" /\ t.flight /\ known
                       \/ l = "hotel" /\ t.hotel
                       \/ l = "restaurant" /\ \E i \in DOMAIN t.items : t.items[i].kind = l}
    /\ said' = [l \in Legs |-> IF l \in tasks' THEN Asked ELSE Failed]
    /\ pc' = "legs"

\* AiItineraryService.plan, _design_skeleton: a skeleton without a destination, or no
\* JSON object, is priced by nobody.
Design ==
    /\ pc = "design"
    /\ \/ FallBack
       \/ \E s \in Skeletons :
            IF ~s.destination \/ Overflows(s) THEN FallBack
            ELSE LET days == ClampDays(s.days) IN
                 /\ Search([flight |-> s.flight, hotel |-> s.hotel, nights |-> days,
                            items |-> NormaliseItems(s.items, days)], s.known)
                 /\ UNCHANGED <<request, path, plan, balance>>

\* TripPlannerService.plan: without a route it asks for one, and float() of a hint that
\* is no number raises.
Rules ==
    /\ pc = "rules"
    /\ \/ ~prompt.route /\ pc' = "answered" /\ UNCHANGED <<trip, tasks, said>>
       \/ /\ prompt.route /\ prompt.hint = Malformed
          /\ pc' = "error" /\ UNCHANGED <<trip, tasks, said>>
       \/ /\ prompt.route /\ prompt.hint # Malformed
          /\ LET wants == IF prompt.wants = {} THEN {"hotel", "restaurant", "transfer"}
                          ELSE prompt.wants
                 daily == <<"restaurant", "transfer">>
                 ordered == Only(daily, {i \in DOMAIN daily : daily[i] \in wants})
             IN  Search([flight |-> TRUE, hotel |-> "hotel" \in wants,
                         nights |-> Clamp(prompt.nights, 1, 30),
                         items |-> [i \in DOMAIN ordered |->
                                       [kind |-> ordered[i], day |-> 0, free |-> FALSE]]],
                        prompt.known)
    /\ UNCHANGED <<request, path, plan, balance>>

LegAnswers(l) ==
    /\ pc = "legs" /\ said[l] = Asked
    /\ \E list \in Said(l, trip.nights) : said' = [said EXCEPT ![l] = list]
    /\ UNCHANGED <<request, pc, path, trip, tasks, plan, balance>>

\* An HTTP error, an error of the search, or the timeout of the leg.
LegFails(l) ==
    /\ pc = "legs" /\ said[l] = Asked
    /\ said' = [said EXCEPT ![l] = Failed]
    /\ UNCHANGED <<request, pc, path, trip, tasks, plan, balance>>

Ended == \A l \in Legs : said[l] # Asked

\* The rules prefer the hint of the sentence, the itinerary the budget of the request.
RulesBudget == IF prompt.hint # NoBudget THEN prompt.hint ELSE asked
ItineraryBudget == IF asked # NoBudget THEN asked ELSE prompt.hint

\* Variant: a fallback keeps the currency of its prompt.
CurrencyOf_Prompt == IF path = "ai" THEN WalletCurrency ELSE prompt.currency

\* _wallet_consistent: the amounts of an ai-plan are relabelled.
CurrencyOf == IF endpoint = "ai-plan" THEN WalletCurrency ELSE prompt.currency

Plan(budget) ==
    LET items == Items
        total == Total(items)
    IN  [items |-> items, total |-> total, currency |-> CurrencyOf, budget |-> budget,
         within |-> budget = NoBudget \/ total <= budget]

ComposeRules ==
    /\ pc = "legs" /\ Ended /\ path = "rules"
    /\ plan' = Plan(RulesBudget)
    /\ pc' = "answered"
    /\ UNCHANGED <<request, path, trip, tasks, said, balance>>

\* The itinerary reads the hint only now.
ComposeItinerary ==
    /\ pc = "legs" /\ Ended /\ path = "ai"
    /\ IF ItineraryBudget = Malformed THEN FallBack
       ELSE /\ plan' = Plan(ItineraryBudget)
            /\ pc' = "summary"
            /\ UNCHANGED <<request, path, trip, tasks, said, balance>>

\* _summarise: a fixed sentence when the model does not answer.
Summarise ==
    /\ pc = "summary"
    /\ pc' = "answered"
    /\ UNCHANGED <<request, path, trip, tasks, said, plan, balance>>

-----------------------------------------------------------------------------
\* WalletService.purchase
Valid(item) ==
    /\ item.kind \in {"flight", "hotel", "restaurant", "car", "transfer", "scooter", "activity"}
    /\ item.amount >= 0

\* What comes of the items, charged one after the other: the first that cannot be
\* bought decides.
Outcome ==
    LET items == plan.items
        stops == {n \in DOMAIN items :
                      ~Valid(items[n]) \/ items[n].amount > balance - Sum(items, n - 1)}
    IN  IF items = <<>> THEN "empty"
        ELSE IF stops = {} THEN "booked"
        ELSE IF Valid(items[Min(stops)]) THEN "refused" ELSE "invalid"

\* confirm_trip, of the plan as it was shown.  A chat shows its message only.
Confirm ==
    /\ pc = "answered" /\ plan # NoPlan /\ endpoint # "chat"
    /\ pc' = Outcome
    /\ balance' = IF pc' = "booked" THEN balance - Total(plan.items) ELSE balance
    /\ UNCHANGED <<request, path, trip, tasks, said, plan>>

Step ==
    \/ Design \/ Rules \/ ComposeRules \/ ComposeItinerary \/ Summarise
    \/ \E l \in Legs : LegAnswers(l) \/ LegFails(l)

Next == Receive \/ Step \/ Confirm

Spec == Init /\ [][Next]_vars

-----------------------------------------------------------------------------
(* Properties *)

\* The amounts a search has quoted, in cents.
Quoted(leg) ==
    IF said[leg] \in {Asked, Failed} THEN {}
    ELSE IF leg = "restaurant"
    THEN {IF o.level = 0 THEN 12000 ELSE 6000 * o.level : o \in ToSet(said[leg])}
    ELSE {100 * o.price : o \in {o \in ToSet(said[leg]) : o.price # None /\ o.price > 0}}

\* Each leg degrades on its own: an item is live exactly if its own search has priced
\* something, whichever of the others failed or was never started, and then it costs
\* what that search has quoted.
LegsDegradeAlone ==
    plan # NoPlan =>
        \A i \in DOMAIN plan.items :
            LET item == plan.items[i]
                quoted == IF item.kind \in Legs THEN Quoted(item.kind) ELSE {}
            IN  /\ item.live <=> quoted # {}
                /\ item.live => item.amount \in quoted

\* A plan can be confirmed as it is shown: it costs its total, is refused exactly if the
\* wallet holds less, and is never invalid.  An ai-plan is in the currency of the wallet,
\* whichever way it was composed, and its items lie within its days.
PlanConfirmable ==
    /\ pc # "invalid"
    /\ pc = "booked" => balance = Opening - plan.total /\ plan.total <= Opening
    /\ pc = "refused" => plan.total > Opening
    /\ pc = "empty" => path = "ai" /\ ~trip.flight /\ ~trip.hotel
    /\ plan # NoPlan =>
           /\ endpoint = "ai-plan" => plan.currency = WalletCurrency
           /\ \A i \in DOMAIN plan.items :
                  LET item == plan.items[i] IN
                  IF path = "ai" /\ item.kind \notin {"flight", "hotel"}
                  THEN item.day \in 1 .. trip.nights ELSE item.day = 0

\* The planner always answers, whatever fails on the way, but for a hint that float()
\* does not take.
PlannerAnswers ==
    pc \in Working ~> (pc = "answered" \/ (pc = "error" /\ prompt.hint = Malformed))

=============================================================================
