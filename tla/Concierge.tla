----------------------------- MODULE Concierge -----------------------------
(***************************************************************************)
(* A turn of the concierge, POST /assistant/chat: a language model that      *)
(* calls tools round by round, beside the planner that stands in for it      *)
(* where there is none.  The reply names options of which the guest sees     *)
(* cards, so what the model was told and what is shown have to agree, also   *)
(* when a search is repeated, fails, or is made once more from the guest's   *)
(* own words after the model has finished.  The bookings of a turn are one   *)
(* transaction (module Wallet has its interleavings); days count from today. *)
(***************************************************************************)
EXTENDS Planner

CONSTANTS
    Conversations,  \* what clients send: messages with a role and a text
    Batches,        \* tool calls the model may make in one answer
    MaxRounds,      \* answers of the model in one turn
    Blank           \* the empty text

\* What is read in a message, and what tools are called with.
Date == {None, Junk} \cup Int
Words == [fragment : BOOLEAN, follow : BOOLEAN, day : Number, route : STRING, near : BOOLEAN,
          rules : Prompts]
ToolCall ==
    [tool : {"search_flights"}, known : BOOLEAN, from : Date, to : Date, sort : {Junk} \cup STRING]
    \cup [tool : {"search_hotels"}, place : BOOLEAN, from : Date, to : Date, sort : {Junk} \cup STRING]
    \cup [tool : {"book_flight", "book_hotel"}, price : {Junk, Infinite} \cup Int]
    \cup [tool : {"search_restaurants", "book_restaurant", "other"}]

ASSUME ConciergeAssumption ==
    /\ Conversations \subseteq Seq([role : {"user", "assistant"}, text : {Blank} \cup Words])
    /\ Batches \subseteq Seq(ToolCall) \ {<<>>}
    /\ MaxRounds \in Nat
    /\ None \notin {"book_flight", "book_hotel", "book_restaurant"}

VARIABLES
    history,        \* the messages of the client
    round,          \* answers of the model so far
    calls,          \* tool calls that are still to be run
    cards,          \* flight_options, hotel_options, restaurant_options
    told,           \* of each kind, what the model was told last
    windows,        \* the days last searched for
    bill,           \* amounts booked in the open transaction
    booked,         \* the booking the response shows
    reply

turnVars == <<round, calls, cards, told, windows, bill, booked, reply>>
plannerVars == <<request, path, trip, tasks, said, plan>>

Turning == {"model", "tool"}

-----------------------------------------------------------------------------
\* What the guest said

\* _sanitize_history: the last ten messages that say something.
Sanitized(messages) ==
    Only(messages, {i \in DOMAIN messages : i > Len(messages) - 10 /\ messages[i].text # Blank})

\* Where the guest speaks.
Users(messages) == {i \in DOMAIN messages : messages[i].role = "user"}

\* No words at all count as a fragment.
Silence == [fragment |-> TRUE, follow |-> FALSE, day |-> None, route |-> "none", near |-> FALSE]

\* _latest_user_text
Latest == IF Users(history) = {} THEN Silence ELSE history[Max(Users(history))].text

\* _has_recent_assistant_context
HasContext(messages) ==
    \E i \in DOMAIN messages : i > Len(messages) - 4 /\ messages[i].role = "assistant"

\* A fragment is searched for only when it follows up on an answer.
Incomplete == Latest.fragment /\ ~(Latest.follow /\ HasContext(history))

\* What the planner reads where there is no model: the last message, or "help".
Sentence(messages, help) ==
    LET last == messages[Max(Users(messages))]
    IN  IF Users(messages) = {} \/ last.text = Blank THEN help ELSE last.text.rules

-----------------------------------------------------------------------------
\* Days and orders of a search

\* _coerce_search_date: a day that is no day, or over, becomes the default.
CoerceDay(day, default) == IF day \in {Junk, None} \/ day < 0 THEN default ELSE day

\* _resolve_explicit_date_from_text comes first, and may be over.
FirstDay(day) == IF Latest.day # None THEN Latest.day ELSE CoerceDay(day, 14)

\* _tool_search_flights: a return comes after the departure.
FlightWindow(call) ==
    LET from == FirstDay(call.from)
        to == CoerceDay(call.to, 21)
    IN  [from |-> from, to |-> IF call.to = None THEN None
                               ELSE IF to <= from THEN from + 7 ELSE to]

\* _tool_search_hotels: a stay has a night.
HotelWindow(call) ==
    LET from == FirstDay(call.from)
        to == CoerceDay(call.to, 17)
    IN  [from |-> from, to |-> IF to <= from THEN from + 3 ELSE to]

\* The options at the indices in S by a field, ascending or not, and else as they were.
Ranked(options, S, field, descending) ==
    LET Before(i, j) ==
            LET v == options[i][field]
                w == options[j][field]
            IN  IF v = w THEN i < j ELSE IF descending THEN v > w ELSE v < w
    IN  Arranged(options, S, Before)

\* _order_options, stable: an option without the value comes last either way.
Ordered(options, field, descending) ==
    LET missing == {i \in DOMAIN options : options[i][field] = None}
    IN  Ranked(options, DOMAIN options \ missing, field, descending) \o Only(options, missing)

\* _FLIGHT_SORTS and _HOTEL_SORTS (the others order by a further field in the same way).
FlightSorts ==
    [price_asc |-> <<"price", FALSE>>, price_desc |-> <<"price", TRUE>>,
     duration_asc |-> <<"minutes", FALSE>>, stops_asc |-> <<"stops", FALSE>>]
HotelSorts ==
    [price_asc |-> <<"price", FALSE>>, price_desc |-> <<"price", TRUE>>,
     rating_desc |-> <<"rating", TRUE>>]

\* _apply_sort: the cheapest first unless another order is asked for.
Sorted(options, sorts, requested) ==
    LET by == sorts[IF requested \in DOMAIN sorts THEN requested ELSE "price_asc"]
    IN  Ordered(options, by[1], by[2])

\* Variant: the model is told the options in the order of the provider.
Slim_Unsorted(found, shown) == LET n == Min({5, Len(found)}) IN SubSeq(found, 1, n)

\* The model is told the first five of the cards.
Slim(found, shown) == LET n == Min({5, Len(shown)}) IN SubSeq(shown, 1, n)

Shown(options) == SubSeq(options, 1, Min({6, Len(options)}))

\* A search answers, without a key with nothing, or fails.
AnswersOf(leg, nights) == IF "serpapi" \in keys THEN Said(leg, nights) \cup {Failed} ELSE {<<>>}

-----------------------------------------------------------------------------
ConciergeInit ==
    /\ Init
    /\ IF endpoint = "chat" THEN history \in Conversations /\ asked = NoBudget
       ELSE history = <<>> /\ ~prompt.short
    /\ endpoint = "chat" =>
           \E help \in Prompts : ~help.route /\ ~help.short /\ prompt = Sentence(history, help)
    /\ round = 0
    /\ calls = <<>>
    /\ cards = [flight |-> <<>>, hotel |-> <<>>, restaurant |-> <<>>]
    /\ told = cards
    /\ windows = [flight |-> None, hotel |-> None]
    /\ bill = <<>>
    /\ booked = None
    /\ reply = None

\* AgentService.run asks back before it asks the model.
Listen ==
    /\ pc = "idle" /\ endpoint = "chat" /\ "openai" \in keys
    /\ history' = Sanitized(history)
    /\ IF Incomplete' THEN pc' = "answered" /\ reply' = "clarify"
                      ELSE pc' = "model" /\ UNCHANGED reply
    /\ UNCHANGED <<plannerVars, balance, round, calls, cards, told, windows, bill, booked>>

\* What was booked in the turn so far.
Owed == SumFunction(bill)

\* The response, and with it the commit of what was booked.
Reply(text) ==
    /\ pc' = "answered"
    /\ reply' = text
    /\ balance' = balance - Owed
    /\ UNCHANGED <<plannerVars, history, round, calls, told, bill, booked>>

\* Variant: the answers of the model are not counted.
CallTools_Uncounted ==
    /\ pc = "model" /\ round < MaxRounds
    /\ calls' \in Batches
    /\ pc' = "tool"
    /\ UNCHANGED <<plannerVars, balance, history, round, cards, told, windows, bill, booked, reply>>

\* The model answers with tool calls.
CallTools ==
    /\ pc = "model" /\ round < MaxRounds
    /\ calls' \in Batches
    /\ round' = round + 1
    /\ pc' = "tool"
    /\ UNCHANGED <<plannerVars, balance, history, cards, told, windows, bill, booked, reply>>

\* After the last round the turn ends with an excuse.
GiveUp ==
    /\ pc = "model" /\ round = MaxRounds
    /\ Reply("excuse")
    /\ UNCHANGED <<cards, windows>>

\* The model answers in words, and no route is to be read from the guest's.
Speak ==
    /\ pc = "model" /\ round < MaxRounds
    /\ Latest.route # "known"
    /\ Reply("words")
    /\ UNCHANGED <<cards, windows>>

\* _fallback_flight_search: otherwise the flights of that route are searched in any case,
\* with no day or order but those of the guest's words; cards that were there are
\* replaced, and so are the words of the model if something is found.
SearchAgain ==
    /\ pc = "model" /\ round < MaxRounds
    /\ Latest.route = "known"
    /\ LET call == [from |-> Junk, to |-> None]
       IN  \E found \in AnswersOf("flight", 1) :
               /\ windows' = [windows EXCEPT !.flight = FlightWindow(call)]
               /\ cards' = IF found = Failed THEN cards
                           ELSE [cards EXCEPT !.flight = Shown(Sorted(found, FlightSorts, Junk))]
               /\ Reply(IF found \in {Failed, <<>>} THEN "words" ELSE "found")

-----------------------------------------------------------------------------
\* The tools.  A failed call is a result like any other.

NextCall ==
    /\ pc = "tool"
    /\ calls' = Tail(calls)
    /\ pc' = IF calls' = <<>> THEN "model" ELSE "tool"
    /\ UNCHANGED <<plannerVars, balance, history, round, reply>>

\* _tool_search_flights: an airport that cannot be resolved is not searched for.
SearchFlights ==
    /\ NextCall
    /\ LET call == Head(calls) IN
       /\ call.tool = "search_flights"
       /\ IF ~call.known THEN UNCHANGED <<cards, told, windows>>
          ELSE \E found \in AnswersOf("flight", 1) :
                 /\ windows' = [windows EXCEPT !.flight = FlightWindow(call)]
                 /\ IF found = Failed THEN UNCHANGED <<cards, told>>
                    ELSE LET shown == Shown(Sorted(found, FlightSorts, call.sort))
                         IN  /\ cards' = [cards EXCEPT !.flight = shown]
                             /\ told' = [told EXCEPT !.flight = Slim(found, shown)]
    /\ UNCHANGED <<bill, booked>>

\* _tool_search_hotels: a place, of the call or of the guest's words.
SearchHotels ==
    /\ NextCall
    /\ LET call == Head(calls)
           window == HotelWindow(call)
       IN
       /\ call.tool = "search_hotels"
       /\ IF ~call.place /\ ~Latest.near THEN UNCHANGED <<cards, told, windows>>
          ELSE \E found \in AnswersOf("hotel", Max({window.to - window.from, 1})) :
                 /\ windows' = [windows EXCEPT !.hotel = window]
                 /\ IF found = Failed THEN UNCHANGED <<cards, told>>
                    ELSE LET shown == Shown(Sorted(found, HotelSorts, call.sort))
                         IN  /\ cards' = [cards EXCEPT !.hotel = shown]
                             /\ told' = [told EXCEPT !.hotel = Slim(found, shown)]
    /\ UNCHANGED <<bill, booked>>

\* _tool_search_restaurants: in the order of the provider.
SearchRestaurants ==
    /\ NextCall
    /\ Head(calls).tool = "search_restaurants"
    /\ \E found \in AnswersOf("restaurant", 1) :
           IF found = Failed THEN UNCHANGED <<cards, told>>
           ELSE /\ cards' = [cards EXCEPT !.restaurant = Shown(found)]
                /\ told' = [told EXCEPT !.restaurant = Slim(found, Shown(found))]
    /\ UNCHANGED <<windows, bill, booked>>

\* _record_booked
Record(kind, amount) ==
    /\ bill' = Append(bill, amount)
    /\ booked' = kind

\* _tool_book_flight, _tool_book_hotel: no price is no booking, and what the wallet
\* refuses is told to the model.  round() of an infinite price raises.
BookPriced ==
    /\ NextCall
    /\ LET call == Head(calls) IN
       /\ call.tool \in {"book_flight", "book_hotel"} /\ call.price # Infinite
       /\ IF call.price # Junk /\ call.price >= 0 /\ call.price <= balance - Owed
          THEN Record(call.tool, call.price) ELSE UNCHANGED <<bill, booked>>
    /\ UNCHANGED <<cards, told, windows>>

\* _tool_book_restaurant: reservations are free.
BookRestaurant ==
    /\ NextCall
    /\ Head(calls).tool = "book_restaurant"
    /\ Record("book_restaurant", 0)
    /\ UNCHANGED <<cards, told, windows>>

\* get_budget, a tool that is unknown, or arguments that are no JSON.
OtherTool ==
    /\ NextCall
    /\ Head(calls).tool = "other"
    /\ UNCHANGED <<cards, told, windows, bill, booked>>

\* The language model or a tool raises: the response is a 500 and nothing is booked.
Raise ==
    /\ pc \in Turning
    /\ pc' = "error"
    /\ bill' = <<>>
    /\ UNCHANGED <<plannerVars, balance, history, round, calls, cards, told, windows, booked, reply>>

Turn ==
    \/ CallTools \/ GiveUp \/ Speak \/ SearchAgain
    \/ SearchFlights \/ SearchHotels \/ SearchRestaurants
    \/ BookPriced \/ BookRestaurant \/ OtherTool
    \/ Raise

ConciergeNext == (Next /\ UNCHANGED <<history, turnVars>>) \/ Listen \/ Turn

\* The searches and the language model are called with timeouts, so a planner's step and
\* a turn's come to an end.
ConciergeSpec ==
    /\ ConciergeInit /\ [][ConciergeNext]_<<vars, history, turnVars>>
    /\ WF_<<vars, history, turnVars>>(Step /\ UNCHANGED <<history, turnVars>>)
    /\ WF_<<vars, history, turnVars>>(Turn)

-----------------------------------------------------------------------------
(* Properties *)

\* Whatever days the model gives, a search leaves before it returns, a stay has a night,
\* and a day is over only if the guest named it.
WindowsOrdered ==
    \A kind \in DOMAIN windows :
        LET w == windows[kind] IN
        w # None => /\ w.to # None => w.from < w.to
                    /\ w.from >= 0 \/ w.from = Latest.day

\* An answer says what is shown and what is booked.  Of every kind the cards begin with
\* the options the model was told last, in their order, so that what it recommends is
\* the first card; only the search that follows the model's words may replace the flights,
\* either with those its own reply counts or, having found nothing, with none.  The
\* response shows a booking exactly if the turn made one, and the balance has paid them all.
\* What was searched for had days in their order.
ReplyTruthful ==
    endpoint = "chat" =>
        /\ WindowsOrdered
        /\ pc = "answered" /\ reply # None =>
              /\ \A kind \in DOMAIN cards :
                     \/ /\ IsPrefix(told[kind], cards[kind])
                        /\ Len(told[kind]) = Min({5, Len(cards[kind])})
                     \/ /\ kind = "flight" /\ Latest.route = "known"
                        /\ reply = "found" <=> cards[kind] # <<>>
              /\ reply = "found" => cards["flight"] # <<>>
              /\ reply = "clarify" => \A kind \in DOMAIN cards : cards[kind] = <<>>
              /\ booked = None <=> bill = <<>>
              /\ balance = Opening - Owed /\ balance >= 0
        /\ pc # "answered" => balance = Opening

\* What ends in an error is a hint that float() does not take, a chat whose model or tool
\* raised, and, where the planner stands in for the model, a message of fewer than three
\* characters.
ErrorCaused ==
    pc = "error" => \/ prompt.hint = Malformed
                    \/ endpoint = "chat" /\ ("openai" \in keys \/ prompt.short)

\* Every request is answered, in a bounded number of rounds, with an error only where one
\* has its cause.
EveryRequestAnswered ==
    /\ PlannerAnswers
    /\ pc \in Turning ~> pc \in {"answered", "error"}
    /\ []ErrorCaused

=============================================================================
