------------------------------ MODULE Searches ------------------------------
(***************************************************************************)
(* What the flight, hotel and restaurant searches make of the lists of the   *)
(* search provider.  An entry that is not one is dropped, what an option     *)
(* does not tell is None.                                                    *)
(***************************************************************************)
EXTENDS Integers, Sequences, FiniteSets

CONSTANTS
    None            \* a value that is missing, or no number

\* Lists are filtered and sorted by the ranks of their indices: without recursion, so
\* that proofs can follow.  Nth is the n-th element of S in the order Before.
Nth(S, Before(_, _), n) == CHOOSE i \in S : Cardinality({j \in S : Before(j, i)}) = n - 1

\* The entries of a list at the indices in S, in an order of these.
Arranged(list, S, Before(_, _)) == [n \in 1 .. Cardinality(S) |-> list[Nth(S, Before, n)]]

\* The entries at the indices in S, in the order of the list.
Only(list, S) == Arranged(list, S, <)

\* FlightService._normalize: no option without a leg.
FlightOptions(raw) ==
    LET flights == Only(raw, {i \in DOMAIN raw : raw[i].legs > 0})
    IN  [i \in DOMAIN flights |->
            [price |-> flights[i].price, minutes |-> flights[i].minutes,
             stops |-> flights[i].legs - 1]]

\* HotelSearchService._normalize: a total, or else the nights at their rate.
HotelPrice(e, nights) ==
    IF e.total # None THEN e.total
    ELSE IF e.night # None THEN e.night * nights ELSE None

HotelOptions(raw, nights) ==
    LET hotels == Only(raw, {i \in DOMAIN raw : raw[i].named})
    IN  [i \in DOMAIN hotels |->
            [price |-> HotelPrice(hotels[i], nights), rating |-> hotels[i].rating]]

\* RestaurantService.search: no option without a title.
RestaurantOptions(raw) == Only(raw, {i \in DOMAIN raw : raw[i].titled})

=============================================================================
