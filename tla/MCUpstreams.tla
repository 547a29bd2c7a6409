---------------------------- MODULE MCUpstreams -----------------------------
(***************************************************************************)
(* TLC instance of Upstreams: two rides of one guest and a plan of two items    *)
(* whose second one may cost too much.  A tick is 30 seconds, half the      *)
(* margin and longer than a leg of a call, whose phases end after 15.       *)
(***************************************************************************)
EXTENDS Upstreams

MCPlans == {<<>>, <<1000, 1000>>, <<1000, 3000>>}

\* A plain fare, one above 1000 units, an estimate only, and one that is not understood.
MCProducts ==
    {[NoRide EXCEPT !.fare = Money("value", 20), !.pinned = TRUE],
     [NoRide EXCEPT !.fare = Money("value", 2000), !.pinned = TRUE],
     [NoRide EXCEPT !.price = Between(10, 30)],
     NoRide}

\* One client remembers a fare that it saw.
MCNamedFare == [r \in RideRequests |-> IF r = 2 THEN 1000 ELSE Open]

=============================================================================
