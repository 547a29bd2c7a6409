------------------------------ MODULE Tracking ------------------------------
(***************************************************************************)
(* Following a booked ride.  A ride of a live provider is asked for there, *)
(* and the answer may arrive after that of a later question; a ride of the *)
(* sandbox moves with the time since it was booked.  Which of the two it   *)
(* is depends on the ride and on the setting the process was started with. *)
(***************************************************************************)
EXTENDS Integers

CONSTANTS
    Polls,          \* requests to track the ride, each handled once
    PickupPhase,    \* _PICKUP_PHASE in minutes
    RideDuration,   \* _RIDE_DURATION in minutes
    MaxMinute,      \* minutes that are looked at
    MaxStarts       \* bound on restarts with another transfer_provider

TrackingAssumption ==
    /\ PickupPhase \in Nat \ {0} /\ RideDuration \in Nat /\ PickupPhase < RideDuration

VARIABLES
    minute,     \* minutes since the ride was booked, by the wall clock
    dispatched, \* the ride has a trip at the provider
    stage,      \* the status of that trip
    sandbox,    \* transfer_provider is "mock"
    poll,       \* poll[p]: request p, see NoPoll
    starts      \* restarts so far

-----------------------------------------------------------------------------
(* What is shown of a ride *)

\* The statuses of a trip, as the provider goes through them; it may be cancelled before
\* its end, and then and before has statuses that the code does not name.
Successors(status) ==
    CASE status \in {"processing", "redispatched"} -> {"accepted", "cancelled", "rider_gone"}
      [] status = "accepted" -> {"en_route_to_pickup", "redispatched", "cancelled"}
      [] status = "en_route_to_pickup" -> {"on_trip", "redispatched", "rider_gone"}
      [] status = "on_trip" -> {"en_route_to_dropoff", "cancelled"}
      [] status = "en_route_to_dropoff" -> {"droppedoff"}
      [] OTHER -> {}

Named == {"processing", "accepted", "en_route_to_pickup", "on_trip", "en_route_to_dropoff",
          "droppedoff", "cancelled"}

\* status, and how much of the way, in percent.
Shown(status, progress) == [status |-> status, progress |-> progress]

\* Variant: one of the names of a trip under way is missing.
MapStatus_NoDropoff(raw) ==
    CASE raw = "droppedoff" -> Shown("completed", 100)
      [] raw = "on_trip" -> Shown("in_progress", 65)
      [] raw = "cancelled" -> Shown("cancelled", 100)
      [] raw \in {"accepted", "en_route_to_pickup", "processing"} -> Shown("arriving", 20)
      [] OTHER -> Shown("arriving", 10)

\* _map_status.  What it does not know is a car about to arrive.
MapStatus(raw) ==
    CASE raw = "droppedoff" -> Shown("completed", 100)
      [] raw \in {"on_trip", "en_route_to_dropoff"} -> Shown("in_progress", 65)
      [] raw = "cancelled" -> Shown("cancelled", 100)
      [] raw \in {"accepted", "en_route_to_pickup", "processing"} -> Shown("arriving", 20)
      [] OTHER -> Shown("arriving", 10)

\* track: the ride of the sandbox after so many minutes.
Track(elapsed) ==
    IF elapsed < PickupPhase
    THEN Shown("arriving", (elapsed * 20) \div PickupPhase)
    ELSE IF elapsed < RideDuration
    THEN Shown("in_progress",
               20 + ((elapsed - PickupPhase) * 80) \div (RideDuration - PickupPhase))
    ELSE Shown("completed", 100)

-----------------------------------------------------------------------------
(* Requests *)

\* live: the provider is asked; sent and answered: when; raw: the provider's status.
NoPoll == [pc |-> "idle", live |-> FALSE, sent |-> 0, answered |-> 0, raw |-> "none",
           shown |-> Shown("arriving", 0)]

Init ==
    /\ minute = 0
    /\ dispatched \in BOOLEAN
    /\ stage = "processing"
    /\ sandbox = ~dispatched
    /\ poll = [p \in Polls |-> NoPoll]
    /\ starts = 0

\* GET /transfers/{id}/track.  The provider is asked about its trip, unless the process
\* is one of the sandbox.
TrackBooking(p) ==
    /\ poll[p].pc = "idle"
    /\ poll' = [poll EXCEPT ![p] =
           IF dispatched /\ ~sandbox
           THEN [NoPoll EXCEPT !.pc = "asked", !.live = TRUE, !.sent = minute]
           ELSE [NoPoll EXCEPT !.pc = "done", !.sent = minute, !.answered = minute,
                               !.shown = Track(minute)]]
    /\ UNCHANGED <<minute, dispatched, stage, sandbox, starts>>

\* The provider looks at the trip.
Look(p) ==
    /\ poll[p].pc = "asked"
    /\ poll' = [poll EXCEPT ![p].pc = "looked", ![p].raw = stage]
    /\ UNCHANGED <<minute, dispatched, stage, sandbox, starts>>

\* Its answer.
TripStatus(p) ==
    /\ poll[p].pc = "looked"
    /\ poll' = [poll EXCEPT ![p].pc = "done", ![p].shown = MapStatus(poll[p].raw),
                            ![p].answered = minute]
    /\ UNCHANGED <<minute, dispatched, stage, sandbox, starts>>

\* A call that fails is a 502.
Upstream(p) ==
    /\ poll[p].pc \in {"asked", "looked"}
    /\ poll' = [poll EXCEPT ![p].pc = "upstream"]
    /\ UNCHANGED <<minute, dispatched, stage, sandbox, starts>>

\* The trip goes on.
Drive ==
    /\ dispatched
    /\ stage' \in Successors(stage)
    /\ UNCHANGED <<minute, dispatched, sandbox, poll, starts>>

Tick ==
    /\ minute < MaxMinute
    /\ minute' = minute + 1
    /\ UNCHANGED <<dispatched, stage, sandbox, poll, starts>>

\* The process is started again, with the other provider.
Restart ==
    /\ starts < MaxStarts
    /\ starts' = starts + 1
    /\ sandbox' = ~sandbox
    /\ poll' = [p \in Polls |-> IF poll[p].pc \in {"asked", "looked"}
                                THEN [poll[p] EXCEPT !.pc = "failed"] ELSE poll[p]]
    /\ UNCHANGED <<minute, dispatched, stage>>

Next ==
    \/ \E p \in Polls : TrackBooking(p) \/ Look(p) \/ TripStatus(p) \/ Upstream(p)
    \/ Drive \/ Tick \/ Restart

-----------------------------------------------------------------------------
(* Properties *)

Rank(status) == CASE status = "arriving" -> 0 [] status = "in_progress" -> 1 [] OTHER -> 2

\* Who asks again once he was answered never sees the ride fall back, neither its status
\* nor its progress, unless the process was switched between provider and sandbox in
\* the meantime or the provider uses a status that the code does not name.
TrackingForward ==
    \A p, q \in Polls :
        /\ poll[p].pc = "done" /\ poll[q].pc = "done"
        /\ poll[p].answered < poll[q].sent
        /\ poll[p].live = poll[q].live
        /\ poll[q].live => poll[q].raw \in Named
        => /\ Rank(poll[p].shown.status) <= Rank(poll[q].shown.status)
           /\ poll[p].shown.progress <= poll[q].shown.progress

=============================================================================
