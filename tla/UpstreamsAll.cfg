SPECIFICATION UpstreamsSpec
CONSTANTS
    RideRequests = {1, 2}
    PlanRequests = {3}
    NoRequest = 0
    Opening = 3000
    Products <- MCProducts
    NamedFare <- MCNamedFare
    Plans <- MCPlans
    Timeout = 1
    Margin = 2
    Lives = {2, 3}
    MaxClock = 3
    Quotes = {1, 2}
    Currencies = {"USD", "NZD"}
    Anchor = "USD"
    Listed = {"USD"}
    Published = {"NZD"}
    TTL = 2
    Patience = 1
    MaxRestarts = 1
    Polls = {1, 2}
    PickupPhase = 1
    RideDuration = 3
    MaxMinute = 3
    MaxStarts = 1
INVARIANTS
    RefusedRideNeverRequested
    ChargedRideDispatched
    PlanWhole
    ChargedAsRequested
    RatesHonest
    TrackingForward
    TokenLive
\* Every request is handled once, so the last answer ends the behaviour.
CHECK_DEADLOCK FALSE
