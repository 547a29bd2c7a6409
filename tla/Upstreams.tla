----------------------------- MODULE Upstreams -----------------------------
(***************************************************************************)
(* The requests that ask other companies' services while they hold a       *)
(* request session: rides (Rides), their tracking (Tracking) and exchange  *)
(* rates (Rates).  They share no state but the guest's budget, which only  *)
(* rides charge, so a behaviour is about requests of one of the three.     *)
(***************************************************************************)
EXTENDS Rides

CONSTANTS
    Quotes, Currencies, Anchor, Listed, Published, TTL, Patience, MaxRestarts,  \* of Rates
    Polls, PickupPhase, RideDuration, MaxMinute, MaxStarts                      \* of Tracking

VARIABLES
    clock, caches, quote, restarts,                         \* of Rates
    minute, dispatched, stage, sandbox, poll, starts,       \* of Tracking
    about                                                   \* what the requests ask for

R == INSTANCE Rates
T == INSTANCE Tracking

ASSUME UpstreamsAssumption == R!RatesAssumption /\ T!TrackingAssumption

rateVars == <<clock, caches, quote, restarts>>
trackVars == <<minute, dispatched, stage, sandbox, poll, starts>>
upstreamVars == <<vars, rateVars, trackVars, about>>

UpstreamsInit ==
    /\ Init /\ R!Init /\ T!Init
    /\ (about \in {"ride", "rate"} /\ sandbox) \/ about = "track"

UpstreamsNext ==
    \/ about = "ride" /\ Next /\ UNCHANGED <<rateVars, trackVars, about>>
    \/ about = "rate" /\ R!Next /\ UNCHANGED <<vars, trackVars, about>>
    \/ about = "track" /\ T!Next /\ UNCHANGED <<vars, rateVars, about>>

UpstreamsSpec == UpstreamsInit /\ [][UpstreamsNext]_upstreamVars

-----------------------------------------------------------------------------
(* Properties *)

\* Rates shown as live are hardly older than the cache allows, and the fixed rates do
\* not outlast the failure of the provider.
RatesHonest == R!RatesHonest

\* A ride that is asked for again has not fallen back.
TrackingForward == T!TrackingForward

=============================================================================
