---------------------------- MODULE Credentials ----------------------------
(***************************************************************************)
(* The two credentials the API signs with one secret: room keys (RoomKeys) *)
(* and the tokens of PaxCards.  They share no row, so a behaviour is about *)
(* requests for one of them.                                               *)
(***************************************************************************)
EXTENDS RoomKeys

CONSTANTS
    CardRequests, Caller, CardOf, Owner, SeedCards, Controls, Initially, Free, MaxRestarts

VARIABLES
    cards, flips, raced, tokens, lock, at, session, restarts,   \* of PaxCards
    wanted          \* which credential the requests are about

C == INSTANCE PaxCards

ASSUME CredentialsAssumption == C!CardsAssumption

cardVars == <<cards, flips, raced, tokens, lock, at, session, restarts>>
credentialVars == <<vars, cardVars, wanted>>

CredentialsInit == Init /\ C!Init /\ wanted \in {"keys", "cards"}

CredentialsNext ==
    \/ wanted = "keys" /\ Next /\ UNCHANGED <<cardVars, wanted>>
    \/ wanted = "cards" /\ C!Next /\ UNCHANGED <<vars, wanted>>

CredentialsSpec == CredentialsInit /\ [][CredentialsNext]_credentialVars

-----------------------------------------------------------------------------
(* Properties *)

\* Cards are frozen by an odd number of toggles, unless toggles overlap.
FrozenByToggles == C!FrozenByToggles

\* No token for a frozen card, unless the freeze overlapped its programming.
FrozenTokenTakesOverlap == C!FrozenTokenTakesOverlap

\* Controls change only by requests that name them.
OnlyNamedControlsChange == C!OnlyNamedControlsChange

=============================================================================
