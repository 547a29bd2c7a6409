------------------------------ MODULE PaxCards ------------------------------
(***************************************************************************)
(* PaxCards over PostgreSQL: cards are issued, frozen and thawed by one    *)
(* toggling endpoint, given spending controls, and programmed with a       *)
(* signed token.  Each request loads the card, decides on that copy and    *)
(* flushes the columns whose value it changed; the row is locked from the  *)
(* flush to the commit and has no version.  A restart of the container     *)
(* seeds the demo card again.                                              *)
(***************************************************************************)
EXTENDS Naturals

CONSTANTS
    CardRequests,   \* the HTTP requests that arrive, each handled once
    Caller,         \* Caller[r]: the authenticated guest
    CardOf,         \* CardOf[r]: the card r names, or will issue
    Owner,          \* Owner[c]: the guest who has card c, or will have it
    SeedCards,      \* cards the seed creates
    Controls,       \* the columns PATCH .../controls can set
    Initially,      \* Initially[k]: the default of control k, on or off
    Free,           \* holder of a row nobody wrote
    MaxRestarts     \* bound on restarts

Cards == SeedCards \cup {CardOf[r] : r \in CardRequests}

CardsAssumption ==
    /\ Owner \in [Cards -> {Caller[r] : r \in CardRequests}]
    /\ Initially \in [Controls -> BOOLEAN]
    /\ Free \notin CardRequests

VARIABLES
    cards,      \* the committed pax_cards, by id
    flips,      \* flips[c]: toggles committed since c was issued or seeded
    raced,      \* cards of which two toggles overlapped since then
    tokens,     \* the tokens of committed answers
    lock,       \* lock[c]: the request whose open transaction wrote card c
    at,         \* at[r]: where request r stands
    session,    \* session[r]: what it was asked, has loaded and has written
    restarts    \* restarts so far

table == <<cards, flips, raced, tokens>>
cardVars == <<table, lock, at, session, restarts>>

-----------------------------------------------------------------------------
NewCard == [frozen |-> FALSE, programmed |-> FALSE, controls |-> Initially]

\* row: the loaded card; asked: controls to set; seen: the toggles committed when the
\* card was loaded; frozen, programmed, sets: columns the flush wrote, with their values.
CleanSession == [op |-> "none", asked |-> <<>>, row |-> NewCard, seen |-> 0,
                 frozen |-> {}, programmed |-> {}, sets |-> <<>>]

Busy == {"load", "flush", "commit"}

\* A PATCH names some of the controls.
Requested == UNION {[S -> BOOLEAN] : S \in SUBSET Controls}

\* COMMIT and ROLLBACK both release what the transaction locked.
Unlock(r) == lock' = [c \in Cards |-> IF lock[c] = r THEN Free ELSE lock[c]]

\* The exception handler of get_session.
Rollback(r, answer) ==
    /\ at' = [at EXCEPT ![r] = answer]
    /\ session' = [session EXCEPT ![r] = CleanSession]
    /\ Unlock(r)
    /\ UNCHANGED <<table, restarts>>

Init ==
    /\ cards = [c \in SeedCards |-> NewCard]
    /\ flips = [c \in Cards |-> 0]
    /\ raced = {}
    /\ tokens = {}
    /\ lock = [c \in Cards |-> Free]
    /\ at = [r \in CardRequests |-> "idle"]
    /\ session = [r \in CardRequests |-> CleanSession]
    /\ restarts = 0

\* POST /cards: a card with an id of its own.
IssueCard(r) ==
    /\ at[r] = "idle"
    /\ Caller[r] = Owner[CardOf[r]] /\ CardOf[r] \notin SeedCards
    /\ CardOf[r] \notin DOMAIN cards /\ lock[CardOf[r]] = Free
    /\ session' = [session EXCEPT ![r].op = "issue"]
    /\ lock' = [lock EXCEPT ![CardOf[r]] = r]
    /\ at' = [at EXCEPT ![r] = "commit"]
    /\ UNCHANGED <<table, restarts>>

\* The three endpoints that change a card.
AskCard(r) ==
    /\ at[r] = "idle"
    /\ \/ session' = [session EXCEPT ![r].op = "freeze"]
       \/ session' = [session EXCEPT ![r].op = "program"]
       \/ \E asked \in Requested :
            session' = [session EXCEPT ![r].op = "controls", ![r].asked = asked]
    /\ at' = [at EXCEPT ![r] = "load"]
    /\ UNCHANGED <<table, lock, restarts>>

\* Variant: a frozen card is programmed like any other.
LoadCard_Frozen(r) ==
    /\ at[r] = "load"
    /\ CardOf[r] \in DOMAIN cards
    /\ session' = [session EXCEPT ![r].row = cards[CardOf[r]], ![r].seen = flips[CardOf[r]]]
    /\ at' = [at EXCEPT ![r] = "flush"]
    /\ UNCHANGED <<table, lock, restarts>>

\* session.get: an unknown card and somebody else's are a 404, programming a frozen
\* one is a 409.
LoadCard(r) ==
    /\ at[r] = "load"
    /\ LET c == CardOf[r] IN
       \/ /\ c \notin DOMAIN cards \/ Owner[c] # Caller[r]
          /\ Rollback(r, "refused")
       \/ /\ c \in DOMAIN cards /\ Owner[c] = Caller[r]
          /\ IF session[r].op = "program" /\ cards[c].frozen
             THEN Rollback(r, "refused")
             ELSE /\ session' = [session EXCEPT ![r].row = cards[c], ![r].seen = flips[c]]
                  /\ at' = [at EXCEPT ![r] = "flush"]
                  /\ UNCHANGED <<table, lock, restarts>>

\* Variant: the frozen flag is set and not toggled.
FreezeTo_On(row) == TRUE

\* freeze_card: not card.frozen, of the loaded copy.
FreezeTo(row) == ~row.frozen

\* Variant: every control of the loaded copy is written.
Changed_All(r) ==
    [k \in Controls |-> IF k \in DOMAIN session[r].asked THEN session[r].asked[k]
                        ELSE session[r].row.controls[k]]

\* The controls whose value differs from the loaded copy: an attribute set to the value
\* it has is no change.
Changed(r) ==
    LET asked == session[r].asked
    IN  [k \in {k \in DOMAIN asked : asked[k] # session[r].row.controls[k]} |-> asked[k]]

\* The UPDATE of the changed columns, if there are any; it waits for another
\* transaction that wrote the row.
FlushCard(r) ==
    /\ at[r] = "flush"
    /\ LET c == CardOf[r]
           s == session[r]
           new == [s EXCEPT
               !.frozen = IF s.op = "freeze" THEN {FreezeTo(s.row)} ELSE {},
               !.programmed = IF s.op = "program" THEN {TRUE} \ {s.row.programmed} ELSE {},
               !.sets = IF s.op = "controls" THEN Changed(r) ELSE <<>>]
       IN  /\ session' = [session EXCEPT ![r] = new]
           /\ IF new.frozen \cup new.programmed \cup DOMAIN new.sets = {}
              THEN UNCHANGED lock
              ELSE /\ lock[c] \in {Free, r}
                   /\ lock' = [lock EXCEPT ![c] = r]
    /\ at' = [at EXCEPT ![r] = "commit"]
    /\ UNCHANGED <<table, restarts>>

\* The row with the columns that r wrote.
Row(r) ==
    LET s == session[r]
        old == cards[CardOf[r]]
    IN  IF s.op = "issue" THEN NewCard
        ELSE [frozen |-> IF s.frozen = {} THEN old.frozen ELSE TRUE \in s.frozen,
              programmed |-> old.programmed \/ s.programmed # {},
              controls |-> [k \in Controls |->
                  IF k \in DOMAIN s.sets THEN s.sets[k] ELSE old.controls[k]]]

\* What the transaction wrote becomes visible, and program_card answers its token:
\* froze says whether the card is frozen by now, late whether that came after its load.
CommitCard(r) ==
    /\ at[r] = "commit"
    /\ LET c == CardOf[r]
           s == session[r]
       IN  /\ cards' = [d \in DOMAIN cards \cup {c} |-> IF d = c THEN Row(r) ELSE cards[d]]
           /\ flips' = IF s.op = "freeze" THEN [flips EXCEPT ![c] = @ + 1] ELSE flips
           /\ raced' = IF s.op = "freeze" /\ flips[c] # s.seen THEN raced \cup {c} ELSE raced
           /\ tokens' = IF s.op = "program"
                        THEN tokens \cup {[card |-> c, froze |-> cards[c].frozen,
                                           late |-> flips[c] # s.seen]}
                        ELSE tokens
    /\ at' = [at EXCEPT ![r] = "done"]
    /\ session' = [session EXCEPT ![r] = CleanSession]
    /\ Unlock(r)
    /\ UNCHANGED restarts

\* A lost connection, a client gone.
FailCard(r) ==
    /\ at[r] \in Busy
    /\ Rollback(r, "failed")

\* _upsert of the demo card: its flags are written over, its controls are not named.
SeedRow(c) == [cards[c] EXCEPT !.frozen = FALSE, !.programmed = FALSE]

\* The container restarts: what is in flight is lost, and the seed runs.
Restart ==
    /\ restarts < MaxRestarts
    /\ restarts' = restarts + 1
    /\ cards' = [c \in DOMAIN cards |-> IF c \in SeedCards THEN SeedRow(c) ELSE cards[c]]
    /\ flips' = [c \in Cards |-> IF c \in SeedCards THEN 0 ELSE flips[c]]
    /\ raced' = raced \ SeedCards
    /\ at' = [r \in CardRequests |-> IF at[r] \in Busy THEN "failed" ELSE at[r]]
    /\ session' = [r \in CardRequests |-> CleanSession]
    /\ lock' = [c \in Cards |-> Free]
    /\ UNCHANGED tokens

Next ==
    \/ \E r \in CardRequests :
         IssueCard(r) \/ AskCard(r) \/ LoadCard(r) \/ FlushCard(r) \/ CommitCard(r) \/ FailCard(r)
    \/ Restart

-----------------------------------------------------------------------------
(* Properties *)

\* A card is frozen exactly if it was toggled an odd number of times, unless two of
\* the toggles overlapped: then one tap may undo nothing and freeze nothing.
FrozenByToggles ==
    \A c \in DOMAIN cards \ raced : cards[c].frozen = (flips[c] % 2 = 1)

\* A token is given out for a frozen card only if the freeze committed while the card
\* was being programmed.
FrozenTokenTakesOverlap == \A t \in tokens : t.froze => t.late

\* A PATCH of one control never brings back a stale value of another one, or of the
\* frozen flag: a control changes only when a request that names it commits, and a
\* restart leaves all of them alone.
OnlyNamedControlsChange ==
    [][\A c \in DOMAIN cards, k \in Controls :
          cards'[c].controls[k] # cards[c].controls[k] =>
              \E r \in CardRequests :
                  /\ at[r] = "commit" /\ at'[r] = "done"
                  /\ CardOf[r] = c
                  /\ k \in DOMAIN session[r].asked
                  /\ cards'[c].controls[k] = session[r].asked[k]]_cardVars

=============================================================================
