----------------------------- MODULE RateLimit -----------------------------
(***************************************************************************)
(* The rate limiter of one process: fixed windows of one minute, counted    *)
(* per client address and bucket of paths before anything else is done with *)
(* a request.  Refused requests count too.  The table is pruned when it has *)
(* grown too large, and is lost with the process.                           *)
(***************************************************************************)
EXTENDS Naturals, FiniteSets, Functions

CONSTANTS
    Clients,    \* client addresses
    Buckets,    \* auth, ai, default
    Limit,      \* Limit[b]: requests per window in bucket b
    Minute,     \* the length of a window, in ticks
    PruneAt,    \* the table is pruned when it is larger
    Horizon,    \* bound: the clock stops here
    MaxHits     \* bound: a client sends no more in one window

ASSUME RateLimitAssumption ==
    /\ Limit \in [Buckets -> Nat]
    /\ Minute \in Nat \ {0}
    /\ PruneAt \in Nat /\ Horizon \in Nat /\ MaxHits \in Nat
    /\ IsFiniteSet(Clients) /\ IsFiniteSet(Buckets)

Keys == Clients \X Buckets

VARIABLES
    now,        \* the clock
    hits,       \* the table: window and count of the keys it holds
    answer      \* answer[k]: the last answer of the limiter to k

limitVars == <<now, hits, answer>>

Window(t) == t \div Minute

\* What the table knows of this window.
Counted(k) ==
    IF k \in DOMAIN hits /\ hits[k].window = Window(now) THEN hits[k].count ELSE 0

\* Variant: everybody's counter goes.
Prune_All(table) == [k \in {} |-> 0]

\* Entries of earlier windows are dropped, those of this one are kept.
Prune(table) == Restrict(table, {k \in DOMAIN table : table[k].window = Window(now)})

\* _Counter.increment
Increment(k) ==
    LET table == [j \in DOMAIN hits \cup {k} |->
                     IF j = k THEN [window |-> Window(now), count |-> Counted(k) + 1]
                     ELSE hits[j]]
    IN  hits' = IF Cardinality(DOMAIN table) > PruneAt THEN Prune(table) ELSE table

Init ==
    /\ now = 0
    /\ hits = [k \in {} |-> 0]
    /\ answer = [k \in Keys |-> [verdict |-> "none", until |-> 0]]

\* dispatch, a request within the limit goes on to its endpoint.
Admit(k) ==
    /\ Counted(k) + 1 <= Limit[k[2]]
    /\ Increment(k)
    /\ answer' = [answer EXCEPT ![k] = [verdict |-> "admitted", until |-> 0]]
    /\ UNCHANGED now

\* dispatch, 429 with Retry-After.  The clock is read a second time for it, and may
\* have moved on to the next second, or the next window.
Refuse(k) ==
    /\ Counted(k) + 1 > Limit[k[2]]
    /\ Counted(k) < MaxHits
    /\ Increment(k)
    /\ now' \in {now, now + 1} /\ now' <= Horizon
    /\ LET retryAfter == Minute - (now' % Minute) IN
       answer' = [answer EXCEPT ![k] = [verdict |-> "limited", until |-> now' + retryAfter]]

Tick ==
    /\ now < Horizon
    /\ now' = now + 1
    /\ UNCHANGED <<hits, answer>>

\* The table is the process's.
Restart ==
    /\ hits' = [k \in {} |-> 0]
    /\ UNCHANGED <<now, answer>>

Next == Tick \/ Restart \/ \E k \in Keys : Admit(k) \/ Refuse(k)

Spec == Init /\ [][Next]_limitVars

-----------------------------------------------------------------------------
(* Properties *)

Entry == [window : Nat, count : Nat \ {0}]

\* The types of the clock, the table and the answers.
TypeOK ==
    /\ now \in Nat
    /\ DOMAIN hits \subseteq Keys
    /\ \A k \in DOMAIN hits : hits[k] \in Entry
    /\ answer \in [Keys -> [verdict : {"none", "admitted", "limited"}, until : Nat]]

\* What was admitted in this window, of which the table counts refusals too.
Admissions(k) == IF Counted(k) > Limit[k[2]] THEN Limit[k[2]] ELSE Counted(k)

Q == INSTANCE Quota WITH Allowed <- [k \in Keys |-> Limit[k[2]]], Length <- Minute,
                         time <- now, used <- [k \in Keys |-> Admissions(k)], reply <- answer

\* The fixed windows of the middleware count exactly, whatever is pruned and wherever
\* the clock is when Retry-After is computed: see Quota.
ImplementsQuota == Q!Spec

=============================================================================
