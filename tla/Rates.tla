------------------------------- MODULE Rates --------------------------------
(***************************************************************************)
(* Exchange rates.  Two endpoints of the wallet (currencies, convert) and  *)
(* one of PaxPal ask the same provider, each side with a module-level      *)
(* cache of its own that lasts an hour.  Nothing orders the requests: two  *)
(* that miss fetch both, and the later answer stays.  Where the provider   *)
(* fails the wallet takes a fixed table of some currencies, PaxPal a 502.  *)
(* A process that restarts has empty caches.                               *)
(***************************************************************************)
EXTENDS Integers, FiniteSets

CONSTANTS
    Quotes,         \* the requests that arrive, each handled once
    Currencies,     \* currency codes
    Anchor,         \* USD, the currency of the fixed table
    Listed,         \* _FALLBACK_USD_RATES: the codes of the fixed table
    Published,      \* the codes the provider has rates of
    TTL,            \* _FX_TTL_SECONDS, in ticks
    Patience,       \* ticks a fetch can take
    MaxClock,       \* ticks that are looked at
    MaxRestarts     \* bound on restarts

RatesAssumption ==
    /\ Anchor \in Listed /\ Listed \subseteq Currencies /\ Published \subseteq Currencies
    /\ TTL \in Nat \ {0} /\ Patience \in Nat

VARIABLES
    clock,      \* time.monotonic
    caches,     \* caches[api][base]: what either module has cached, or Miss
    quote,      \* quote[q]: request q, see NoQuote
    restarts    \* restarts so far

-----------------------------------------------------------------------------
(* Tables of rates *)

Apis == {"wallet", "paxpal"}

\* What the provider may send with a 200: rates, a table without any, JSON that is no
\* table, or no JSON.
Bodies == {"rates", "empty", "broken", "noise"}

\* live: the provider sent it; made: when; per: the currency its rates are per.
Table(live, made, per, body) == [live |-> live, made |-> made, per |-> per, body |-> body]

Miss == [stored |-> -1, table |-> Table(FALSE, 0, Anchor, "empty")]

\* The test both modules make before they fetch.
Fresh(entry) == entry.stored # -1 /\ clock - entry.stored < TTL

\* _fallback_for_base: a base that the table does not list gets the rates per USD.
Fallback(base) == Table(FALSE, clock, IF base \in Listed THEN base ELSE Anchor, "rates")

\* FxResult.rate of a currency: one of the table's own base, else as listed.
HasRate(table, to) == to = table.per \/ to \in (IF table.live THEN Published ELSE Listed)

-----------------------------------------------------------------------------
(* Requests *)

\* op: the endpoint; from: the base it asks for; to: the other currency of a pair;
\* since: when the fetch began; answered: when it ended, with the rates of table.
NoQuote == [pc |-> "idle", op |-> "fx", from |-> Anchor, to |-> Anchor, since |-> 0,
            answered |-> 0, table |-> Miss.table]

Api(q) == IF quote[q].op = "fx" THEN "paxpal" ELSE "wallet"

Init ==
    /\ clock = 0
    /\ caches = [a \in Apis |-> [b \in Currencies |-> Miss]]
    /\ quote = [q \in Quotes |-> NoQuote]
    /\ restarts = 0

\* q is answered with status pc.
Answer(q, pc, table) ==
    quote' = [quote EXCEPT ![q].pc = pc, ![q].table = table, ![q].answered = clock]

\* What a request makes of a table: a conversion without a rate is a 422, of JSON that
\* is no table comes an exception.
Outcome(q, table) ==
    IF table.body = "broken" THEN "failed"
    ELSE IF quote[q].op = "convert" /\ ~HasRate(table, quote[q].to) THEN "refused"
    ELSE "done"

\* GET /paxpal/fx, POST /wallet/convert, GET /wallet/currencies.  A pair of one
\* currency needs no rate.
Ask(q) ==
    /\ quote[q].pc = "idle"
    /\ \E op \in {"fx", "convert", "currencies"}, from, to \in Currencies :
         /\ op # "convert" => to = Anchor
         /\ quote' = [quote EXCEPT ![q] =
                [NoQuote EXCEPT !.op = op, !.from = from, !.to = to,
                                !.pc = IF op = "convert" /\ from = to THEN "same" ELSE "asked"]]
    /\ UNCHANGED <<clock, caches, restarts>>

\* A fresh entry is the answer.
UseCached(q) ==
    /\ quote[q].pc = "asked"
    /\ LET entry == caches[Api(q)][quote[q].from] IN
       /\ Fresh(entry)
       /\ Answer(q, Outcome(q, entry.table), entry.table)
    /\ UNCHANGED <<clock, caches, restarts>>

\* Else the provider is asked.
Fetch(q) ==
    /\ quote[q].pc = "asked"
    /\ ~Fresh(caches[Api(q)][quote[q].from])
    /\ quote' = [quote EXCEPT ![q].pc = "fetching", ![q].since = clock]
    /\ UNCHANGED <<clock, caches, restarts>>

\* Variant: whatever the wallet gets is cached, the fixed table too.
Keeps_All(api, table) == TRUE

\* What is cached: rates by the wallet; any JSON by PaxPal, before it is looked at.
Keeps(api, table) == table.live /\ (api = "paxpal" \/ table.body = "rates")

\* The end of a fetch, with the table that came of it.
Take(q, table) ==
    /\ caches' = IF Keeps(Api(q), table)
                 THEN [caches EXCEPT ![Api(q)][quote[q].from] = [stored |-> clock, table |-> table]]
                 ELSE caches
    /\ Answer(q, Outcome(q, table), table)

\* No rates: the wallet has its table, PaxPal an error.
Without(q, error) ==
    IF Api(q) = "wallet" THEN Take(q, Fallback(quote[q].from))
    ELSE Answer(q, error, Miss.table) /\ UNCHANGED caches

\* A 200 of the provider, made at some moment since the fetch began.  JSON that is no
\* table ends the wallet's requests as well.
ProviderAnswers(q) ==
    /\ quote[q].pc = "fetching"
    /\ \E made \in quote[q].since .. clock, body \in Bodies :
         IF body = "noise" \/ (body = "empty" /\ Api(q) = "wallet")
         THEN Without(q, "failed")
         ELSE Take(q, Table(TRUE, made, quote[q].from, body))
    /\ UNCHANGED <<clock, restarts>>

\* A timeout, a lost connection, any other status.
ProviderFails(q) ==
    /\ quote[q].pc = "fetching"
    /\ Without(q, "upstream")
    /\ UNCHANGED <<clock, restarts>>

\* Time passes, but no fetch outlives its timeout.
Tick ==
    /\ clock < MaxClock
    /\ \A q \in Quotes : quote[q].pc = "fetching" => clock - quote[q].since < Patience
    /\ clock' = clock + 1
    /\ UNCHANGED <<caches, quote, restarts>>

\* The process is started again.
Restart ==
    /\ restarts < MaxRestarts
    /\ restarts' = restarts + 1
    /\ caches' = [a \in Apis |-> [b \in Currencies |-> Miss]]
    /\ quote' = [q \in Quotes |-> IF quote[q].pc \in {"asked", "fetching"}
                                  THEN [quote[q] EXCEPT !.pc = "failed"] ELSE quote[q]]
    /\ UNCHANGED clock

Next ==
    \/ \E q \in Quotes :
         Ask(q) \/ UseCached(q) \/ Fetch(q) \/ ProviderAnswers(q) \/ ProviderFails(q)
    \/ Tick \/ Restart

-----------------------------------------------------------------------------
(* Properties *)

Done(q) == quote[q].pc = "done"

\* Rates that are shown as live are at most an hour and a fetch old and per the currency
\* that was asked for, whichever of several fetches answers last.  The wallet's fixed
\* rates do not outlast the failure: who is answered with them asked the provider in
\* vain, and PaxPal invents none.  They are per the currency that was asked for only if
\* the table lists it.
RatesHonest ==
    \A q \in Quotes : Done(q) =>
        LET t == quote[q].table IN
        IF t.live
        THEN quote[q].answered - t.made < TTL + Patience /\ t.per = quote[q].from
        ELSE /\ Api(q) = "wallet"
             /\ t.made = quote[q].answered
             /\ quote[q].from \in Listed => t.per = quote[q].from

=============================================================================
