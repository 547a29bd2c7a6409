# Verification of the OpenClaw backend

TLA+ models of the backend under `src/app` (FastAPI, SQLAlchemy on PostgreSQL),
TLC instances that check them, and TLAPS proofs. `PROJECT.json` maps every
definition that models code to its source lines.

## The system

One async process serves HTTP requests; any number of them interleave at their
awaits. Every request gets one database session (`db/session.py`): one
transaction in READ COMMITTED, committed when the handler returns, rolled back
when it raises. No query uses `FOR UPDATE` and no table has a version column.
A handler therefore decides on copies of rows it read earlier and writes literal
new values at a later flush, where a row lock is taken and kept to the end of
the transaction. That pattern is where the hard behaviour of this program is.

| Component | State | Operations | What makes it correct |
|---|---|---|---|
| Travel wallet (`wallet_service`, `budget`) | `wallet_budgets`, `purchases` | ensure_budget, topup, purchase (+ hotel stay) | never overdrawn; exact for a client that awaits its answers; opened once; stays and purchases agree |
| Concierge chat (`agent_service`, `assistant`) | the cards and booking of a turn | rounds of tool calls in one transaction, refused ones swallowed; the planner in its place without a key | a refused or failed turn leaves no half of a booking; others are not blocked for ever; what is shown is what the model was told; a turn ends |
| PaxPal groups (`paxpal`) | `expense_groups`, `group_expenses`, budgets | add expense, settle up | debts are paid to the cent; no member overdrawn; no deadlock in the normal case |
| PaxCards (`paxpal`) | `pax_cards` | issue, freeze, program, set controls | a toggle is neither lost nor doubled; no token for a frozen card; a PATCH changes what it names |
| Seed / start (`seed`, `entrypoint.sh`) | seeded rows | upsert at each boot | a rerun changes nothing that was done since |
| Stays, check-in, keys | `stays`, `check_ins`, `digital_keys` | passport, face, check-in, key for a purchase | one key per purchase, only after verification |
| Provider connections | `provider_connections`, imported `stays` | link, import, unlink | linked state and rows agree; imports do not duplicate |
| Orchestrator | `orchestrator_accounts` | link, auto-scan | every linked account has a connection; no double link |
| Orders, travel, loyalty | `orders`, `bookings`, `loyalty_transactions` | place order, book, earn | points equal what the stored totals earn |
| Rides and cars | token cache; `purchases` | search, book (live or demo), track | a charged ride exists, at the fare it was requested at, a refused one does not; a tracked ride does not fall back |
| Searches (`flight_service`, `hotel_search_service`, `restaurant_service`) | none | one search each | only real entries become options |
| Trip planner (`trip_planner_service`, `ai_itinerary_service`, `trips`) | none | plan, AI plan, confirm | a leg that fails degrades alone; items stay within the days; a plan costs what it shows; confirm is all or nothing; always an answer |
| Auth | `users`, `guests` | register, update profile, login, refresh | one login per email, one guest per login, of one name; refresh tokens only refresh |
| Rate limiter | counters in memory | count, prune | exactly the limit per window, whatever is pruned |
| Payments | paid sessions in memory | checkout, webhook, poll | paid only after a verified event; confirmations arrive |
| Exchange rates (`fx_service`, `wallet`, `paxpal`) | two rate caches in memory | currencies, convert, fx | what is shown as live is no older than the cache allows; what stands in for it is not kept |
| Spend summary (`spend_service`) | none | insights | shares and remainder agree with the budget and the purchases they were read from |
| Preferences | one column | read, write | written whole |

Components call each other directly; they share the database rows, above all
`wallet_budgets` (wallet, chat, PaxPal, rides, trips) and `stays` (wallet,
connections, keys, orders). Hard behaviours: overlapping requests of one guest
(double clicks, a chat turn beside a screen), transactions that fail or are
refused half way, row-lock waits and deadlocks, restarts, and calls to external
services between a check and a write. `PROJECT.json` lists them as hazards, each
at its line.

## Modules

- `Wallet` - the wallet service and the requests that drive it. Detailed
  specification: one action per step between two awaits that touch the database.
- `BudgetLedger` - what the wallet promises, without sessions: one indivisible
  charge or credit per guest.
- `SettleUp` - expenses and settle-up of one PaxPal group, with the order of the
  flush, row locks, deadlock detection, and the container's restart.
- `Tab` - what a group promises: a settlement hands the debtor's exact share to
  members who are owed, in one step that closes the round.
- `RoomKeys` - the two endpoints that issue digital keys: a check-in with
  passport and selfie, and the key of a hotel purchase.
- `Accounts` - the orchestrator's links and scans, and the provider connections
  they record, which import stays and are unlinked.
- `Spending` - the spend summary, read in two statements beside everything that
  `Wallet`, which it extends, does.
- `PaxCards` - virtual cards: issued, frozen, programmed, given controls, reseeded.
- `Credentials` - `RoomKeys` and `PaxCards` side by side: the two credentials that the
  API signs.
- `Fares` - how amounts of money in a ride provider's answer are read.
- `Rates` - exchange rates with the caches of the two modules that ask for them.
- `Tracking` - a booked ride followed at the provider, or in the sandbox.
- `Upstreams` - `Rides`, `Rates` and `Tracking`: requests that ask other services.
- `Rides` - rides booked at the live provider between the budget check and the
  charge, the process's token cache, and trip plans that charge the same budget. It
  builds on `Fares`.
- `RateLimit` - the counters of the rate limiter.
- `Quota` - what a limiter promises: exactly the limit in every window, and a
  truthful time to come back.
- `Identity` - registrations, profile changes and the seed over `users`, `guests`.
- `Payments` - Stripe's checkout sessions, the webhook and the polls.
- `Points` - room-service orders and travel bookings, and the points ledger both
  write to.
- `Gateway` - the process that composes these four: the limiter in front of the
  endpoints, and starts and stops that take all of its memory at once.
- `Searches` - what becomes of the lists the search provider returns.
- `Planner` - a plan from a sentence, by the rules or designed by the language model,
  and its confirmation. It builds on `Searches`.
- `Concierge` - a turn of the chat. It extends `Planner`, which answers in its place
  where there is no language model.
- `MCWallet`, `MCSpending`, `MCSettleUp`, `MCRoomKeys`, `MCCredentials`, `MCAccounts`,
  `MCUpstreams`, `MCGateway`, `MCPlanner` (of `Concierge` with its `Planner`) - TLC
  instances.
- `WalletProofs` (`Wallet`, `Spending`), `SettleUpProofs`, `CredentialsProofs`
  (`RoomKeys`, `PaxCards`), `AccountsProofs`, `UpstreamsProofs` (`Rides`, `Rates`,
  `Tracking`), `GatewayProofs` (`RateLimit`, and behind it `Identity`, `Payments`,
  `Points`), `PlannerProofs` (`Searches`, `Planner`, `Concierge`) - TLAPS proofs.
- `SetFacts` - lemmas about least and greatest elements and sums of finite sets.

### Wallet

`rows`, `balance`, `openings` are the committed `wallet_budgets`; `purchased`,
`stays`, `hotels` abstract the `purchases` and `stays` tables to what the
properties need; `toppedUp` is a history variable (the code records no top-ups).
`holder` is the row lock of PostgreSQL, `pc`, `call` and `tx` are the handlers
and sessions in flight. `tx.view` is the attribute of the loaded row object.

| Action | Code |
|---|---|
| `Receive`, `OpenChat`, `CallTool`, `Reply` | the endpoint is entered; the tool loop of `AgentService.run`; the closing read of `chat` |
| `EnsureBudget`, `InsertBudget` | `ensure_budget`: SELECT, INSERT of a missing row (waits for a racing insert, then a unique violation) |
| `TopUp`, `Purchase`, `EnsureHotelStay`, `RefusePurchase`, `ReadBudget` | the service calls, refusals included |
| `Commit`, `Fail` | the two exits of `get_session` |

A READ COMMITTED SELECT that waits for no lock sees the latest commit, so it is
one action. An UPDATE is one action guarded by the row lock. Updates write only
changed columns: a purchase of amount 0 locks the row and leaves its balance.

### Spending

`AskInsights` enters as `GET /budget` does; `ListPurchases` is the second SELECT, which
in READ COMMITTED sees what was committed since the balance was loaded. `bought` and
`basket` are the committed and the flushed purchases by kind, `Record` and `Publish`
the `Purchase` and `Commit` of `Wallet` with them. `BudgetShown`, `Pct`, `Categories`,
`Lines` are the payload. It is why a summary may show more than a guest ever had: a
purchase that commits between the two reads is in the list and still in the balance. It
never shows less.

### SettleUp

`View` (the round), `EnsureMine`, `PayCreditor` and `OpenBudget` (copies of the
budgets, one creditor at a time in whatever order the SELECT returned them),
`Mark` (the second SELECT of open expenses), `FlushRow` (one UPDATE at a time in
the unit of work's order: expenses, then budgets, by primary key), `Commit`,
`DeadlockVictim`, `Fail`, `Boot`. `moves` is what the response reports;
`paidOut` and `received` total it over answered settlements.

### RoomKeys

`stays`, `checkIns`, `keys` are the tables; a key is named by the request that
issued it, because ids and tokens are random. `AskKey`, `FindStay`, `FindKey`,
`IssueKey` follow `issue_hotel_key` from one await to the next; `FindKey` has the
three results of `scalar_one_or_none`. `ReceiveCheckIn`, `CheckIn` are
`create_check_in` with its policy (`Verdict`). The stay of an older purchase is
found, or made, by its unique `external_ref` (`RefStay`): the INSERT of a second one
waits for the first (`holder`) and then fails.

### PaxCards

`AskCard`, `LoadCard`, `FlushCard`, `CommitCard` are the three endpoints that change a
card, `IssueCard` the one that makes it. The flush writes the columns whose value differs
from the loaded copy, so a PATCH of one control leaves the others alone even when it
overlaps another one, but `freeze_card` writes the negation of what it loaded: two
overlapping taps freeze once (`raced`). The check that a card to be programmed is not
frozen is as old as the load (`late`). `Restart` is the rerun of `_upsert` over the demo
card, which thaws it and keeps its controls.

### Accounts

`linked`, `connections`, `stays` are the tables; `recorded` keeps every connection
ever committed, `born` the request that inserted a stay (both are history).
`Select` is the second SELECT of a link or scan, `Flip` one UPDATE of its flush,
`Connect` the connection rows it records. `Clear`, `Lookup`, `Upsert` are an import,
one reservation at a time; `Delete` and `SetNull` an unlink with the foreign key's
`ON DELETE SET NULL`, whose row order the database chooses. The connector registry
is the process's and is not rolled back.

### Rides

`book_transfer` from one call to the next: `UseToken`, `Mint`, `Upstream` are
`_uber_access_token` and `_uber_request` with every way they fail; `Estimates`,
`EnsureBudget`, `TripAnswer`, `Charge`, `Commit` the steps of the booking. The
provider (`posted`, `trips`) dispatches a trip it was asked for whether or not its
answer is awaited, so a 502 may leave a trip nobody paid: the code has no remedy
for that, and the properties say that it is the only way, a crash apart. `Confirm`
stands for `confirm_trip`; car and scooter bookings are plans of one item. Sandbox
bookings are such plans too. A price above the budget is an
`InsufficientBudgetError` that `book_transfer` does not catch at that point
(`transfers.py:180`): the guest gets a 500, where the same refusal by the wallet
is a 409. `now` is the monotonic clock; `Tick` respects the timeouts of httpx.

`Cents` is `_coerce_money_cents`, which takes a "value" or "amount" above 1000 to be in
cents: a fare of 2000 units is charged as 20. `fares` keeps what the provider was asked
for, by the `fare_id` of the search that the booking makes or the one that the client
names. `ChargedAsRequested` says that these are the only two ways to be charged another
amount than the one that was requested, if the fare has an id at all.

### Rates and Tracking

`Ask`, `UseCached`, `Fetch`, `ProviderAnswers`, `ProviderFails` follow `get_rates`
of `fx_service.py` (`Api` "wallet") and `fx_rates` of `paxpal.py` ("paxpal"), each with its cache; `Keeps`
and `Without` are where they differ: the wallet keeps answers with rates and has a fixed
table otherwise, PaxPal keeps any JSON and has a 502. `made` dates a table at the
provider: an answer that was delayed may replace a later one. A base that the fixed
table does not list gets the rates per US dollar, which `RatesHonest` leaves room for.

`TrackBooking`, `Look`, `TripStatus`, `Upstream` are one poll of a ride, with the moment
at which the provider looked, `Drive` its trip and `Restart` a change of
`transfer_provider`. Polls that overlap may be answered in any order;
`TrackingForward` compares a poll with those sent after it was answered. It leaves out
statuses the code does not name (`_map_status` shows them as a car about to arrive).

### Gateway

`hits`, `now`, `answer` (`RateLimit`) are the table of `_Counter`, the clock and
what a client was last told; `Increment` and `Prune` are the methods of these
names, and `Refuse` reads the clock a second time for `Retry-After`, as `dispatch`
does. `users`, `guests` (`Identity`) are the tables, `holder` and `writer` the locks
of the unique index and of the rows a flush has written. `Register`, `Insert` are
the two statements of a registration; `Authenticate`, `LoadGuest`, `Flush`, `Commit`
those of `PATCH /auth/me`, which SQLAlchemy flushes as an UPDATE of whatever differs
from what it read; `Seed` is `_seed_demo_user` and the companions of `_seed_paxpal`,
with the unique violation (`SeedFits`) that ends the seed. `stripe`, `pending` are
Stripe's side of the payments, `verified` the store of `payment_verification.py`.

`orders`, `bookings`, `credits` (`Points`) are committed rows, named by their request
because their ids are random; `openings` counts how often `_seed_loyalty_ledger` has
inserted the demo guest's first rows, and `desk` holds the open transactions.
`PlaceOrder`, `Save`, `Earn` are an order (the total comes from the menu, `Discount` is
Python's `round`), `Book`, `Earn`, `Save`, `ReadBalance` a booking, in the order of the
two services; points go to a guest of `Identity`, and the same `Start` seeds both.

`Arrive` is a request the limiter admits, joined with the first action of its
endpoint, which reaches the database without another await of the limiter; `TurnAway`
is a 429; `Deliver` the webhook, whose path is exempt. `Start` seeds and serves
(`entrypoint.sh`) or only serves (the command of `README.md:89`). `Stop` is one step
of all four parts: the table, the store and every open transaction are lost, the
committed rows and Stripe's sessions stay.

Three things the code does and the properties leave room for. `config.py:154` calls
the windows sliding, but they are fixed, as `rate_limit.py` says: a client may be
admitted twice its limit around a boundary, and `Quota` promises no more than a
fixed window. A confirmation that has been accepted is forgotten with the process,
and a payment by a delayed method is never confirmed (only
`checkout.session.completed` counts): `PaidConfirmed` speaks of the moment a
confirmation arrives, and of payments made at once. Two overlapping changes of one
name may leave login and guest with different names: `parted` records the overlap,
and `NamesPaired` says that it takes one, or the seed, which writes its guests' names
again.

### Plan

What would come next: wallets of another currency than the plan's, and the refresh of
tokens beside changes of a profile.
