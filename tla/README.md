# Formal verification of bayes-market

TLA+ models of the credit-handling core of this repository, model-checked with
TLC, and theorems about them checked by TLAPS. The models are translated from
the Python source; `PROJECT.json` gives, for every definition that models code,
the file and the lines it stands for.

Contents: 1 the system, 2 the modules and how they correspond to the code,
3 what the runs check and show, 4 what is proved, 5 what is only model-checked
or not modelled, 6 the plan.

## 1. The system

Two servers that do not talk to each other, and their clients.

* `src/exchange` is a futarchy exchange: one asyncio process (FastAPI) with all
  state in memory. Every handler that changes state runs under one
  `asyncio.Lock` (`app.state.lock`) and awaits nothing while it holds it, so
  handlers never interleave; only a login gives the lock up, while GitHub is
  asked. Its hard behaviours are long sequences of legal calls, handlers that
  raise half way (there is no rollback), rounding, and the snapshot on disk that
  lags behind memory.
* `src/backend` is an HTTP server for combinatorial markets with a command and
  event journal. `run_server` serves one request at a time, so its hard
  behaviours are sequences: handlers that raise after they stored a command, an
  edit that the joint distribution refuses after its price was written, and a
  restart that keeps the joint but not the markets. Its locks serve the
  concurrency tests, which start a threaded server; the program does not.

| component | state | operations | hard behaviour | what makes it correct |
|---|---|---|---|---|
| risk engine (`exchange/core/risk_engine.py`, `models.py`) | accounts with available and frozen balance, locks, transaction log, id counters, compacted mint base | create account, mint, lock, increase, decrease, release, settle, transfer available or frozen, compact | two-account two-lock moves, log compaction over earlier compactions | frozen = sum of locks; log, balances and mint total agree; only mints and settlements change the total |
| AMM market engine (`core/market_engine.py`, `core/lmsr.py`, `venues/amm.py`) | `b`, `q`, positions, trades, AMM account, margin, profit and loss locks | create, buy, sell, add liquidity, resolve, void, sweep, admin status override | price rounding, margins of partial sells, netting, handlers that raise after they moved credits | the pool covers every outcome; resolve pays what was traded; void returns every deposit |
| book venue (`venues/book/engine.py`) | orders, reservations, positions, escrow lock, number of sets | place (with the matching loop), cancel, resolve, void | transfer, mint and redeem in one call, partial fills, self-trades | sets are backed, orders covered, price-time priority, limits |
| batch venue (`venues/batch/engine.py`) | sealed pending orders, posted price, round, filled holdings, escrow | submit, cancel, close a round (competitive sizing), resolve, void | a round that raises between two settled orders; spends floored to a quantum; rounds due while the exchange is down | locks match pending orders; escrow covers payouts and refunds; due rounds are cleared |
| joint venue (`venues/joint/venue.py`, `msr.py`) | orders with stakes and remaining contexts, resolutions, voids, treasury, the factored market maker | place an edit, resolve or void a variable | orders waiting on several variables decided in any order; precheck and walk are separate code | each order is settled or called off exactly once; the walk cannot raise; the junction tree stays the joint distribution |
| exchange API (`core/api.py`) | composition of the above, users, keys, OAuth states, webhooks | HTTP handlers, `_save` (compaction, snapshot), reconcilers | several venues share one risk engine; logins interleave; webhooks lost, late, repeated; memory ahead of disk after a failed handler | one account per owner; what was answered survives a crash; expired AMM markets end; a reader's page stays valid |
| snapshot persistence (`core/persistence.py`) | snapshot file and `.tmp` | save (write, rename), load, migrate | crash between a change and its save | restart restores the last save, of venues that do not run too |
| authentication, rate limits, middleware | key hashes, device flows, token buckets | look-ups | wall-clock windows | - |
| backend server (`backend/server.py`) | markets, journal, idempotency records, accounts | edit, event trade, comment, close, reopen, resolve; replay of a repeated key | partial failures, joint and stored prices apart, restart | one effect per idempotency key, chained journal whose state hash is the state, risk within the limit |
| backend inference (`backend/inference`) | conditional tables, clusters and their belief tables, traded scopes | trade, condition, restructure, query, snapshot | fill edges, width budget, conditioning that fails half way | same semantics as the maker over the explicit joint; a snapshot rebuilds |
| backend LMSR, formula schema | none | numeric updates, parsing | floating point | - |
| frontend, command lines, MCP server, agents, scripts, deployment | none of the system's | clients of the APIs | - | - |

Interaction: every venue of the exchange holds a reference to the one risk
engine and moves credits only through its methods; the API calls a venue and
then `_save`. The market engine, the book and the batch engine each number
their markets from 1 in the same lock namespace. `src/backend/inference` is
imported by the joint venue and by the backend server for their distribution.

## 2. Modules

* **`Ledger`** - the risk engine's methods as operators on a record of
  available balances, frozen balances and locks: `Mint`, `Freeze` (lock and
  increase_lock), `DecreaseLock`, `ReleaseLock`, `SettleLock`,
  `TransferAvailable`, `TransferFrozen`, and the guards `CanPay`,
  `CanDecrease`, `HasLock`. A handler that makes many calls composes them. A
  lock is identified by its account and a key; a lock of amount zero is no
  lock. The code deletes a lock whose amount becomes zero, and it can create a
  zero lock only where the amount is zero to begin with (a free edit of the
  joint venue, a book market's first escrow lock); such a lock holds nothing
  and its release or increase gives the same balances.
* **`RiskEngine`** - the same methods as actions on shared state, with the
  transaction log, the id counter, compaction (`compact_transactions`, called
  from `_save` when the log passes `TX_LOG_CEILING`) and the mint base. A
  method that raises does so before it changes anything, so it is no step.
  Compaction may come after any method call because a handler makes any number
  of calls before its one `_save`, and one that raises never reaches it.
* **`AmmMarket`** - one market of the AMM engine from before `create_market` to
  after settlement. `Buy`, `Sell`, `AddLiquidity`, `Resolve`, `Void` and
  `OverrideStatus` are whole handlers: `Sell` is the margin release, the profit
  or loss and the netting of `_execute_trade`; `Resolve` and `Void` include the
  sweep. `SellAborts` and the second disjunct of `AddLiquidity` are the
  handlers that raise after they have moved credits; their partial effects stay,
  as in the code. `funding` says which of the three creation paths was taken:
  minted, from a funder that the metadata records (self-serve), from the
  treasury without a record (webhook, admin). The payer of `AddLiquidity` is any
  account, as in `admin_add_liquidity`: the treasury, the creator, a trader, or the
  AMM itself. `faults`, `netPaid` and `paidIn` (who paid how much for subsidy and
  liquidity) are history variables. The funder is taken not to trade in the market
  it funds; a funder that did would have, on top, what a trader gets.
* **`OrderBook`** - one market of the book engine. `PlaceOrder` is the whole of
  `place_order`, the matching loop folded over the book; a fill moves money,
  positions and sets for each pair of intents. `Cancel`, `Resolve` and `Void`
  are whole handlers. `Restart` is `from_snapshot` of what `to_snapshot` keeps:
  the book is rebuilt from the orders, and the refinement says that nothing a
  trader owns is lost by it.
* **`CompleteSets`** - what the book promises, without orders: wealth and
  shares, every set worth one credit. `OrderBook` implements it
  (`ImplementsCompleteSets`), with an order's frozen money counted as its
  owner's wealth.
* **`BeliefNetwork`** - what `inference/network_model.py` builds from stored
  marginals and conditional rows, and `inference/joint_market.py`, the maker over
  the explicit joint: the reference.
* **`JunctionTree`** - `inference/factored_market.py`: min-fill triangulation,
  clusters and separators, the width budget, propagation, `trade_to_probability`
  with a forced restructuring or a refusal, `condition`, queries under evidence,
  snapshots. A structure is a record; every method is an operator on it.
* **`JointVenue`** - staked edits on that maker: `Place` with
  `_check_lifecycle` and the preview, `ResolveVariable` with the treasury precheck
  and the settlement walk folded over the orders in placement order,
  `VoidVariable`, `Restart`; the venue's answers (`AllMarginals`, `Portfolio`) are
  operators. The walk can raise: `Settled` releases the stake and then finds that
  a transfer is not covered. `flat` is a history variable: the explicit joint
  moved by the same trades and resolutions. `Restart` loads the stored tables where
  they rebuild, and else, as the venue does, the seeds with the resolutions.
* **`Journal`** - the backend server's commands: probability edit, event trade,
  comment, close, reopen, resolve, create, with idempotent replay, stored prices
  beside the joint, account risk and exposure, the event journal with its effects
  and replay hashes, and a restart that keeps only the joint's file. `Abandon` is
  a handler that raises after it stored its command. The joint is known by its
  marginals; how a trade on one variable moves the others is a choice.
* **`JournalReads`** - what the server's GET routes compute from that state:
  market analytics, platform totals, an account's profit and loss, positions,
  exposure and risk, feeds with their cursors, tables and network overview.
* **`Feeds`** - what the paged routes of both servers do with a log: the entries
  selected, newest or oldest first, a page from a cursor, and a client that
  follows the cursors (`Read`). `RiskEngine` and `JournalReads` extend it.
* **`BatchRound`** - the batch engine and the part of `api.py` that runs it:
  sealed orders with their locks, the competitive sizing with its three
  repricings, the clearing loop, payouts and refunds in any order of holders, each
  with the failure that stops it half way; `Reconcile` is one pass over all due
  markets, `Start` the pass of the start-up. State exists twice, `live` and
  `disk`; `_save` is part of every handler that saves.
* **`Exchange`** - `api.py` around the venues: logins with the await on GitHub
  inside, accounts an admin opens and mints to, service accounts, webhooks (a set of
  deliveries that may be repeated, late or lost), users' and admins' markets on the
  AMM and on the book, settlement, status override, the expiry reconciler, and the
  snapshot with the section of a venue that may not be running. A login is three
  steps: `Callback` (or `DevicePoll`) up to the await, `LoginEnds` up to the save,
  and `Answered`, when the response is with its client; `CreateServiceAccount` and
  `Answered` are two. `unsent` holds the answers in between; `cut` remembers the owners whose
  last answer a crash kept from them, and `granted` what admins minted. Actions of
  failed requests change memory only. A market is its venue, maker, day, deadline
  and status.
* **`SharedLedger`** - one AMM market and one book market of the same number on
  one ledger: `AmmMarket` extended with the actions of an instance of
  `OrderBook` over the same `ledger`. The book takes a step only while its own
  locks are as it left them; void and resolve of the AMM market may release them,
  after which the book raises in the middle of its walks.
* **`MC...`** and the `.cfg` files instantiate them.
* **Proofs** (section 4): `LedgerProofs` (sums and folds over finite sets, and the
  ledger's mutations) is used by `RiskEngineProofs`, `AmmMarketProofs`,
  `OrderBookProofs`, `BatchRoundProofs`, `JointVenueProofs` and `JournalProofs`;
  `ExchangeProofs` stands alone. Each extends the module it is named after.

Abstractions, and why they are faithful to what the properties tell apart:

* *Money is integers.* The code uses `Decimal` with fixed quanta, so credits are
  multiples of a quantum. Where rounding matters it is modelled: a buyer's
  price is rounded up and a seller's down (`BuyValue`, `SellValue`), a partial
  sell's margin is floored, scores are floored and stakes raised (`RoundDown`,
  `RoundUp` over `Grain`). In the book price times size is exact in the code,
  and it is here.
* *LMSR is a parameter.* `AmmMarket` takes the cost function `Cost(b, q)` as a
  constant operator; the run gives a table with the shape of
  `b * ln(sum e^(q/b))`: convex, at least the largest `q`, all prices positive,
  doubled with `b`. `CostAssumption` names what the proofs use of that shape; TLC
  checks that the table has it. The error of `math.log` in floating point is not
  modelled.
  `add_liquidity` is modelled for the funding that doubles `b`, since other
  fundings make `q` fractional.
* *Probabilities are orders of magnitude.* In `BeliefNetwork` and `JunctionTree` a
  table entry is a rank: rank k stands for a positive multiple of epsilon^k,
  `Never` for 0. Sums become minima, products sums, quotients differences. This is
  a homomorphism of every operation the code makes on tables (it never
  subtracts masses), so zeros, supports, refusals and which table a message
  reaches are followed exactly; sizes of probabilities of the same order are
  not told apart. In `Journal` a probability is one of six levels chosen for the
  roundings of the code (six decimals of a price read from the joint, twelve of an
  edited one).
* *The score of an edit is a parameter.* A bet carries its raw payouts
  `b*ln(q/p)` and `b*ln((1-q)/(1-p))`; the code's floor and ceiling of them are
  modelled. `Journal` takes `kl_divergence` as a table.
* *The batch engine's cost function* is replaced by that of a maker whose price is
  linear, not logistic, in the shares sold. It shares what clearing depends on:
  convexity, `C(q) - C(-q) = q`, prices that cannot be told from 0 and 1 far out.
* *Log entries of `OverrideStatus`* (a zero-delta transaction) are in no balance
  and are not modelled. Market ids in lock keys are dropped where a module has
  one market.

**Crashes.** `_save` writes a temporary file and renames it, so the file is always
a whole snapshot. A handler that has not reached its rename leaves no trace on
disk, and memory is lost with the process: a crash inside a handler is a crash
before it, or after its save and before its answer. Where that difference matters
it is explored: an API key is told once and stored as a hash, and a login removes the
key told before (`auth.py:64-70`) when it saves (`api.py:449`). So in `Exchange` the
answer of a login and of a service account is a step of its own (`Answered`), a crash
before it loses the answer, and answers may overtake each other. A user logs in
again; a service account whose answer was lost keeps its name, and asking again
gets 409. In the other cases a lost answer leaves the client with a request that was
served, which it may repeat like any other.

**Fairness.** Handlers run to their end; nothing promises that a client or an admin
ever sends the next request, so no action of theirs is fair. What is fair:

* `WF_vars(Reconcile)` - the expiry and the batch-round loops of `api.py` are
  `while not stop_event` with the body inside a `try`, so as long as the process
  lives another pass comes, also after one that raised;
* `WF_vars(Start)` - systemd restarts the process (`Restart=on-failure` in
  `src/exchange/deploy/futarchy-exchange.service:23`).

Crashes are bounded: "infinitely many crashes" is not an environment in which
anything is promised. "Nothing stays frozen" in the venues is stated as safety
(`OrdersFollowDecisions`, `LocksMatchPending`, `IntactAfterFailures`).

## 3. Runs

All runs check deadlock off: bounded behaviours stop, and a settled market has
no further action. Symmetry is over traders, outcomes or locks, which the
actions and the properties treat alike; the runs that check liveness
(`BatchRound`, `ExchangeMarkets`), and `Exchange`, use none.

| run | instance | distinct states | what it shows |
|---|---|---|---|
| `RiskEngine` | 2 accounts, 2 locks, amounts 1-2, payouts 0 and 3, log ceiling 3, keep 1, 6 transactions | 219 thousand | `FrozenIsSumOfLocks`, `LogExplainsBalances`, `ShownBalancesStay`, `OnlyMintsAndSettlementsMoveTheTotal` |
| `AmmMarket` | 2 traders, 2 outcomes, trades of up to 3 tokens, 4 trades, one doubling of `b` paid by anyone | 224 thousand | `CreditsConserved`, `PoolCoversEveryOutcome`, `IntactAfterFailures`, `ResolvePaysWhatWasTraded`, `SweepFollowsTheRecord` |
| `OrderBook` | 2 traders, prices 1 and 3 of 4, sizes 1-2, 4 orders | 535 thousand | `SetsAreBacked`, `RestingOrdersAreSound`, `PriceTimePriority`, `LimitsHonoured`, `ImplementsCompleteSets` |
| `JointVenue` | 2 traders, a chain of 5 binary variables, 3 bets, 2 orders, 3 variables decided, width budget 2, a treasury with less than one winner is due | 12 thousand | `OrdersFollowDecisions`, `SettlementIsExact`, `BeliefsAreExact`, `TradesStayRepresented` |
| `Journal` | 2 markets of the joint, 1 outside it, 2 clients, 1 key, 3 commands, 1 restart | 205 thousand | `OutcomesAreRecordedOnce`, `AccountsFollowOrders`, `PriceDriftsOnlyByRefusal`, `JournalTellsAll`, `ReadsAgree`, `SettledStaysSettled` |
| `BatchRound` | 2 traders, 2 timed markets with 3 and 2 rounds, one funded by a trader, 3 orders, 1 crash | 93 thousand | `LocksMatchPending`, `EscrowIsCovered`, `PublishedRoundsAreSaved`, `HalvesAreExplained`, `DueRoundsClear` |
| `Exchange` | 2 GitHub users, 1 bot, 3 accounts, 3 keys, 2 logins, 1 market, 4 requests, 1 crash | 884 thousand | `AccountsAreOwnedOnce`, `AnsweredIsSaved` |
| `ExchangeMarkets` | 1 pull request, 1 user, 2 days, 2 markets, 1 login, 4 requests, 1 crash | 411 thousand | `RedeliveryIsHarmless`, `ExpiredMarketsEnd` |
| `AmmResolve`, `AmmOverride` | as `AmmMarket` (`AmmResolve` with richer traders) | violation | findings below |
| `TreeRestores` | as `JointVenue` | violation | finding below |
| `SharedLedger` | one AMM trade, two book orders | violation | finding below |

Each run also checks its module's `TypeOK`, which carries real content in places:
no lock, position or remaining size is ever negative, a flat exposure is not kept.
Some properties are conjunctions whose parts are named in the module:
`LogExplainsBalances` is the activity page against the balances, the minted
total across compactions and the pages a reader gets by cursor;
`IntactAfterFailures` the deposits, no position without its lock, and the netting
of profit and loss; `RestingOrdersAreSound` covered orders and an uncrossed book;
`OrdersFollowDecisions` stakes and fates; `SettlementIsExact` the walk that never
aborts, payment by score and the portfolio view; `EscrowIsCovered` the tolerance of
`_assert_escrow`, what a refund needs, and that no balance is ever negative.

Why the bounds are enough for the questions asked:

* `RiskEngine`: six transactions with a ceiling of three compact a log whose first
  entry is already a checkpoint, with both accounts in it and an account whose
  only entry is kept. Two locks per account allow every aliasing of
  `transfer_frozen` (same account, same lock, existing and new target).
* `AmmMarket`: four trades let one trader hold both outcomes, sell in parts, make a
  loss and then a profit (netting). Between them two opposed traders, of whom one has
  sold at a loss, ask for all of the AMM's lock or for more than it has, so that the
  abort paths of `sell` and `add_liquidity` are reached; one trader alone does not.
* `OrderBook`: one incoming order meets up to three resting ones at two price
  levels, with partial fills; four orders mint, transfer and redeem. Prices 1
  and 3 of 4 give price improvement and mirrored complementary prices.
* `JointVenue`: on a chain of five, of which one link is deterministic, the three
  bets close cycles: one is covered by a fill edge, two exceed the width budget
  together, two restructure the tree one after the other. An order waits on up to
  two variables besides its own; payouts are fractions of a quantum, so stake and
  payout round differently. Two orders are enough for a winner to be settled
  before the loser that would have funded it, which the precheck has to exclude.
* `Journal`: three commands are an edit, what overtakes it and its retry; the
  levels include every price at which a rounding or a logarithm changes the
  outcome, and the risk limit is reached by one edit.
* `BatchRound`: three orders let two opposed ones exceed their budgets after all
  repricings (a clearing that stops half way), replace one of them, and put one
  that cannot be quoted into the other market. Three rounds follow a torn one.
* `Exchange`: two users race with two logins on one state or device, a third key
  goes to a bot, and an answer is cut off and followed by another login; four
  requests are an account, its mint, a login and the next. Webhooks and deadlines need
  days and markets, not keys, and have a run of their own: in `ExchangeMarkets` a webhook
  arrives twice, on the day after, or after a settlement; the markets are those of the
  pull request, of one creator and of an admin, on the AMM and on the book, opened again
  or opened with a deadline gone by. In both a crash fits between any two steps, between
  a deadline and the pass of the loop for instance.

Findings (each a run of its own, quoted in `PROJECT.json`):

* `AmmResolve` - a sell whose profit is larger than what is left of the AMM's
  position lock raises after the trader's margin was released; it takes two opposed
  traders, one of whom has sold at a loss. The position stays without its lock, and
  `resolve`, which counts positions to find the AMM's remainder but pays traders from
  locks, then destroys credits although its comment promises conservation. The properties that need an intact market
  restrict themselves to `Sound` (no handler failed half way, no override);
  `IntactAfterFailures` holds without it, and of `SweepFollowsTheRecord` what it says of a
  void does not need that nothing failed.
* `AmmOverride` - reopening a settled market that had no trades leaves it without
  subsidy, against the docstring's "no settlement reversal needed".
* `TreeRestores` - a trade whose scope a fill edge happens to cover is recorded
  without a rebuild; the saved structure is then not what the recorded scopes
  build, the maker's `from_snapshot` raises, and the venue starts from the seeds and the
  resolutions: the traded prices are lost.
* `SharedLedger` - `resolve` of an AMM market sums every lock of its market number,
  those of the book market with the same number included, and pays the surplus to
  the AMM: credits are created.

Behaviours the passing properties spell out rather than forbid: `_sweep_amm` says it
returns "the AMM's remaining balance to the original funder", but it goes by metadata
that only one of three creation paths writes, so the remainder of a market that the
webhook or an admin opened stays on the AMM's account; and where a funder is recorded,
it gets also what other accounts paid by `admin_add_liquidity`, although a void says
"everyone gets back their deposit" (`SweepFollowsTheRecord`); conditioning on an
outcome without probability empties a belief table in place before it raises
(`factored_market.py:708`; `BeliefsAreExact` holds until a resolution was refused,
`SettledStaysSettled` names the case); the retry of an accepted edit is refused as
invalid once the price stands at certainty (`OutcomesAreRecordedOnce`); an edit
that moves a price from or to 0 or 1 raises after it took effect, and the
account's profit and loss raises from then on (`ReadsAgree`); an order whose
price cannot be quoted stops every clearing pass of its market, the one of start-up
included, so that the exchange does not come up again while that round is due
(`DueRoundsClear` excepts it). The same order keeps a pass from saving the rounds it
closed before it met it, and they stay unsaved when the order is gone: a payout
of its market that stops half way drops its pending orders in memory and saves
nothing. `PublishedRoundsAreSaved` excepts both (`Obstructed`): while neither is the
case, each round closed in memory, and the price it posted, is what a restart
comes up with.

## 4. Proofs

All theorems are of the form `Spec => ...` for every value of the constants that
satisfies the module's assumptions: any number of accounts, traders, outcomes,
orders, keys, commands, restarts and crashes, not the instance of the run. The
theorems `TypeCorrect` state `TypeOK` of `RiskEngine`, `AmmMarket`, `OrderBook`,
`BatchRound`, `Journal` and `Exchange`; the others are:

| module | theorem | the run's property |
|---|---|---|
| `RiskEngineProofs` | `FrozenIsSum` | `FrozenIsSumOfLocks` |
| | `LogExplains` | `LogExplainsBalances` |
| | `ShownStay` | `ShownBalancesStay` (an action property) |
| | `CreditsMoveOnlySo` | `OnlyMintsAndSettlementsMoveTheTotal` |
| `AmmMarketProofs` | `Conserved` | `CreditsConserved` |
| | `PoolSuffices` | `PoolCoversEveryOutcome` |
| | `DepositsKept` | `IntactAfterFailures` |
| | `TradersPaid` | `ResolvePaysWhatWasTraded` |
| | `RecordDecides` | `SweepFollowsTheRecord` |
| `OrderBookProofs` | `SetsBacked` | `SetsAreBacked` |
| | `RestingSound` | `RestingOrdersAreSound` |
| | `PriorityKept` | `PriceTimePriority` |
| | `LimitsKept` | `LimitsHonoured` |
| | `IsAMarketInCompleteSets` | `ImplementsCompleteSets` (a refinement) |
| `BatchRoundProofs` | `LocksMatch` | `LocksMatchPending` |
| | `EscrowCovered` | `EscrowIsCovered` (its part `NobodyIsOverdrawn` is `NotOverdrawn`) |
| | `RoundsSaved` | `PublishedRoundsAreSaved` |
| | `HalvesExplained` | `HalvesAreExplained` (an action property) |
| `JointVenueProofs` | `OrdersFollow` | `OrdersFollowDecisions` |
| | `SettlementExact` | `SettlementIsExact` |
| | `TradesRepresented` | `TradesStayRepresented` |
| `JournalProofs` | `OutcomesRecordedOnce` | `OutcomesAreRecordedOnce` |
| | `AccountsFollow` | `AccountsFollowOrders` |
| | `DriftOnlyByRefusal` | `PriceDriftsOnlyByRefusal` |
| | `SettledStays` | `SettledStaysSettled` |
| | `JournalSuffices` | `JournalTellsAll` |
| | `RoutesAgree` | `ReadsAgree` |
| `ExchangeProofs` | `AnswersSurvive` | `AnsweredIsSaved` |
| | `AccountsStayOwnedOnce` | `AccountsAreOwnedOnce` |
| | `RetriesAreHarmless` | `RedeliveryIsHarmless` |

`LogAccounts` (risk engine), `MarketKept` (AMM and book), `SafeAlways` (batch venue),
`BooksKept` and `TreeKept` (joint venue) state the inductive invariants themselves.

**Sums and the ledger.** The community module's `SumFunction` is a fold defined by
a recursive `CHOOSE`. `LedgerProofs` first shows by minimal counterexample that a finite
set has one sum and it obeys the recursion (`SumUnfold`, `SumRemove`), then what a
change at one point does (`SumExcept`), that sums of naturals bound their terms
(`SumBounds`), what sums add up to (`SumAdd`, `SumTimes`, `SumCharge`,
`SumSupport`, `SumLonger`) and how they compare (`SumMonotone`), and the same
existence and uniqueness for any fold that takes the members of a finite set one
at a time (`FoldInto`); sums over the parts of a set (`SumByParts`,
`CardinalityByParts`) and the feeds of `Feeds`: what the `k`-th largest is, and that
pages whose cursors lead to one another read the feed whole (`ReadsAll`). Then it has one lemma for each mutation: it keeps `frozen = sum of locks`, and what it does to the number
of credits (`MintIsSound`, `FreezeIsSound`, `DecreaseIsSound`, `SettleIsSound`,
`TransferAvailableIsSound`, `TransferFrozenIsSound`); and lemmas that say which
entries it moves by how much (`DecreaseLowers`, `FreezeLowers`, `ReleaseLowers`,
`TransferHandsOver`, `TransferHandsFrozen`). A handler of a venue is a composition
of mutations, and its proof a composition of these lemmas.

**Risk engine** (`IInv == TypeOK /\ FrozenIsSumOfLocks`). `FrozenIsSumOfLocks` is not
inductive alone: from a state whose locks are not numbers, sums say nothing. With
the ledger's type it is, and the typing of the log is carried along because a
compaction writes sums of its entries into the log. Compaction needs that the
enumeration of first entries exists and is sorted (`HasEnumeration`,
`AscendingIsSorted`), since the model picks it with `CHOOSE`.

What the log says of the balances is a second invariant, `Accounted`: the deltas of
each account sum to its balances, base and mints in the log to what was
minted, and the entries are `Stamped` - ids come from the counter, each once, and
those of an account ascend. `LogExplainsBalances` is not inductive without the ids:
the cursor compares them, and a compaction must not make two rows of one id. An
append adds to the sums what the method moved (`ExplainedStep`). A compaction is
described by `Stands`: each entry of the new log has one of the old log behind it, of the
same account and id and with the same running sums, in the same order
(`CompactionIs`); a checkpoint has the last entry that it sums up. From this the new log
is stamped, the sums are the old ones, and a row that was shown is shown again
(`Keeps`, from which `ShownStay` follows). The page lists an account's places from
the largest down (`NthLastIs`), those below a cursor are the rest of that list
(`NthLastBelow`), so a page adds the next rows to those that were read (`PageIs`), and
the walk over the pages ends with all of them (`PagesComplete`, for every page size).

**AMM market** (`AmmInv == Robust /\ Funded /\ (Sound => Exact)`). `Robust` holds also after
handlers that raised half way: a void returns each deposit (available and frozen
less the profit lock are the funds less what was paid for liquidity), an outcome not held has no lock, profit and
loss are netted, what traders hold is at most what was sold. `Funded` says where the
subsidy and the liquidity are as long as no status was overridden: while the market is
open, what the AMM has available, its lock and the traders' frozen profits add up to
what was put in (`Gathered`: a minted subsidy and all that anybody paid, also what an
aborted `add_liquidity` left on the AMM), and the funder has its funds less what it
paid. A void gathers the AMM's part, and the sweep hands it to a recorded funder or
leaves it where it is. `Exact` holds while
every handler ran to its end, and is the bookkeeping that the other properties
follow from: `netPaid` is what the locks say was spent (frozen less twice the
profit), and `Backed`: the pool without the frozen profits is at least
`Cost(b, q) - One * shift`, where `shift` is by how much added liquidity has moved
every `q` beyond what traders hold. The pool's surplus over the cost is what
rounding left; it is never negative because a buy and a sell are both a
`TradeStep` that pays at least the difference of the costs. Neither part of
`Backed` is inductive without the other: doubling `b` doubles `q` but no position.
`resolve` and `void` clear every lock and pay out exactly the pool, for any order
of the locks.

**Book** (`MarketInv`). Each order's lock is its remaining price times size, each
reservation the remaining asks, the escrow's lock `One` for each set; no two live
orders cross. The matching loop of `place_order` is a fold over the book: a round
invariant (`Custody` for money, shares and sets, `Progressed` and `InTurn` for the
queue, `WithinLimits` for what each trader paid) holds for the desk after each
round, since a fill is one of three trades - transfer, mint, redeem - each with a
lemma of its own. That the loop ends with nothing that crosses is `Ending`.
`Resolve` and `Void` are two folds, unlocking and paying. The refinement maps
wealth to available money plus what is frozen for orders; each action is a step of
`CompleteSets` or a stutter, because the sum of wealth is the credits that the
escrow does not hold.

**Batch venue** (`Safe`). Of the books in memory and of those on disk, `Sound` says
the same: the ledger's locks are sound, no balance is negative, and of each market
that every pending order has its lock and nobody else has one (`Pledged`), that
before a payout the escrow has the subsidy and every credit spent (`Backed`), and,
while nothing was left half done, that it is short of `total_no_shares + C(q)` by at
most a quantum per fill and that shares net to `q` (`Rounded`). It must hold on
disk because a crash falls back to it, and it must say something of markets not yet
created (`Untouched`) because `create_market` opens them with what they hold.
`HalvesStay` and `Published` relate the two copies: what was stopped half way on
disk is so in memory, and, unless obstructed, rounds and prices agree.

Clearing is the heart of it. The cost lies above its tangents (`Tangent`), so it is
convex (`CostConvex`), and a share is cheaper when the round moves the price less
(`CheaperWithFewer`); hence, where all orders buy one side, clipping a size that
exceeds its budget never makes another exceed its own, one repricing settles the
round (`OneSideSettles`), and no fill is refused (`OneSidedDealFits`). For any round
`DealIsFair` bounds the spends: each is the price of its fill rounded down, so
together they are at most what the escrow must have more - the difference of the
costs and `Unit` for each no share - and short of it by at most a quantum per fill. The fills are a fold over the queue whose k-th step has a closed
form (`FilledTo`, `FillOne`), so a clearing that stops after k fills - the round left
half filled - is described like one that ends. `CloseRoundOK` composes this into the
three outcomes of `close_round`, and `PassIsOK` composes those into a pass over all
markets, again a fold. The walks of `resolve` and `void` pay the holders in any
order until one is refused (`PaidTo`); `CoveredIsPaid` says how far they get,
`ShortIsRounding` that a `resolve` that stops was short by rounding, and
`VoidIsCovered` that a `void` before any payout never stops. The action property
`HalvesAreExplained` is read off these lemmas, step by step.

**Joint venue** (`BookInv == Books(ledger, orders) /\ OrdersOK /\ ~ aborted`). `OrdersOK`
says of each order that its status, the variables it waits for and the side it
won are those that the decisions give it; `Books` that its stake is in its lock
while it is live and that a trader's balance, with what is frozen, is its funds
plus the payouts of its settled orders, all paid by the treasury. The walk of `resolve_variable` goes on because of two facts: a losing payout
is at most the stake, which was the loss rounded up at placement, and the precheck
summed the very payouts the walk makes, so each is covered when its turn
comes. The belief tables play no part: what the maker answers is any answer.

Its tree has an invariant of its own, `TreeOK(fm)`: the clusters are `Ordered` (every
variable is eliminated in one, and a cluster's separator lies within its
parent, which comes later), they fit the width budget, and each family of the network and each
traded scope lies within one cluster. That the triangulation makes such clusters
is the invariant `Eliminating` of its rounds: each scope, and what each cluster
leaves behind, is still a clique of the variables not yet eliminated, or some cluster
took it over, the first later cluster to eliminate one of its variables; when no
variable is left all are taken over (`TriangulatedOK`), and `Rooted` links a cluster
to the one that took it over (`ClustersOK`). Messages, conditioning and replays change
tables only (`Kept`), so what is left are the steps that build a tree: a trade whose
scope no cluster covers, and a restart, which builds from the scopes on file. A structure
the budget refuses leaves the old tree in place.

**Backend server** (`JournalInv`, a conjunction of seven invariants that cite one
another). `LogInv`: events, keys and commands grow together, an outcome has one event
and a key at most one outcome. `MakerInv`: types of the maker's rows, the joint is
what its file says once there is one, and until a restart a market at certainty is
a resolved one. `RiskInv`: the capital left is the limit less the charges, and an
account is beyond its limit, or a charge negative, only after an edit that the
solvency check does not look at (under a context, or from or to certainty).
`PositionsAgree`: a position is the sum of the deltas of the orders behind it. Then
`KnownRequests` and `PriceDriftsOnlyByRefusal`. The handler that raises after it stored
its command (`Torn`) is a case of its own in each.

`JournalTellsAll` rests on these. Its two halves are `MarketsTold` and `AccountsTold`: moves that
lead from one value to another, each beginning where those before it ended. An event's
command is larger than those of all events before it, in whatever market they are
(`MovesAreEarlier`), so an event adds a last move (`LeadsOn`, `MovesAdded`) and it is
enough that what an event tells is what its step did: `EditTold`, `ResolutionTold`,
`CreatedTold`, and `UnmovedTold` for all that move nothing. A step that moves a
price or an account and tells no event is one that tears its command, and a torn command
stays torn until a restart (`TornStays`), which forgets prices, journal and accounts
together (`RestartTold`). The joint reprices no market outside it; the one move
of `minAsset` on another account, a release at a resolution, is among the effects of
that resolution's event.

`ReadsAgree` has an invariant of its own beside `JournalInv`, `ReadsInv`, of the joins
the routes make. `OrdersTrace`: an order is of one command, which tells its market, its
account and its kind, and is without an outcome exactly if it is an edit whose score
is not defined, so the orders outside every market's activity are those of torn edits.
`EditsCharged`: until a market resolves, what a risk slice consumed is the sum of the
impacts of the edits behind it. `ResolvedBy`: a market is resolved exactly if a
resolution was accepted, and its price is the certainty that each of them left.
`ParentsExist`, and `SeriesKept`: the last point of a price series stands for the command that
left the market at its price. From these each part follows by sums over parts: a
market's activity by trader, the orders of the platform by market, the trades of a
position. The pages of events and comments are numbered by place (`NumberedPages`),
those of trades by the member last shown (`MemberPages`), and both are read whole by
`ReadsAll`, for every page size.

**Exchange.** `Agreement` adds to `AnsweredIsSaved` why it stays true. `Newest`: the
identity on disk is told to its owner, on its way, or was cut off, and no other that is
told or on its way is newer or names another account (`Known`), so the answer that
counts is never the older one. The owners in memory are those on disk. The joint section is what was traded, either in memory or, while that venue is not
running, as the section read at start-up. What a failed request put into memory
concerns nobody who was answered. `BothOwned` says of memory and of disk
that keys, owners and accounts match, that a user's account has one welcome beyond what
was `granted`, and that an account without an owner has nothing beyond it, so a crash
falls back on a state with the same property; `StatesAreSpent`, the other half of
`AccountsAreOwnedOnce`, that a state which is still issued has begun no login.
`RedeliveryIsHarmless` is inductive together with `Agreement`, by which a restart reads
every market back.

**Assumptions.** They are the `ASSUME`s of the modules, which TLC evaluates in every
run. Finite sets of parties, positive quanta and natural bounds aside:

* amounts and sizes are positive, prices lie strictly between 0 and `One`:
  the handlers refuse others (`RiskEngineAssumption`, `OrderBookAssumption`);
  `One` is even because `void` pays half a credit for a share;
* `BatchRoundAssumption`: markets are numbered from 1, "nobody" is not a trader,
  the spread, `net_cap` and budgets are positive (`submit_order` refuses others).
  The cost function is defined in the module, so its convexity is proved and not
  assumed; the logistic one of the code differs in its formula, not in what the
  proofs cite (`Tangent`, `CostBounds`, `C(q) - C(-q) = q`);
* `NetworkAssumption`: the variables are listed without repetition, in the order of
  their ids, and a complete table has a row for each assignment of its parents;
* `JointVenueAssumption`: the markers for "undecided" and "void" are not outcomes,
  and of an edit's two probabilities, which add up to 1, one is of order 1;
* `JournalAssumption`: the risk that an edit between prices inside (0, 1) adds is
  not negative, as a Kullback-Leibler divergence is (Gibbs' inequality), and the
  parents in a seed market's table are seed markets, since
  `_normalize_seed_conditional_rows` drops a row that names any other;
* `ExchangeAssumption`: "nobody" is none of the parties and identities, and pull
  requests, users and bots are told apart;
* `AmmMarketAssumption`: the market maker's account and the funder are not traders;
  `CostAssumption`: within the bounds, the cost is a natural number, covers
  `One * q[o]` for every outcome, grows with every token, and doubles when `b` and
  `q` double. The cost `b * ln(sum e^(q/b))` has these properties in the reals; the
  code's rounding of a price is modelled on top of it.

## 5. Limits

* Only model-checked, among the properties of passing runs:
  * `JointVenue`: `BeliefsAreExact` and the `TypeOK`, which types the tables too.
    That propagation computes marginals is an induction over the size of a tree
    of clusters, and that an entry's rank stays below `Never` is a bound of the
    instance, not of the code;
  * liveness: `DueRoundsClear`, `ExpiredMarketsEnd`.
* Liveness and `ENABLED` are out of the provers' reach, and so is induction over
  data for an operator given as a parameter; what is said of folds is proved
  through their defining equations instead.
* Left out of modelled parts: the batch venue's locks in `SharedLedger`; in
  `Exchange` the liquidity ramp, candles and leaderboard, and the category and
  metadata an admin may give a market, which are taken to name no pull request and no
  creator; in `Journal` the query
  cache, time buckets of the price history and the engine's diagnostics; in
  persistence the JSON encoding and the migrations of old formats. Threads of the
  backend: `run_server` serves one request at a time, only the tests start a
  threaded server.
* An admin's market on the book stays open after its deadline until somebody settles it:
  the expiry loop visits the AMM's markets only (`api.py:624`). `ExpiredMarketsEnd` is
  about AMM markets for that reason.
* `create_market` of the backend server accepts a liquidity of zero or less; every
  edit of such a market raises in its score. The model's markets have positive
  liquidity; what `ReadsAgree` says of profit and loss holds of the others too, whose
  edits are all torn.
* Not modelled at all: floating-point error of LMSR and of belief propagation;
  parsers and the formula schema; hashing of keys and wall-clock rate limits; the
  frontend, the command lines, the MCP server, the agents, the scripts and the
  deployment, which are clients or operations without state of the system.

## 6. Plan

The modules planned are written, and every safety property of `RiskEngine`,
`AmmMarket`, `OrderBook`, `BatchRound`, `Exchange`, `Journal` and `JournalReads` is proved, with
those of `JointVenue` that are not about the numbers in its tables. What is left is the
part of `JointVenue`'s `TypeOK` that is not about tables.
