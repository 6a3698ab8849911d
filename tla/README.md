# A TLA+ verification of three-system-trading

This directory models the parts of the repository that decide whether an order
is sent, where, how often and on what data, and what is left of it after a crash
or a lost message. The modules are written from the source under `src/`;
`PROJECT.json` names for every definition the lines it stands for. TLC checks the
models on small instances, and TLAPS proves every safety property that a passing
run checks, for every value of the constants.

## The system and its parts

| Part (source) | State it keeps | Operations | What is hard | Models |
|---|---|---|---|---|
| `CryptoPaperEngine` (engines/crypto_paper_engine.py) | cycle record per day and ledger in the StateStore; positions, equity and approvals only during a cycle | `run_daily_cycle`, `refresh_quotes`, `recover`, three loops, the `cycle` command | the cycle awaits threads and alerts while the quote loop fills orders and rewrites the ledger; crashes after 00:05; reruns | `CryptoPaperEngine`, `EngineLedger` |
| `RiskManager` (core/risk.py, core/execution_mode.py) | configuration file with `live_enabled`; in memory the latch `_live_killed` and the approved ids | `approve`, `_disable_live`, the LIVE gate | eighteen ordered rules with bypasses; a kill switch whose durable step and latch are two steps | `RiskPolicy`, `RiskManager` |
| `OrderManager` (crypto/order_manager.py) | all order records, one document | `submit`, `process_event`, `reconcile_many`, `monitor` | three documents that a crash leaves in disagreement; late events | `OrderLifecycle`, `OrderRegistry` |
| `PaperAdapter` (crypto/adapters/paper.py) | orders, balances, positions, one document; quotes and the event queue in memory | `submit_order`, `cancel_order`, `update_quote`, `stream` | effects in memory before one save | `OrderLifecycle` |
| `StateStore` (core/state.py) | SQLite key-value | `get`, `set`, `transaction` | atomic, crash between two calls | inside `OrderLifecycle`, `ExchangeSubmission` |
| `VenueHealth` (crypto/health.py) | state and the times of the last signals | observations, `check`, `quarantine`, `manual_rearm`, `force_failed` | timeouts, forced checks, escalation | `VenueHealth` |
| `ExecutionRouter` (crypto/router.py) | dirty symbols, pending migrations | `route`, `failover`, `reconcile_and_migrate` | awaits between reading and changing the health state | `route` in `CryptoPaperEngine` |
| `OpsMonitor`, journal (ops/) | last positions and health states, cooldowns | alert handlers | read, await, write | `EngineLedger` |
| `CoinbaseAdapter`, `KrakenAdapter` (crypto/adapters/) | submission records, nonce, the lock of private requests | `submit_order`, `_find_by_client_id`, `get_order_history` | requests that time out, arrive late or never; retries; nonces in order | `ExchangeSubmission` |
| `IBKRAdapter` (adapters/ibkr.py) | submission records | submit, fallback, stops, verification | crash between placing and recording; cancellation racing a fill | `IbkrSubmission` |
| Recorder, feeds, store, quality (data/) | Parquet rows, marker file; order books and a row queue in memory | backfill, hourly poll, `record`, `_sample`, `_buffer_writer`, daily report | slow and failing polls, candles that still form, reconnections, a full queue | `BarRecorder`, `QuoteRecorder` |
| Futures chain (data/futures_chain.py) | roll calendar, continuous series, rolled position | `build_roll_calendar`, `panama_back_adjust`, `simulate_position_rolls` | weekends, holidays, month ends; sessions without a bar | `FuturesChain` |
| Capabilities, symbols, normalisation (crypto/) | token bucket, caches | waiting, rounding, look-ups | limits | not modelled |
| Sizing, strategies, backtests, fees, research | none, pure or offline | arithmetic on prices | numeric edges | not modelled |

The recorder writes candles and quotes to files; the engine reads them. In a
cycle it sizes a target per symbol, asks the RiskManager, lets the router choose
a venue by its health, and submits through the OrderManager to a PaperAdapter;
the adapters of the real exchanges and of IBKR stand behind the same contract.
Each service runs on one asyncio loop, so two calls interleave only at an await
that suspends; what can come between two durable writes is the death of the
process, after which systemd runs `recover` (or the backfill) and starts again.

What makes the parts correct:

- order path: an id is at one venue, with one quantity, once; an acknowledged
  order survives; final states are final; interrupted submissions are resolved;
- risk: a verdict is what the repository's table says, for every combination of
  rules; after the kill switch nothing but exits is approved LIVE;
- health: no recovery without evidence, a silent signal is noticed, a venue that
  is well again comes back;
- engine: no position the engine measures outgrows its cap or is reversed, every day
  gets its cycle and a finished day no second one; loss limits are measured
  from the last closes, and nothing in the ledger is lost to a concurrent write;
- exchanges and IBKR: an id is sent once whatever is retried, late or restarted;
  a refusal is final; the two orders of a fallback can never both trade;
- data: polls store only final candles, a clean report means what it says, a
  client's book is the exchange's, no row is lost in memory;
- futures: rolls are in time and in order, the series has no roll gap, and the
  position is in the contract the series shows.

## The modules

`OrderRegistry` is the abstract specification of the order path: per client id
at most one placement, then at most one final status. It has no process and no
crash.

`OrderLifecycle` is the detailed one: `managed` is `OrderManager._orders`
(always written through), `broker` is a PaperAdapter's memory, `saved` its
document, `events` its queue. One action ends at each durable write, because a
PaperAdapter call never suspends and only `Crash` can come between them.
`SubmitBegin`, `VenueAccepts`, `SubmitAcknowledged` are the three writes of
`OrderManager.submit`; `UpdateQuote`, `MatchFill`, `UpdateQuoteSaved` those of
`update_quote`; `ReconcileBegin`, `ReconcileOrder`, `ReconcileEnd` those of
`reconcile_many`. The refinement `placed <- SavedOrder` says that the saved books
of all venues together behave like one registry. Prices, fees and cash are left
out: which resting orders a quote trades through is any subset.

`RiskPolicy` holds the rules of `_approve_locked` as a table in the order of the
code, and next to it `Admissible`, what the documented table promises in no order.
Decimals are integers and fractions are multiplied out, so equality at a limit is
exact. A value the code rejects as missing or not finite is 0. `RiskManager` puts
a process around it: `ApproveTrips`, `RewriteDocument`, `Latch`, `JournalVeto`
are the steps of a call that trips the switch, with crashes between them, and
`EditDocument` and `TouchArmFile` are people.

`VenueHealth` counts ages in ticks up to the last value the policy tells apart.
`Check` is `check()`, with the interval or, when `Forced`, without.

`CryptoPaperEngine` composes them: `RiskVerdict` is RiskPolicy's `Verdict` over
`_portfolio`, `placed` holds what `OrderLifecycle` leaves of the orders when it
implements the registry, and `Routable` are the venues that may be the first healthy
one. Orders go to either venue, but the snapshot reads the positions at Coinbase
only, as `self.paper_adapters["coinbase"]` does. No order is cancelled: it rests
until the quote loop fills it, over midnight if need be. `overlooked` is a history
variable: the instruments whose position was read while an order of them rested at
Coinbase, from when on the code sizes by a position that is about to change. A
command that runs the cycle may cross midnight. An action ends where the daily task
really suspends: fetching bars and quotes (`Wake` to `Snapshot`), an alert after a
veto (`Veto` to `Alerted`), recording (`Record` to `Complete`). There the quote loop
may `Fill`. The target of the strategy is an input, and prices are 1.

`EngineLedger` is the part of the same engine that `CryptoPaperEngine` leaves
out: `ledger` is the `EngineLedger` document, which the quote loop and the daily
cycle load, roll and save in turns. `work` holds what each of the two tasks is
doing: `fetching` and `reading` are the threads it awaits, `alerting` is
`OpsMonitor.position_changes` awaiting its transport, `deciding` the moment at
which the cycle's baselines go to the RiskManager. `Roll` is `_roll_ledger`,
`Record` the `refresh_quotes` or `_record_portfolio` that saves it, and
`Compared` the points `DailyLiveBacktestDiff` takes. Processes are `service` and
`command`, started in DRY_RUN or, from some point on, in PAPER, one after the other:
nothing at crypto_paper_engine.py:807 prevents a command beside a running service,
but the two would then have a RiskManager and adapters each over the same
documents, which neither this module nor `CryptoPaperEngine` describes.

`ExchangeSubmission` is what happens between `submit_order` of the Kraken and
the Coinbase adapter and the exchange. `wire` holds requests; a response may come
back, time out while the request still travels, or never come. A Kraken call
waits for `_private_lock`, draws its nonce in a StateStore transaction, looks for
its client id among the open and then the closed orders, and only then sends
AddOrder. The exchange refuses a nonce that is not above the last one, may answer any
request with another error, a look-up too, and may answer an AddOrder with an error
though it accepted it; Coinbase answers a known client id with the order it has.
`Auditor` calls `get_order_history`.

`IbkrSubmission` is the same for Interactive Brokers. `record` is the StateStore
document per id, `orders` every order that was sent, `call` the coroutines.
`Load`, `Find...`, `Place` and `Record` are `_submit_trade`, cut at its awaits;
`Failed`, `Reconnect` and `ReconnectFails` are `_restart_retry` and
`ensure_connected`. The Gateway is external: requests on the wire of a broken
connection arrive or are lost, and a Trade held across a reconnection is frozen.
A reconnection is one step, as calls that run during it see what calls that run
after a break see.

`BarRecorder` has three processes that share files: the recorder (`phase`, `job`,
`wake`), the quality report (`Report`, `vouched`) and the engine's cycle (`cycle`),
which no order binds. Time is in hours. Each fetch of a poll or backfill is a step,
may be answered late, fail, or take until a later hour. `Answers` is what an
exchange lists in any hour between the request (`asked`) and the parsing of the
answer, with the candle it is still forming; `Closed` is each feed's way of leaving
that one out, which at Coinbase goes by the time of parsing, `Parsed` the loop over
a page, and `Accept` is `valid_price` against the row before. A dataset is its set
of rows.

`QuoteRecorder` follows a WebSocket client of each kind: `market` is what the
exchange shows, `wire` the messages of the present connection, `local` the
client's book. `Sample`, `Put` and `Take`, `WriteEnd` are the minute sampler, the
bounded queue and `_buffer_writer`, cut at their awaits. `Break` replaces the
client as `_reconnecting` does, `Crash` loses all that is in memory.

`FuturesChain` has the roll rules as operators on day numbers (`ContractDates`,
`BusinessDaysBefore`, `ThirdWeekday`, `Schedule`), translated loop by loop, and a
state machine that feeds sessions to `panama_back_adjust` (`Continue`) and
`simulate_position_rolls` (`RollPosition`) side by side, each with whatever
contracts have a bar.

`BarRecorder` and `FuturesChain` prefix the usual names (`BRNext`, `FCSpec`), because
`DataProofs` extends them together with `QuoteRecorder`. `MCQuotesAndChain` runs the
two small parts of the package, `QuoteRecorder` and `FuturesChain`, in one run: in each
behaviour one of them moves and the other stays at rest.

## The runs

| Run | Question | Instance | Distinct states |
|---|---|---|---|
| `order_crash` | Do records, books and acknowledgements agree through crashes, is the registry implemented, is everything resolved in the end? | 2 ids, 2 venues, a buy and a larger sell, 2 crashes | 187 000 |
| `order_stream` | Are final records final when a bare OrderManager follows a breaking stream and restarts without recovery? | 2 ids (one MARKET), 1 venue, 2 crashes, 1 disconnection | 64 000 |
| `risk_live` | Does the kill switch hold, do the rules add up to the table? | 2 ids, 19 orders, 11 snapshots at the limits, 2 edits | 44 000 |
| `health_cadence` | Does the state follow the evidence, in time, with the forced checks of the engine? | 2 signals, 3 requests, thresholds of 45 and 90 s in 30 s ticks | 92 000 |
| `engine_rerun` | With a crash, a restart or a rerun, two venues and orders that rest over midnight: are ids, days and caps respected, is no position reversed, is each day recorded? | 2 instruments, 2 venues, 2 days, 1 crash | 220 000 |
| `engine_resting` | Is no position reversed, whatever rests? It is, when exits rest over midnight | 1 instrument, 1 venue, 3 days | to the violation |
| `ibkr_pair` | Is each order of a pair sent once, never both able to trade, and does every call come nearer to its end? | 2 callers of the same pair, 2 attempts, 1 crash, any number of broken connections | 508 000 |
| `exchange_retry` | Does an id get one order, is a refusal final, is the history complete? | two Kraken ids, or one with an auditor, or a Coinbase id; 2 payloads, nonces up to 6, clock at 1, 3 or 6, 1 crash | 1 128 000 |
| `recorder_bars` | Is nothing stored of an open interval, do polls store final candles, does a clean report mean complete, and up to date for the cycles after it? | 2 Coinbase and 1 Kraken series, days of 2 hours, 5 hours, 2 closes, 2 faults | 1 019 000 |
| `recorder_forming` | Is every stored candle final? A backfill's is not | the same, 6 hours | to the violation |
| `quotes_and_chain` | Do books follow the exchange, do rows keep their order and reach the disk? Are rolls in time and in order, is the series without gaps and the position with it? | 1 exchange of each kind, 3 prices, queue of 1, batch of 2, 2 minutes, 1 move, 1 fault; 6 futures, 2024 and 2025, calendars of 3 contracts from 4 months, holidays at the ends of months | 557 000 |
| `ledger_days` | Are baselines closes, is the ledger only added to, is each day one point, each position reported? | 2 equities, 2 positions, weeks of 2 days, 3 days, 3 processes | 374 000 |

`engine_resting` and `recorder_forming` are findings: the code and a text of the
repository disagree, see `PROJECT.json`. An exit that rests is neither cancelled nor
counted by the next day's cycle, which sells the position again, although "Exit must
reduce risk without reversing the position" (README.md:44). And Coinbase's parser
compares a candle with the time at which it parses (coinbase.py:298), so a candle
that was forming when the exchange answered is stored by a backfill when its interval
has ended since, although "Only a fully closed candle is valid data"
(coinbase.py:310). Every other run passes. A property whose name ends
in `Inv` or is `EngineSafe` joins a module's type invariant with the state
invariants that belong together; the comments at its parts say what each is about.

### Bounds, and why they are enough

- Two ids show everything about one id beside another; a third adds no new
  interaction, as no action reads more than one order but `update_quote`, which
  takes any subset. Two venues are what the engine has.
- Two crashes allow one during the recovery from another. `engine_rerun` has one
  crash and any number of reruns, for the order path's own crashes are in
  `order_crash`; in two days an order can rest over a midnight and beside the
  next day's.
- `risk_live` takes snapshots on both sides of every limit, and orders that open,
  shrink, reverse and are stale or mispriced.
- Ages stop at twice the threshold, beyond which the code tells nothing apart;
  request outcomes stop one tick after they leave the window.
- `ibkr_pair` needs two callers, a crash and two attempts for its races; drops
  need no bound, because each uses up attempts. Callers are interchangeable, so
  the run takes symmetric states together; it has no liveness property, for
  which that would be unsound. That calls end is stated by a measure instead,
  `CallsAdvance`, which every step of a call lowers.
- `exchange_retry`: six nonces are two full Kraken submissions of three requests,
  so a retry meets the late request of a first attempt; the clock stands still,
  jumps ahead, jumps to the last nonce there is, or goes back. Two adapters share no state,
  so Coinbase's id runs by itself. Payloads are symmetric.
- `recorder_bars`: a day of two hours still has both lengths of candle, five hours
  reach into a third day, so that a day can be missed between two stored ones; a page of
  three rows is shorter than the run, so an outage can outlast it. Two faults
  allow a slow poll and a failing one. The two closes are a jump that
  `valid_price` refuses when it goes up and accepts when it goes down.
- `quotes_and_chain`: a queue of one is full with one row, a batch of two can be
  half full; two minutes are two rows per client. One move makes two messages,
  between which a sample may fall. The years 2024 and 2025 contain a leap day and every
  weekday as a month end; all other futures share the convention of one of the six.
- `ledger_days`: three days of two-day weeks cross a day and a week boundary;
  three processes are a service, a command and a restart.
- Counters (days, hours, minutes, faults) stop, and the clock with them: those runs
  therefore do not check for deadlock. The order, risk, health and IBKR models
  that never stop are checked for it, `ibkr_pair` excepted, whose calls end.

### Fairness

- `OrderLifecycle`: a call that was begun goes on (weak), systemd restarts
  (`Restart=on-failure`, weak), the daily cycle comes back with its
  reconciliation (strong, because other calls may be in progress whenever it is
  due). The venue need not trade and no caller need submit.
- `VenueHealth`: time passes and the loop calls `check()` (weak). No signal need
  arrive; `Recovers` only speaks of executions in which all stay fresh.
- `CryptoPaperEngine`: sleeps end, awaits return, systemd restarts, time passes
  (weak). Crashes, fills and reruns are never required.
- `EngineLedger`: the two loops go on, threads and the alert transport (which has a
  timeout) return, systemd restarts the service (weak). No day need pass and no
  command be given; `PositionLearned` asks that the position stays.
- `QuoteRecorder`: tasks that can go on do so, a client gets its connection, the
  process is started again (weak). Nobody need sample and no minute pass. The run
  `quotes_and_chain` assumes this fairness; the chain needs none.

## What is proved

Every invariant and every action property of a passing run is the conclusion of a
theorem, for arbitrary constants under the named assumptions of the modules, which
TLC evaluates on every run. `PROJECT.json` lists the theorems. Where a theorem has a
hypothesis of its own, it is one of these:

| Hypothesis | Of | Meaning, and what is without it |
|---|---|---|
| `Engine` | `OrderLifecycleProofs` | recovers on start, sends no MARKET order, monitors no stream: the deployed engine. Without it an acknowledged MARKET order may be lost. |
| `Engine \/ OnlyVenue` | `FinalIsFinal` | or one venue, with MARKET orders and streams. Without recovery on start and with two venues, a resubmission may take an id to the second one. |
| `~Demotes` | `LedgerSafe` | the mode does not go back from PAPER to DRY_RUN; a deployment that does it leaves both kinds of points behind the start, a listed hazard. |

### The arguments

`OrderLifecycleProofs` proves `Spec => []EngineInv`. `OneVenue` and `QuantityAgrees`
are not inductive: that a retry may go elsewhere is harmless only because the id
cannot be at any venue by then. `EngineInv` adds `SameOrders` (memory and disk differ
at most by fills), `Tracked` (what a venue has is recorded as settled, or the call or
the recovery in progress will see to it), `Backed` and `CallInv`. From it follow
`TypeCorrect`, `SingleVenue`, `SingleQuantity` and `AcknowledgedIsDurable`. On top of
it `EngineImplementsRegistry` shows the refinement of `OrderRegistry`. With `OneVenue`
the entry of an id is that of the one venue that has it (`Shown`), so a step that
saves a venue's book is `Place` or `Finish` of the registry and every other step
leaves the entries alone. `RecordsTellTheTruth` and `UnknownIsUnseen` rest on a second
invariant, `RecordsKept`, and on `BooksOnlyGrow`: no step takes an order out of a saved
book or changes a final status.

`FinalInvariant` needs no hypothesis. A book's position is the sum of its filled
orders, in memory and on disk (`Adds`); the two agree on whatever has ended, but for
the quote that is being matched or in which the process died (`EndsAgree`); an event
that waits, and a final record, tell what the book says (`EventsTell`, `Recorded`).
`BooksAddUp` follows; `FinalIsFinal` needs in addition that no other venue has the id,
as reconciliation would otherwise record that one's status.

`RiskManagerProofs` proves `Spec => []KillInv` and from it `KillSwitchHolds`. The
strengthening is `TripRemembered`: a trip is remembered by the file until a person
overrules it, and in the process by the latch, by being between the two steps, or
by the `live_enabled` it was started with. `VerdictsAreTheTable` shows for all
integers that the first broken rule, with the bypasses for risk-reducing orders,
decides exactly what the table says. It rests on lemmas about `Min` of a set of
naturals, about what an approval does not break and what an admissible order does
not break, and on the equivalence of the code's three-way sign test with `Shrinks`.
`ExitsStayPossible` adds `WindowOpen`: in the process that latched the switch the gate
is nobody's reason to refuse an exit, whatever people do to the files.

`CryptoPaperEngineProofs` has two invariants and no hypothesis. `CycleIsOpen`: a
cycle in progress is that of the present date or, when the command runs over
midnight, of an earlier one, and that date is not completed, whatever process died
before; `DayIsClosed` follows. `BooksHold` says of every instrument that is
`Tracked` two things. `Book`: the position at Coinbase is within its cap and not
short, and at most one order of it rests there, which takes it to where it may be.
`Exact`: until the cycle in progress has treated the instrument, nothing of it rests
and the snapshot is the position. So `RiskVerdict`, which speaks of the snapshot,
bounds the next order, and a second run of a date finds the first run's orders
filled, or the instrument is tracked no longer. `EngineIsSafe` and
`NothingIsReversed` follow. Positions are sums over all orders; `PositionFilled` and
`TotalSame` say how a step changes such a sum, `PlacedKeepsBook` what a new order
does to a book.

`EngineLedgerProofs` is an argument about time. A round of the daily cycle carries
the present time, because the date does not change under it; a round of the quote loop
may carry an earlier one, but none from before its process started (`Working`). So a
close always comes last in the history (`History`), and a roll by an old reading
finds the day and the week where the last cycle left them (`Baselines`). `PaperRun`
adds, for processes that do not go back to DRY_RUN, that every point is older than any
reading that could start the PAPER run, from which `LedgerSafe` has that the diff
compares its points and no others.

`ExchangeSubmissionProofs` proves `SubmissionsKeep`, `OrderIsSentOnce`,
`RefusedIsAbsent` and `HistoryMissesNothing`. `OneOrderPerId` is not inductive, as
at Kraken nothing but the adapter's lookups prevents a second order. `Numbered` says
what the lock and the stored nonce give: Kraken's requests have different nonces,
and the awaited one has the highest, so its answer means that every earlier request
will be refused (`ListEndsRequests`). `LookupHolds` says per id that at most one
request may still become an order and only while there is none, and what a call may
conclude: between the open and the closed list, that no order is open and none on
its way; after both, that there is none; once AddOrder was answered with an error,
that nothing is on its way any more, though an order may be there. `Fitting` ties
payloads of calls, requests and orders to the record. `Audited` is the same argument
for `get_order_history`. The proof never uses that callers are few or that the clock
advances.

`IbkrSubmissionProofs` proves `Spec => []SubmissionInv`. `OneOrderPerId` and
`FallbackExclusive` are not inductive: that an order may be placed depends on what a
call saw before its last await, and that a MARKET order may depends on a Trade
that may be out of date. `Sound` says what such a memory is worth: a call that
missed a number on record finds the order at the Gateway, a call that takes its
order for cancelled is right, and no call is on the market leg before the limit
order is over. `SeveredLemma` is the fact the connection contributes: breaking it
brings no lost order back and undoes no end of an order. `PairIsIdempotent`,
`PairIsExclusive`, `RecordedIsFinal` and `SubmissionTypeCorrect` follow.
`CallsComeToAnEnd` proves the measure `CallsAdvance`: `Onward` lists what any step,
of whichever actor, can make of a call, and each of its cases lowers what remains,
the market leg because only a call on the limit leg can fall back (`OnLimitLeg`).

`VenueHealthProofs` proves the type invariant, which is inductive, and
`HealthyOnEvidence`: no step makes a venue HEALTHY unless every signal is fresh.

`DataProofs` is about the package `data/`, three modules without common state.

- `QuoteRecorder`: `RowsInvariant` and `BooksInvariant`. For the first, `RowsKept` adds
  to `RowsInv` what the row in a client's hand must be; the queue's conservation is
  associativity of the four stretches a row passes through (`RowPut`, `RowTaken`). For
  the second, `BookFollows` speaks of the moment at which nothing is on its way, so the
  invariant needed is about the messages: `Leads` says that they lead, side by side of
  the book, from what the client knows to what the exchange shows. Each of the last
  message's levels is the present side, and each message removes what the message
  before it (or the client) has and it has not. That a new connection starts from an
  empty book is where the code's new client per connection is needed.
- `FuturesChain`: `CalendarIsRight` holds for every lengths of months and every set of
  holidays that leaves no week without a business day. `Back` says what the loop of
  `_business_days_before` returns: a business day, from which `count` business days
  lie before the anchor. Anchors of different months have a business day between them
  (`AnchorsApart`, by `MonthsApart` and `TwoWeeks`), and equal counts back from such
  days are such days (`BackApart`), so contracts roll in order. `SeriesInvariant` adds
  to the calendar that the last price of
  the series is the last bar of its contract, from which a roll can be measured;
  `NoGapAtRolls` and `ExposureIsKept` follow.
- `BarRecorder`: `RecInvariant` says that every stored row is that of an interval
  which is over. That is a fact about every feed, about the loop along a page
  (`KeptAreClosed`) and about all fetches, late ones too (`FetchedAreTaken`).
  `RecTypeCorrect` follows. `PolledAreFinal` needs one thing more: an answer is never
  older than its poll, and a poll takes only buckets that were over when it began, so
  what it takes was over when the exchange answered. `CleanIsComplete` counts hours:
  a report that is clean has no interval between the first and the last stored one
  missing, and the last is not older than the one before the present. `CycleHeedsReport`
  adds `Vouched`: the day before a clean report is a day that all of Coinbase's symbols
  have, and it stays in the files, so that any later cycle finds it.

### What is out of reach

- Liveness: `SubmissionResolved`, `FillLearned`, `StaleNoticed`, `Recovers`,
  `DailyCycle`, `PositionLearned` and `RowsReachDisk` are about fair executions, whose
  ENABLED the prover does not treat. They are only model-checked.
- Theorems with an operator as a parameter. Functions defined by recursion, and folds
  where they occur in the models (`MapThenSumSet`, `FoldLeft`, `FlattenSeq`), are
  therefore replaced by the function they stand for, stated by a predicate (`Sums`,
  `IsBack`, `Keeps`, `Flattens`), and induction is on a set of numbers: of the numbers
  for which a claim fails, one would be the least (`Least`, `CountUp`). A `SelectSeq` is
  opaque; where one was natural, the model has a set.

## Behaviours that are in the models and have no run

They are what the code does, and no text in the repository speaks against them, or
they are plain from the code; the hazards in `PROJECT.json` give their lines.

- A MARKET order that the paper venue refuses for want of a quote is
  acknowledged when it is retried, and a crash then loses it (`MarketIds`
  non-empty in `OrderLifecycle`). The engine sends LIMIT orders only.
- `force_failed` takes a venue out of QUARANTINED (`VenueHealth`).
- Two checks may judge the same observation and fail a venue at once, as the engine
  forces its checks (crypto_paper_engine.py:268) both in the cycle and in the quote
  loop, although health.py:120-121 says that a subsequent 30-second check does. The
  forced checks are in `health_cadence`; that escalation takes an interval is no
  property of the deployed engine, and none is stated.
- A process that dies after 00:05 does not run the day's cycle (`DailyCycle` is
  about days the engine sleeps into).
- A stop at IBKR carries another reference than the look-up compares (`Stops`
  non-empty in `IbkrSubmission`).
- A partly filled and cancelled limit order is followed by a market order over the
  whole quantity (`IbkrSubmission`).
- Positions at the second venue are in no snapshot, and the allocation is read once
  per cycle: `CapHolds` bounds an instrument's position at Coinbase, not the sum over
  both venues, nor the sum over instruments by the strategy's cap.
- The cycle of 00:05 comes before the report of its day, and before the end of a slow
  poll: of what it reads, `CycleAfterReport` says only what an earlier report does.
- The rewrite of the kill switch may raise or be cut off, which leaves neither file nor
  latch (`RewriteFails`, `Crash` in `RiskManager`); `KillHolds` speaks of the time after
  one that succeeded.
- `monitor()` reconciles with one venue and marks the other's orders UNKNOWN
  (`Monitored` non-empty in `OrderLifecycle` with two venues). Only a test runs it.
- An error that answers a look-up ends `submit_order` with neither acknowledgement nor
  refusal, whether or not there is an order (`LookupFailed` in `ExchangeSubmission`).
- A mode that goes back from PAPER to DRY_RUN leaves points of both after
  `paper_started_at` (`Demotes = TRUE` in `EngineLedger`).
- `valid_price` refuses every price of a page after a real jump (`BarRecorder`).
- A timed-out Coinbase POST may arrive after its retry was answered REJECTED.

## What is not modelled, and why

- `failover` and `reconcile_and_migrate` of the router: only tests call them.
- `MakerFirstPolicy.plan`, sizing, prices, fees, cash, rounding: arithmetic that
  decides whether and for how much an order trades, which the models leave open.
- `TokenBucket` and the capability tables: a delay, and constants.
- Balances, positions, signing, user streams and `cancel_order` of the exchange
  adapters: requests without a durable protocol of their own.
- Funding rows and the disk monitor of the recorder; columns, partitions and the
  Parquet files themselves.
- Contract qualification, account values, ATR prices and the stop verification
  report of the IBKR adapter.
- The wiring of `build_engine`, the return the daily diff computes, and the
  rendering of alerts. `health_transition` of the monitor has the shape of
  `position_changes`, which is modelled.
- SQLite, systemd, HTTP, asyncio and the exchanges: external, used by their
  promises.
- Strategies, backtest engines and research scripts: sequential and offline.
- DRY_RUN never submits. LIVE crypto: the engine refuses it in its
  configuration; the RiskManager's LIVE mode is modelled.

## Plan

1. Proofs where a hypothesis above can be weakened: the registry for a bare manager
   with one venue. A model of the cycle command beside the running service.
2. `VenueFailover` over `VenueHealth`, once something calls it: the check that takes
   a venue out of FAILED during the awaited submissions.
3. The stop verification report of the IBKR adapter.
4. Sizing bounds and next-bar fills as operators against references.
