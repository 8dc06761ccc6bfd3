# A TLA+ model of kabu_maker_taker

The program trades Japanese equities through the REST and websocket interface of
kabu station. One *worker* process per symbol reads boards, decides on entries
(maker or taker), owes every open position an exit ("lollipop" take-profit, taker
escape), and flattens when something goes wrong. This directory holds TLA+ modules
translated from its source, TLC configurations that check them on small instances,
and proofs checked by TLAPS. Paths below are relative to `src/kabu_maker_taker/`.

## Inventory

| component | state it keeps | operations | interacts with | what is hard |
|---|---|---|---|---|
| Order ledger (`orders.py`) | orders, active ids, history of finished ids, broker ids, execution ids seen, id sequence | `add_intent`, `restore_order`, `mark_cancel_pending`, `apply_order_event`, `apply_fill_event` | strategy | reports late, twice, reordered; two accounts of the same fills (details and total); trimming |
| Exit workflow (`lollipop.py`) | phase, retries, forced flag, times, take-profit price | `on_entry_fill`, `on_scale_in_fill`, `on_exit_fill`, `tick`, `reschedule`, `reset_force_exit`, `force_exit_next_tick` | called by the strategy | exit owed but not sent; two exits for one position |
| Strategy (`combined.py`) | position, ledger, workflow, confirmation, risk, last results | `on_board`, `on_broker_order_event`, `on_broker_fill`, `request_cancel`, `release_deferred_force_exit`, restores | runtime drives it | state read before a REST call and used after it |
| Live runtime (`live_runtime.py`) | the loop itself, its local variables | `run_websocket_live`, `process_live_board`, cancel stages, `submit_to_live`, `poll_live`, `emergency_flatten`, reconnect | websocket, executor | every REST call may fail with its effect unknown; faults in the middle of a stage |
| Executor (`execution/executor.py`, `parsers.py`) | none of its own | `submit`, `cancel`, `poll_order_events`, snapshots | REST client, broker | old or partial answers |
| REST client (`execution/client.py`) | token, token buckets | requests with retries, exchange retry, selection of lots to close | broker | retry of what was already done, raw timeouts |
| Reconciliation (`reconciliation.py`, `broker.py`) | none | restore of ledger, position, workflow, daily PnL | at start and reconnect | what the snapshot leaves out |
| Risk (`risk.py`, `latency_tracker.py`) | loss streak, daily PnL, rate windows, circuits, requote budget | `can_enter`, `record_*` | strategy, runtime | order of updates and tests, resets |
| Account risk (`account_risk.py`) | one exposure file per worker | `write_exposure`, `evaluate_from_dir` | the other workers | check then act across processes, files that lag |
| Launcher (`launcher.py`) | child processes | preflight, workers, terminate | workers | kills workers that hold positions |
| Simulator, replay (`simulator.py`, `replay.py`) | simulated orders and queues | `on_trade`, `on_board`, submit, cancel | strategy | queue position, IOC remainders |
| Entry policy, signals, filters (`strategy.py`, `signals.py`, `filters.py`, `volatility.py`) | statistics of the market | scores and quotes | strategy | floating point; confirmation over ticks |
| Metrics, journal, telemetry | counters, files | appended to | nobody reads them to decide | - |
| Evolution, CLI, configuration | - | - | - | - |

What makes the core correct:

* *ledger* - every filled share is reported to the strategy exactly once; an order
  is found under its broker id; the open orders are the active ones; memory is
  bounded;
* *trading* - position and account differ by nothing but unpolled executions, and what
  an order that the start left alone executes; the exits at work never exceed the
  position; one entry at a time; no order this process sent works at the broker that
  its ledger takes for finished;
* *exit duty* - an open position always has an exit at work or on its way;
* *cleanup* - an emergency flatten ends, or is broken off and leaves a process that
  knows its orders; it only reports success when it is true;
* *entries* - no faster than the windows allow, confirmed by as many boards in a row as
  the policy asks for, and taken back when the feed had a gap;
* *limits* - a lost day, a losing streak or an open circuit holds entries back, and a
  losing position counts once;
* *account* - the workers together stay within the account's limits as far as they can
  see each other, and one that fails stops all;
* *requests* - a call that is tried again never makes two orders, and an exit names
  lots that exist;
* *dry run* - simulator, ledger and position tell one story.

`PROJECT.json` lists under "hazards" each place where these are at risk.

## Modules

* **OrderState** - one order and the pure functions the ledger applies to it.
  `AfterOrderEvent` and `AfterFillEvent` are the two event handlers without the
  bookkeeping. Prices are reduced to the tests the code makes on them: `priced`
  (`avg_fill_price > 0`) and `anchored` (`reference_price > 0`).
* **OrderLedger** - the whole ledger: `known` and `orders` are `_orders`, `active` is
  `_active_ids`, `finalIds` is `_final_ids`, `clientOf` is `_broker_to_client`,
  `nextSeq` is `_next_sequence`; `seen` in an order is `_order_fill_ids`. One action
  per operation. `Store` is what every event handler ends with: `_sync_active` and
  `_trim_final_history`. The environment is an arbitrary broker. `reported` and
  `restoredCum` are history variables. Two things are assumed of events: they do not
  give an order the broker id of another one, and "filled" is only said of an order
  whose whole quantity is claimed, as `order_snapshot` does. Restores come before
  all other operations, as reconciliation does them on a new ledger.
* **FillFeed** - one order at the broker and in the ledger: the execution details and
  the total that a poll merges. Responses may be old (`Poll`), and the broker goes on
  while their events are applied one by one, the details before the total
  (`ApplyDetail`, `ApplyTotal`; `place` is the place of the next detail).
  `DetailsMayLag` lets a total include executions that the details do not show yet.
* **Lollipop** - the exit workflow as functions on a record. The clock is abstract:
  `due` says that `submit_after_ns` has passed, `expired` that the hold time or the
  stop loss is exceeded. Whether the two price computations give an order follows
  from the position being positive, in lots.
* **LiveTrading** - the composition: broker, strategy (ledger orders through
  OrderState, exit workflow through Lollipop, position) and runtime. `pc` is the REST
  call `run_websocket_live` is about to make: `poll` reads the orders in `todo`, then
  goes on at `then`; `exitCancel`, `entryCancel`, `entry`, `exit`, `deferred` are the
  stages of `process_live_board`; `cancelAll`, `scan`, `scanCancel`, `verify`,
  `readPosition`, `flatten`, `lastPosition` are those of `emergency_flatten`. Between
  any two calls the broker executes lots, cancels, rejects, or lets a request without
  an answer arrive. Every call has the outcomes the executor tells apart, and a raw
  timeout, which `_request_json` does not convert. The places where `run_websocket_live`
  handles what went wrong are three: `fault`, a halt reason whose cleanup runs inside
  the `try` of line 316 (`guarded`); `caught`, an exception in the hands of line 378;
  and `again`, the same line reached from a guarded cleanup that a raw timeout has broken
  off (`BreakOff`). From the last two a process with exposure cleans up once more,
  unguarded, and one without reconnects (`Reconnect`) or gives up (`GiveUp`); only an
  unguarded cleanup ends the process by a raw timeout (`Crash`). A process may also be
  killed anywhere. `TakeOver` is what a start and a reconnect have in common: the
  position of the account, a new ledger, and open orders refused only if
  `StartSeesOrders`. What such an order may still do is in `stray`, what it has done
  since in `drift`.
* **Quoting** - the passive quote of `strategy.py`: reservation price, the price
  selected and aligned, its edge, the reasons to take it back. Prices are in ticks, fair
  values in half ticks, and the mirrored formulas of the two sides are one.
* **EntryPolicy** - the market state, the entry score, the maker's and the taker's
  decision, the choice between them, the confirmation tracker and the price jump filter.
  A board says which signals reach their thresholds in each direction.
* **RiskManager** - `risk.py` as functions on a record: windows, requote budget,
  circuits, loss streak, daily result, the gates of `can_enter` in their order (`CanEnter`
  with `AfterCoolingTest` for what the test itself changes) and `order_qty`.
* **EntryPath** - `on_board` from the board to the entry, over the two modules above:
  the branches for a working entry (`WorkingBoard`), an owed exit (`BusyBoard`), a jump,
  a refused account and a flat strategy (`FlatBoard`). Fills, ends of the entry and a
  restart may come between any two boards. `chosen`, `placed` and `requoted` are history.
* **TradeRisk** - what fills do to the loss streak and the daily result (`EntryFill`,
  `PartialExit`, `FullExit`), what answers of the API do to the circuits and the runtime
  (`Answer`, `Halt`), with the fills and answers of the cleanup, reconnects, restarts and
  a clock that passes midnight. A halted process is left by `Restart` with a new risk
  manager, or by `Reconnect` with the old one once nothing is exposed. `apiAt` and
  `slowAt` are history: when a circuit was last opened.
* **AccountRisk**, **Fleet** - the account gate as operators, and the launcher with its
  workers: `Enter` is the gate with the order that follows, `WriteExposure` what a broker
  event ends with, apart from `OrderEvent` only when the replace fails. `blind` is the
  history variable that says what a worker could not see when it checked.
* **Simulator**, **DryRun** - the fill model of `simulator.py`, and the loop of `app.py`
  and `replay.py` around it: `pc` is the stage of the loop. Ledger orders are those of
  OrderState, the exit workflow is Lollipop's.
* **Venue** - the abstract specification of a place that executes orders: an order is
  sent, executes up to its quantity, ends, and is told of; the end is told last.
  `Promise` is what its users rely on.
* **RestClient** - one call of `send_entry_order` or `send_exit_order`: reading the
  positions, choosing lots, posting, moving to TSE+, reading again after code 8. A book
  of positions is a sequence of lots; `ClosePositions` gives the quantity closed of each
  place that is used.
* **MCOrderLedger**, **MCFillFeed**, **MCLiveTrading**, **MCEntryPath**, **MCTradeRisk**,
  **MCFleet**, **MCRestClient** - the instances for TLC.
* **SumTheorems** - lemmas on naturals, finite sets and the community modules' sum of a
  function over a set.
* **OrderLedgerProofs** (with FillFeed), **LiveTradingProofs**, **EntryPathProofs** (with
  Quoting), **TradeRiskProofs**, **FleetProofs**, **RestClientProofs**, **DryRunProofs**
  (with Venue) - the theorems.

Which modules use which: LiveTrading and DryRun share OrderState and Lollipop; EntryPath
and TradeRisk share RiskManager; DryRun implements Venue. LiveTrading leaves to choice
what EntryPath decides (whether to enter, whether to cancel), and EntryPath what
LiveTrading decides (when the broker fills and ends an order).

An order event of a poll is applied as soon as the order is read, while the code
applies the events of all orders at its end: nothing reads them in between. A poll
that is cut short by a raw timeout loses what it has read, so the model has no step
for it in the middle of a poll: the step before, in which the loop fails at once, is
the same. The orders of a poll and of a cancel loop come in any order, since
`active()` iterates a set.

Definitions named in comments as *mutants* are variants of the operator after them,
each a plausible mistake. No specification uses them; every property was seen to
fail when its mutant takes the operator's place.

## Runs

| run | instance | result |
|---|---|---|
| `order_ledger` | 2 orders of up to 2 shares, 2 broker ids (symmetric), 1 execution id, history of 1 | 9 properties hold, 23,527 states |
| `fill_feed` | 1 order of 5 shares, details complete | 3 properties hold, 1,824 states |
| `lagging_details` | the same, details lag | `NeverAhead` fails |
| `live_trading` | 2 entry and 3 exit orders at a time, entries of up to 2 lots, 1 take-profit before the escape, starts that leave up to 1 lot of open orders alone | 7 properties hold, 1.1 million states |
| `force_exit` | the same, starts that see every order | `ForceExitOutstanding` fails |
| `dropped_tick` | as `force_exit` | `TickedOrderIsTracked` fails |
| `live_progress` | as `force_exit`, entries of 1 lot, fair | 2 liveness properties hold, 80,865 states |
| `entry_path` | six boards, delays of 1 and 3, clock to 9, a minute of 4 | 5 properties hold, 116,086 states |
| `trade_risk` | up to 3 lots, clock to 7, days of 4, loss limit and pause 2, daily limit 3, circuits after 2 errors or 2 slow answers | 4 properties hold, 1.1 million states |
| `fleet` | 2 workers, prices 1 and 2, account limits 2 and 1, 2 launches | 4 properties hold, 417,000 states |
| `dry_run` | entries of up to 3 lots, 2 take-profits before the escape, fair | 4 properties hold, 9,379 states |
| `rest_client` | 16 calls, 5 answers to a query of positions | 2 properties hold, 446 states |

Bounds. Two orders and a history of one make every trimming case happen: an order
forgotten, one reopened while it stands in the history, one final twice. Two shares
have an empty, a partial and a whole fill; one execution id is new, then a duplicate.
In LiveTrading slots of orders that ended on both sides are used again, so the number
of orders over time is unbounded; the instance has as many slots as ever are in use,
and TLC would stop on an order without a slot. Two lots allow an entry to fill in two
parts around an exit. With `MaxRetries = 1` both the take-profit and the escape are
reached. Entries only buy; the short side is symmetric in the code. A start waits
until no request of the last process is on its way to the broker, and a start that
leaves open orders alone does so up to `MaxStray` lots in all: one is enough to buy or
sell behind the ledger's back, during a cleanup and after it. `live_trading` has a view
(`MCView`): the statuses of open orders, which no action and no invariant tells apart,
count as one, and so does the exit workflow after a fault, which nothing reads before the
next ledger starts a new one.

In `entry_path` a minute is four units: with delays of 1 and 3 the windows fill, empty
and are met at their exact edge, and a delay of 3 is a gap while one of 1 is not. The
clock to 9 is two minutes, enough for a third entry to be refused and
allowed again and for the requote budget to run out and recover. The boards have both
directions, the taker's trigger, a jump, a refusal of every gate that depends on the
board, and sizes above and below `trade_qty`. In `trade_risk` the clock passes a day's
end with time to pause on both sides of it; three lots allow two partial exits before
the full one, and a scale-in after an exit that has lost; gains of 0, 1 and 3 with a cost
of 1 give a loss, nothing and a win; a daily loss of more than `MaxLoss` is not explored,
the gate having closed at 3; of the errors past the limit one is counted. Its view
(`MCTradeRisk`) drops times whose pause is over and what the next position or the next day
resets. In `fleet` one worker's
scaled order alone can exceed the limit, and the second launch restores positions. In
`dry_run` three lots fill in three parts, or in a part that is canceled. `rest_client`
needs no bound: a call ends after two orders.

`CHECK_DEADLOCK FALSE` is said where a behaviour really ends: in the ledger, the feed,
EntryPath and Fleet, whose ids, order, clock and launches are bounded, and in DryRun,
whose loop ends with a hard kill. LiveTrading, TradeRisk and RestClient have no deadlock.

Liveness. `FairSpec` assumes that boards keep coming and that not every one of them is
ignored, that the delay before a take-profit passes, that a broker asked about an order
again and again answers sometimes, and that the loop runs on; all of these are waits of
the code itself on the market, the clock or the network. Nothing is assumed of what the
broker does with an order. With entries of two lots `ExitComes` would fail for the
reason `force_exit` shows, which is why that run has one lot. `FaultEnds` has two ends,
as the code has: the process halts, or it trades on, which only a process without
exposure does. Timeouts that break cleanups off are not bounded and need no fairness: a
guarded cleanup is broken off once, and the next one is not guarded.

`FleetStops` assumes weak fairness of the launcher's own steps: `_run_workers` polls every
quarter of a second and waits with a timeout before it kills. Nothing is assumed of the
workers. `GetsOut` assumes that the dry run's loop goes on, that not every board is
ignored, that delays pass and hold times expire on some boards, and that again and again
the book is deep enough for an order: what a file of boards without an end would bring. It
needs no assumption on the market to fill a passive order, since the hold time turns every
exit into a market order.

Refinement. `ImplementsVenue` maps the simulator's book, the inbox and the ledger onto
Venue: an order is open from the moment it is tracked, over once it has left the book, and
free again when the ledger has finished it; what the inbox still holds is executed and not
told. So the strategy sees through all stages of the loop, the hard kill's included, what
Venue promises: told never exceeds executed, executed never the quantity, and the end
comes after the last execution.

## What the code does that its comments do not say

* **A stuck forced exit** (`force_exit`). Entry of two lots, one fills; the forced exit
  for it is sent; the other lot fills; the exit fills. `_handle_final_order_state` acts
  on canceled and rejected exits only, so `force_exit_requested` stays set with nothing
  at work, and `_handle_timeout` returns "none" for ever.
* **A dropped take-profit** (`dropped_tick`). `release_deferred_force_exit` ticks the
  workflow and uses the answer only if it is a forced exit. If meanwhile the position
  was closed and opened again, the answer is the take-profit: the workflow counts it as
  sent and no order exists. The position waits for the hold time or the stop loss.
* **Shares counted twice** (`lagging_details`). A total that comes before its details is
  booked without their ids, so the details are booked again when they come.
* **A gate that never closes** (`risk.py:134`). `can_enter` asks whether the board is
  stale after `on_board` has recorded its time, so the answer is always no; an entry may
  follow a gap at once, against `config.py:284`. Only the cancel half of the guard works,
  and `GapTakesQuoteBack` states that half.
* **A day forgotten** (`execution/executor.py:271`). The live snapshot has no daily
  result; reconciliation restores zero. `DailyLossStops` is true of one connection only.
* **A loss counted again** (`combined.py:648`). A scale-in clears the flag that a partial
  exit has set, so `LossCountedOnce` allows one loss more per scale-in.
* **Circuits behind a halt** (`risk.py:199`). The live runtime halts as soon as a circuit
  opens, and the next process starts with none. The cooling gates of `can_enter` matter
  in one case only: a raw timeout breaks the cleanup of that halt off once nothing is
  exposed, and line 378 reconnects with the same risk manager. `CircuitsHoldEntries` says
  that they hold then, too. An API success that the cleanup records before the timeout
  closes the API circuit, pause included (`record_api_success`).
* **A timeout in a cleanup** (`execution/client.py:369`, `live_runtime.py:378`). It is not
  converted to `KabuApiError`, and what follows depends on where the cleanup was called.
  In the cleanup of a halt reason it starts a second one, or without exposure the loop
  reconnects and trades on; in any other cleanup it ends the process. After a broken-off
  cleanup a refused reconnect reports "not_required" though lots may be left in the
  account. An entry executes two lots that a poll misses; the flatten order, for both,
  executes one and is read first, which makes the position one short; the entry, read
  next, is cut off at zero (`combined.py:659`); the strategy is flat and one lot is held.
  A reconnect that goes through finds the lot. `FlattenHonest` excepts this (`guarded`).
* **Orders the start does not see** (`execution/executor.py:261`, `:334`). With
  `startup_open_order_policy` "reject" a start refuses open orders of exchange 0 or
  `config.exchange`. The shipped configurations say 27 and margin orders go to 9, so an
  open margin order of the last process that the broker lists under 9 is not refused;
  under "ignore" none is. Such an order executes without a ledger: the position misses it
  (`MirrorExact` counts it as `drift`), and a cleanup that is skipped because the strategy
  is flat leaves what it bought. An emergency flatten does see it, and cancels it.
  `live_trading` explores such starts (`StartSeesOrders = FALSE`), the theorems hold for
  both, and `PositionExact` says what a start that sees every order gains.
* **What the account gate cannot see.** A peer's entry at work is in no file; a file that
  cannot be written or read counts as nothing; a restored position is written with the
  next broker event; the size tested is `trade_qty`, the size sent may be scaled up.
  `AccountLimit` says precisely what is left.
* **The rest of a hard kill's order** (`app.py:463`). The dry run flattens with one order;
  what the book does not fill stays as a position (`HaltFlattens`).

`ExitDuty` therefore excepts positions to which an entry fill has added since the last
exit order was made (`uncovered`).

## Proofs

Every theorem is for all values of the constants, under the assumptions its module
states about them. Those are naturals and, where the code compares them, bounds: the
clock of EntryPath starts at 1, so `MaxTime >= 1`; LiveTrading needs five order slots,
the most that are ever in use at once (`MaxOrders >= 5`); an order asks for at least one
share (`CallsAssumption`) and a lot of a position is a record of numbers
(`LotBooksAssumption`); `NoCum`, the total that is missing, is no number
(`NoCumAssumption`). TLC evaluates each of them on its runs.

Every safety invariant and every action property that a run checks is proved, and so is
the refinement. Each proof has one lemma per action, and under it a step per conjunct of
the invariant that the action can disturb.

**Sums.** The community modules define a sum over a set by a fold that takes a chosen
element. The lemma `SumUnfolds` proves that the fold's equation has a solution on every
finite set and that two solutions agree, each by the smallest counterexample
(`SmallestSubset`, from the well-foundedness of the naturals), which is how induction over
data is replaced throughout: no operator is a parameter of a lemma. `SumWithout`,
`SumWith`, `SumChanges`, `SumAtMost` follow and carry the proofs about positions and
limits.

**OrderLedger.** All nine properties of the `order_ledger` run. `LedgerInv`, the
conjunction of the invariants, is inductive. Its parts need
each other: names resolve only because a forgotten order leaves nothing behind and
because what the trim forgets is not active; the history covers the finished orders only
because exactly the active ones are open; a fill is counted once only because a finished
order is never counted up. The proof has a lemma for each pure operator
(`OrderEventEffect`, `FillEventEffect`, `RestoredEffect`, `HistoryEffect`), one for
`Store` (`StoreInv`), which both event handlers end with, and one per operation. The
action properties follow from the invariant and `StepMovesOrders`: what a step may make
of an order it keeps. `ReopenedHasShares` needs more of the event itself: an order
canceled with nothing filled is reopened by a late report, but only by one that brings
a share, which the strategy is told of in the same step.

**FillFeed.** Its three invariants, in the same module because they rest on the same
lemmas about an order. `Knows` says that the order has been told of the first n
executions and of no other: `seen` is `1 .. n` and `cum` their sum. `FeedInv` adds that n
is at least as far as the response has been applied. A detail is then seen, or is the
next execution and fits (`DetailKnown`); a total adds nothing to its details, and ends
the order only when n is all there is (`TotalKnown`). `FeedNeverAhead` and
`FeedFinalIsExact` assume `~DetailsMayLag`: the run `lagging_details` shows that they
fail without it. `FeedTypeCorrect` does not. All three number the executions from 1
(`FeedIds`), which `fill_feed` evaluates. FillFeed's names begin with Feed so that one
module can extend it and OrderLedger.

**LiveTrading.** All seven invariants of the `live_trading` run. They are not inductive;
`LiveInv` is, and its parts are what each of them needs:

* `BooksSound`, order by order: the ledger is never ahead of the broker, what it holds
  final has executed all it ever will, and an order has a broker id only once the broker
  has it. It gives `LiveOrdersTracked`, and with `Mirrored`, that account and position
  differ by the sum of what no poll has read and the drift, `MirrorExact`.
* `TradeSound`: at most one entry and one exit are active, whatever may still execute is
  active, and the exit at work closes the position, or less where `uncovered` says so
  (`Covered`, `ExitOwed`). `ExitsCovered`, `SingleEntry` and `ExitDuty` follow. It is
  stated while the process trades, up to the fault or the exception that ends that; then
  the cleanup takes over. What a broken-off one hands on (`again`) is `BooksSound`:
  whatever may still execute is active, so a process without exposure has nothing at
  work, and the new ledger and position of a reconnect lose nothing.
* `DeferredOwed`: at the stages that cancel an exit to replace it a forced exit is owed.
  Without it the cancel could be through with nothing to send.
* `ControlSound`: the plan of a board fits the stage. What is still to be sent is
  untouched and is the only active order without a broker id, which is what makes a
  missing id after that stage a fault.
* `Room`: slots are left for the orders still to come, the flatten order of a second
  cleanup included. It is about the model's bound only, and shows that five slots never
  run out, for any number of restarts.
* `CleanupKnows`: what `emergency_flatten` knows of the broker at each of its stages, as
  long as every order had a broker id: after the cancels nothing is in limbo, after the
  scan nothing works but the flatten order, no stray order is left either, and the
  position it read is what the flatten order leaves. `FlattenHonest` is the end of this
  chain.

`PositionExact` adds `NothingStray`: a start that sees every open order leaves none alone,
so the drift is 0, account and position differ by what no poll has read, and a cleanup is
skipped only with an empty account.

**EntryPath.** All five properties. `BoardKnown` (a working entry means that a board's
time is recorded) makes the stale test see every gap, and staleness passes every cancel
window: `GapsTakeQuotesBack`. `Tracked` says that the confirmation's count is at most the
length of the run of equal choices at the end of `chosen`, which is what
`EntriesAreConfirmed` needs; it holds through working entries and positions because
neither touches tracker or history. `EntryInv` carries the windows: each holds what is
young in its history and what it lacks is old (`Covers`), since a trim drops exactly a
prefix (`FromFirst`, by the first time that is young); so a full window bounds the last
minute (`EntryBound`, `RequoteBound`), and once the requote budget is used up its cooldown
is on or over. `QuoteIsPassive` is about one pure function: whatever the
signals say, a quote on a board that is not crossed stays off the opposite touch.

**TradeRisk.** All four properties of the run, and type correctness. `Base` types the
record of the risk manager and says of each circuit that has opened that the manager
still has its time, whatever answers and fills a cleanup records (`CircuitsKept`), or that
the pause is over; it gives `CircuitsRespected`.
`Charged` relates the flag of the counted loss to the history: a charge is taken only
while the flag is off, and the flag goes off again only with a scale-in or a new
position. `DayBooks` says that as long as the history is of today, the risk manager's
daily result is the history's, so the gate tests the right number. `Rested` says that
after `LossLimit` losses in a row the pause set by the last of them is in force, or the
streak still counts up to it: a full exit that does not update the streak is one whose
loss a partial exit has counted. `LossesAreFollowedByARest` follows.

**Fleet.** `FleetBounds` needs that a process which the launcher no longer watches has
ended, stage by stage. `Limits` says of the workers that saw all of their peers that what
they hold and buy, in lots and in notional, exceeds the limit at most by what scaling
adds to one order: the last of them to enter counted the file of every other, which then
said exactly what its worker held, and what the others hold has only shrunk since.
`AccountStaysInLimits` and `LossStopsEntries` are for any
number of workers.

**RestClient.** `OneOrderPerCall` rests on `Open`: while a call is going on nothing of it
has been accepted, because only a refusal with a code leads to another post.
`ExitsClose` rests on `TakenSoFar`: up to any place of the book the loop has taken all
that is closable or the quantity, by the smallest counterexample in the place; and on
`ExchangeFits`, that the exchange of a close is that of its lots in each of the three
ways to choose it. `Closing` states this of the next order too, since a retry may send
it moved to TSE+.

**DryRun.** Both invariants, that DryRun implements Venue, and what it has from that.
`DryInv` is one invariant of the loop:

* `StageOk` and `OrdersOk`: the plan goes with the stage; the order of a slot that is
  complete is final, and its executions are numbered by what they added up to.
* `InboxOk`: of an order at work the inbox holds one execution at most, after the
  acknowledgement and before the end, and the end names nothing that is not told.
* `BooksOk`: the simulator has what the ledger has but for what the inbox says, and what
  it no longer has the inbox will finish. With an empty inbox this is `BooksAgree`.
* `PositionOk` and `ForcedOk`: an exit asks for no more than the position, a forced one
  for exactly that, and a workflow that has asked for a forced exit has it on its way or
  waits for the end of the one it replaces. Without them a second exit could be made
  before the first is gone.
* `HaltOk`: after a hard kill the rest of the one market order is all that is left.

`RefinesVenue` is proved with the invariant: for each action there is one lemma, which
shows that the invariant is kept and that the step is a step of Venue (the send, the
execution, the end or the message it maps to) or changes nothing Venue sees.
`VenueKeepsPromise` is proved of Venue alone - told is at most executed, executed at most
the quantity, and all is told once an order is over - and `PromiseKept` carries it to the
dry run.

Model-checked only: the liveness properties `ExitComes`, `FaultEnds`, `FleetStops` and
`GetsOut`, since liveness under fairness and ENABLED are beyond this prover; and the
three violations, which are counterexamples.

## Not modelled

* The signals' arithmetic (`signals.py`, `volatility.py`): floating-point statistics over
  market data. Their thresholds are reached or not, by choice of the board.
* Latencies and token buckets of the client, the token and its refresh: an answer is slow
  or not, by choice.
* Prices of fills beyond the sign of a result; positions below a lot (a position that
  gives no exit order, `lollipop.py:216`); the margin trade type.
* Shadow mode, the preflight's checks and stamps (it passes or fails), the kill files
  but for their effect, the making of symbol configurations.
* Metrics, journal, telemetry: append-only, no decision reads them. Evolution: an offline
  search over replays. Parsing of arguments, JSON and files. The vendor's description of
  the interface.
* Restored orders with an active exit (`restore_active_exit`) are not composed with the
  runtime: the live snapshot names no open orders, whether it refuses them or leaves them
  alone. The ledger has them. `app.py:242-254` restores orders and a position from a file
  (`--broker-snapshot`) before a dry run; the simulator does not know those orders, so
  what DryRun says is of dry runs that start from nothing.
* In Fleet a preflight sees every open order of its symbol. The check is the one of
  `executor.py:261-270`, so under "ignore", or for orders listed under another exchange,
  the worker starts beside an order that is in no file; `AccountLimit` and `TypeOK` are
  not about such starts.

## What is left to do

1. ExitDuty as an abstract specification - owed, at work, discharged - that LiveTrading
   implements under a refinement mapping, and Venue implemented by LiveTrading's broker.
2. EntryPath composed with LiveTrading's broker, so that one run has both the decision
   and the call that carries it out.
3. The token and its refresh, and the token buckets, in RestClient.
4. Execution quality and the taker's trigger in EntryPolicy, which are choices now.
