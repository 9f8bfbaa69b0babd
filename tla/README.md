# Verification of the paper-trading engine

This directory holds TLA+ modules about the Go engine under `src/engine` (`cmd/engine`,
`internal/…`), TLC configurations that check them on small instances, and TLAPS proofs
for every value of the constants. Paths below are relative to `src/engine/internal`
unless they name something else. The specifications quoted are `src/docs/ENGINE_SPEC.md`
and `src/docs/DSL_SPEC.md`.

## 1. Inventory

The engine is one Go process. A market feed produces ticks; **one goroutine**
(`Pipeline.Run`) turns them into candles and calls every strategy runtime in turn; HTTP
handlers, four monitors and the start-up sequence act on the same runtimes from
goroutines of their own; SQLite keeps what must survive the process.

| component | state | operations | who calls it | hard behaviour | what makes it right |
|---|---|---|---|---|---|
| strategy runtime `strategy/` | run state, bar count, trading day, open trades, counter | OnCandleClose, tryEntry, manageOpenTrade, closeTrade, SetState, Subscribe, RestoreOpenTrade | dispatcher; handlers, monitors and start-up set the state | many records changed with early returns between; symbols close candles at different moments | the records agree, stops fire, nothing is held over night |
| risk block, guard `risk/` | daily loss, open positions, cooldowns, re-entries; deployed amounts | RollDay, CanEnter, RecordEntry/Exit; CanDeploy, RecordDeploy/Release | runtime | day roll by candle time | caps hold |
| ledger `portfolio/` | cash, holdings, realised profit, costs | ApplyBuy, ApplySell, Reconcile | runtime, replay | one mutex per call | money is conserved |
| sizing and paper broker `execution/` | none | ResolveQuantity, PlaceOrder | runtime | partial fills, rejected orders | fills no more than ordered |
| candle builder, aggregator `marketdata/builder.go` | candle under construction per symbol | OnTick, OnMinuteClose | pipeline | a candle is closed by its symbol's next tick only | one close per bucket, in order |
| pipeline `marketdata/pipeline.go` | listeners, subscribed symbols, aggregators | Run, OnCandleClose, RemoveListener, EnsureTimeframe, Subscribe | main, registry | listeners copied before dispatch, in map order | a removed listener is forgotten |
| indicator cache `indicators/cache.go` | reference counts, instances | Subscribe, Unsubscribe, OnCandleClose, Get | runtime, pipeline | shared by strategies | freed exactly at zero |
| indicators `indicators/*.go` | a ring buffer, running sums, smoothed values | New, Update | cache | each candle once, history forgotten | the reading is what the whole window says |
| registry `scheduler/engine.go` | runtimes, listener ids | RunStrategy, Pause, Resume, Stop | handlers, monitors, AutoResumeAll | check and insert under two locks; partial failure | cap, no orphan, a stop is complete |
| API server `api/server.go` | ledgers, last status | run, pause, resume, stop, delete, save; AutoResumeAll, replayTrades | HTTP, main | engine call first, persistence afterwards; restart in between | restart continues what was |
| market session monitor `marketsession/` | wasOpen, autoPaused | poll | ticker | look and act in two calls, races with humans | paused at close, resumed at open, humans win |
| evaluation cutoff monitor `evalcutoff/` | none | poll | ticker | same | a due strategy is paused |
| retention `retention/` | purge marks | poll | ticker, daily | failure or crash between the statements; races with starts and deletes | the card stays true, idle strategies are purged |
| daily review `dailyreview/` | one row per day | poll | ticker, and the handler for any date | rows are listed and the review saved later | a history: right trades, right day, complete |
| DSL `dsl/` | none | Parse, Evaluate, Validate | runtime, handlers | three-valued leaves; keys built twice | no trade on missing data; every leaf resolves |
| storage `storage/` | tables | Upsert, List…, Delete…, Set… | everyone | one connection serialises statements | row = trade |
| websocket feed `marketdata/angelone/` | connection, subscriptions | Connect, Subscribe, Close | main, pipeline | reconnects, blocked channel | resubscribes, closes |
| backtest `backtest/`, `api/backtest.go` | cache, runtime and trades of one request | Run | HTTP | merge of several timeframes | looks ahead no further than the times it is given say |
| analytics `analytics/` | none | Compute, EquityCurve, reviews | backtest, handlers | one-pass accumulations | the report agrees with the trades |
| cost presets, feature store, Python agent, connectors, Streamlit tool | | | | | not part of the running engine's control |

`PROJECT.json` lists every component with what is and is not modelled, and every hazard
at its line with the properties aimed at it.

## 2. Modules

| module | models | extends |
|---|---|---|
| `Portfolio` | `portfolio/ledger.go` as a record and operations on it | |
| `Risk` | `risk/risk.go` the same way | |
| `Execution` | `execution/sizing.go`, `paper.go` | |
| `TradeLifecycle` | one runtime on the candles of its symbols: builder, aggregator, `OnCandleClose` with everything it calls, the trades table, pause/resume/stop | the three above |
| `TradeLifecycle_proofs` | theorems about it | and `Sums` |
| `Scheduler` | registry, listeners, dispatcher, indicator references; each API call in the parts its locks leave | |
| `Registry` | the abstract registry: every call is one step | |
| `SchedulerRefinement` | the mapping under which `Scheduler` implements `Registry` | `Scheduler`, instantiates `Registry` |
| `Scheduler_proofs` | theorems about the cap, the cache and the refinement | `SchedulerRefinement` |
| `RunControl` | handlers, both session monitors and AutoResumeAll acting on the same run state, desired status, restarts | |
| `RunControl_proofs` | theorems about it | |
| `Recovery` | ledger, runtime and trades table across stops, starts, replay and restarts | `Portfolio` |
| `Recovery_proofs` | theorems about it | and `Sums` |
| `Feed` | websocket feed with its supervisor, `Pipeline.Subscribe` and the tick loop, the shutdown | |
| `Feed_proofs` | theorems about it | |
| `Housekeeping` | the tables of one strategy under create, run, stop, delete, the purge and the daily review, statement by statement, with failures and restarts | |
| `Housekeeping_proofs` | theorems about it | and `Sums` |
| `Ring`, `Indicators`, `Trend` | `indicators/*.go`: the ring buffer and every indicator as a state and an update | each other |
| `IndicatorCache` | `indicators/cache.go` and the factory over them | `Trend` |
| `Conditions`, `Validation` | `dsl/`: parsing, evaluation, the resolver, every rule of `Validate` | each other |
| `Analytics` | `analytics/`: metrics, curve, reviews | |
| `Backtest` | a backtest request: the composition of all the modules from `Ring` on | `Validation`, `Analytics` |
| `Backtest_proofs` | theorems about it | and `Sums` |
| `Sums` | lemmas: sums over finite sets; induction on sets of numbers and of sets; recursion down a tree and along a sequence | |
| `MC_…` | the instances TLC checks; `RunControl`, `Feed` and `Housekeeping` are checked as they are | |

The state machines are views of one engine at different grains: what is one step in
one of them is the subject of another. A registry call is one step in `Registry`, several in
`Scheduler` and one in `RunControl`; a candle is one step with all its effects in
`TradeLifecycle` and `Backtest`, a single entry, exit or expiry in `Recovery` and
`Housekeeping`, and the mere fact that a handler is busy in `Scheduler`. An indicator's value
is an input of `TradeLifecycle` and computed in `Backtest`; sessions, sizing and fills are
choices of `Backtest` and computed in `TradeLifecycle`.

**TradeLifecycle.** Time is counted in minutes ("slots") of short days. A tick that starts
a later minute closes the candle of its own symbol and the whole handler runs in that step,
because the pipeline has one dispatching goroutine. Symbols tick independently; with
`Liquid = FALSE` a symbol may be silent for minutes and over the night. A timeframe of
several minutes goes through `Aggregate`, which hands over a bucket when the first minute of
the next one closes. What the model takes as input: prices, whether the entry tree fires,
the value of an indicator leaf of the exit tree (true, false, or still warming up), the
broker's circuit hook and how much of an order is filled. The price an order is filled at is
`latestPrice`: its listener runs before or after the runtime's (Go map order), so it is the
closing price of this minute or of the one before. Money is in integer units of the last
decimal place kept, so only a division can round.

**Scheduler.** `call[c]` is what a caller is in the middle of; every point at which
`engine.go` releases a lock, or calls something outside of it, is a step boundary:
load, check, subscribe, listen, insert; get, set; remove, halt, unsubscribe, unlisten.
Runtimes are numbered in the order they are made (`MaxRuns` bounds them), so that a runtime
that was replaced in the map is still there to be looked at. A strategy is run by its series
of indicators (`Keys`); one of them may be unknown to the factory, which fails a run in
the middle of its subscriptions.

**Registry and SchedulerRefinement.** The abstract registry has no calls in progress: a run
installs a runtime, hands it to the dispatcher and takes its series in the same step. The
concrete one releases its mutex in the middle, so the mapping decides when a call takes
effect: a run when its listener is registered (`RunListen`; the map follows), a stop when
the runtime is told so (`StopHalt`; it has left the map, the listener and the series
follow). In between, the mapping reads the caller's own place, and what a call holds for a
strategy that is not installed is not counted. It works for one caller at a time. With two
it fails, which is what `Scheduler_orphan` shows in another way; with an unknown indicator it
fails as the references of a failed run are never given back.

**RunControl.** A handler is two steps, the engine call and `setStatus`; several requests may be
between the two. `setStatus` may fail, and the request is answered as if it had not (`Persist`).
A monitor's pass is: take the list, look at one strategy, act on it, look at the next. A restart
may happen between any two steps; nothing but `desired_status`, the trades and the market is
left. `due` and `open` are inputs. `decision` is a history variable: the last thing a human
asked of a strategy and the engine carried out, and whether it is still unanswered,
`desired_status` has it ("saved"), has something else ("unsaved": the write failed, or an older
request stored its own status later), or did not have it when the process ended ("lost").

**Recovery.** A start is: the ledger, the runtime, and only if this start made the ledger,
reading the rows and replaying them one by one; each may be the last before a restart, and
from the registration of the runtime on a candle may come between any two of them. Three
history variables: `before` and `replayed` say how many rows there were when the ledger was
made and how many of these were replayed into it; `surplus` is what the ledger counts beside the
table. A trade that a candle entered before the rows were read is in the ledger and is replayed
as well; the runtime may then hold either copy, and the row shows the one written last, so
`surplus` is, for each such row, the copy the row does not show. `ReplayFails` is the replay that
cannot read the rows or cannot pay for an entry.

**Feed.** A connection is a number; `wire[k]` is what the broker was asked for on it and is
worth nothing once `k` leaves `up`. `subscribed` is the pipeline's set, `subs` the feed's, and
`call[c]` a caller between the two locks and the two halves of `sendSubscribeFrame` (load the
connection, write to it). `sup` is the supervisor between its own steps: read, blocked on the
channel, wait, login, dialled, stored, replay. A login that fails leads back to a read of the
broken connection; `failedReads` is the counter gorilla/websocket keeps of these, which ends the
process by a panic at `PanicAfter` (1000 in the library). `refused` is a history variable, the
symbols of requests that were answered with an error. Frames, ticks, the heartbeat (it only
writes pings) and the length of the waits are left out.

**Housekeeping.** `http`, `purge` and `capture` say what the request, the retention monitor and
the review monitor are about to do, `candle` what the handler of a candle is about to write: it
looks once whether its runtime is stopped, and the stop of a request or of a delete does not
wait for it. Between any two of their statements another of them may act, a statement may fail
or the process may end and come up on the same day or the next (`MaxFaults`, `MaxEvents`). Days
are numbers; `closed` says that the market of today is over. An exit carries the day of its
candle, which may be yesterday. The rest are history variables: `exits`, the completed trades
that were written; `late` and `stale`, the trade whose row a candle had still to write, and the
reviews the monitor had still to save, when a delete emptied their table; `polled`, the versions
whose reviews were last written by a poll begun after the market; `disturbed`, whether two
procedures that write the same rows were mixed or one was cut short. Left out: the tables
orders, logs and predicted metrics, which are written and emptied beside these and decide
nothing; `first_run_at`, which is `due` of `RunControl`; a review row without trades. The two
inserts of `SaveVersion` and the start itself are one step each: `Scheduler` and `Recovery` take
the start apart. HTTP requests for the strategy come one after the other.

**Backtest.** A document is a record, a condition tree a function from node numbers to raw
nodes as `UnmarshalCondition` sees them; a node may be malformed, `null`, or carry a parameter
both flat and under `params` (Go's map order decides). An indicator is a record with the
fields of its struct. Numbers are integers, in units of `Unit` where the code divides; a
root is compared by squares. Each candle is a step: update the cache, and on the strategy's
own timeframe manage the trade or try an entry; whether session and risk admit an entry or
force an exit is a choice. `labels` is the end of a candle whose time the request gives: the
handler takes either (`api/backtest.go:94-96`), and the callers in the repository send openings.

A name with a suffix (`AtCap_OffByOne`) is a faulty variant of the definition before the
underscore, there to show that the properties can fail.

## 3. Runs

| run | question | bounds |
|---|---|---|
| `Lifecycle_intraday` | Do the four records of what is held agree, are the caps kept, is every stop honoured and nothing carried over night, on minute candles? | 2 symbols, 1 position, day of 5 minutes, a day and a half, 2 prices around the stop, slippage, an exposure cap, a longest open time, 705,025 states |
| `Lifecycle_swing` | The table, the cooldown and the stops for a swing strategy that expires, with a trailing stop and a target, sizing by share of cash, orders that fill in part, two-minute candles through the aggregator | 1 symbol, 3 days, slippage, an exposure cap, 208,383 states |
| `Scheduler_concurrent` | Do two callers and the dispatcher keep the cache exact, and by how much is the cap exceeded? | 4 strategies, one broken, two sharing a series, 1.3 million states |
| `Scheduler_serial` | With one caller at a time, does every call take effect at one moment (`ImplementsRegistry`), does the cap hold, does a stop end? | 3 strategies, any two share a series, cap 2, 3 runs, 245,648 states, fair |
| `Scheduler_orphan` | *violated*: is every listener reachable from the registry, with two callers? | |
| `RunControl_day` | Is a stop final, also when requests overlap and statuses cannot be stored, and do market close, opening and cutoff take effect in the end? | 1 strategy, 2 humans, 44,054 states, fair |
| `RunControl_override` | *violated*: does a human's pause hold? | |
| `Recovery_restart` | Does a replayed ledger continue the old one, and by what is it off if candles come in between? | 2 symbols, 3 trades, 306,197 states |
| `Recovery_stop` | *violated*: is every open trade managed? | 1 symbol, 2 trades |
| `Feed_live` | Is no subscription lost between the connections, does the feed live until the shutdown, is a broken connection replaced, and when does the library's panic end it? | 3 symbols, one without an instrument, 2 callers, 2 connections, a channel of 1, a panic at the third failed read, 92,750 states, fair |
| `Housekeeping_life` | Are the reviews a history, is the card true before and after a purge, what does a delete leave, is the idle strategy purged in the end, is every exit of today reviewed in the evening? | 1 version, 2 days, 2 trades or 1 trade and 1 fault, 1,303,425 states, fair |
| `Backtest_formulas` | Do the indicators read what the history says, how far does the strategy look ahead, is there no trade on missing data, and does the report agree with the trades? | 10 documents, all series of up to 6 fine and 2 coarse candles of 2 shapes, labelled by their opening or their close, days of 4 minutes, 225,997 states |

Why these bounds are enough. *Lifecycle*: a trade is opened and closed within two candles, so a
day of five minutes has room for entry, exit and re-entry, for a trade that reaches its longest
open time before the square-off, and a second day is there for what crosses midnight; two prices
lie on both sides of the stop and of the daily loss; two symbols compete for one position. With
slippage the amount deployed on a symbol drifts from what its trades are worth, and the exposure
cap is low enough to refuse entries for it; without the cap there are more states (769,757 and
267,309). `CircuitWired` is off in the runs, as nothing in the repository calls
`SetCircuitCheck`; the proofs hold for either value. *Scheduler*: a race needs two callers; one
shared series, one owned and one that fails give all cases of the reference counts. The serial
run has three strategies over series of which any two share one, so that a stop leaves a series
to another strategy, one below the cap and one above it. *RunControl*: the monitors' passes
treat strategies one after the other, and a strategy's turn may be delayed arbitrarily with one
strategy too; two requests that overlap are enough for a status to be overwritten by an older
one. With two strategies and one human the two invariants hold too (5,175,288 states), in too
long a time for a regular run. *Recovery*: three trades allow one to be closed, one open and one
expired at a time; the starting cash pays for just two trades, so that a replay can run short,
and a trade can be entered, exited and entered again within one start. *Feed*: two callers with
overlapping requests, one unknown symbol, and one reconnect, in which all the races between a
call and the replay occur; with three connections the safety properties hold too (801,400
states). The last connection does not drop, since no other could replace it within the bound. A
panic at the third failed read lets the first two be followed by a login that succeeds.

*Housekeeping*: one day to trade and one to be idle, two trades so that a life before a delete
or purge can be told from one after, or one trade and one fault at any statement (`MaxEvents`).
A second version only takes the place of the first in what is listed; the theorems are about any
number of them, of trades, of days and of faults. *Backtest*: windows are of length two, so six
candles fill and evict every ring buffer several times, cross a day, and close two coarse
candles; one document holds every indicator at once.

Deadlock is checked except in the lifecycle runs, whose clock ends at `Horizon`, in the
`Scheduler` runs, which use up `MaxRuns`, in `Feed_live`, where a panic ends the process, and in
`Backtest_formulas`, where a request ends. In `RunControl` and `Housekeeping` it says little,
since a request may come at any time; progress is what their liveness properties are for.

**Fairness.** `Scheduler!FairSpec`: the dispatching goroutine runs again (weak fairness of
`Dispatch`; handlers do not block), and a caller that is inside a call proceeds (no call
waits for anything but a mutex held for a bounded time). Nothing makes a caller start a
call. `RunControl!FairSpec`: each monitor is a `time.Ticker` loop, so it is always about to
poll again; AutoResumeAll and a handler run to their end. The market, the humans and
restarts are not fair. `Feed!FairSpec`: the supervisor, the pipeline's loop and a caller inside
a call go on (weak fairness). Nothing makes a login succeed: a supervisor whose logins all fail
ends in the library's panic, which `Reconnects` allows.
Nothing makes anyone shut the engine down.
`Housekeeping!FairSpec`: the retention monitor is a ticker loop and no statement waits for another
(weak fairness of `PurgeStep`). Nothing else is fair. That an exit is reviewed is not a
liveness property: an hourly poll comes a bounded number of times before midnight and never goes
back to a day, so `ExitReviewed` says what one poll that began after the market has achieved
by the time it is through, until midnight, whatever the polls and requests before it had listed.

## 4. What the violations show

* **Orphaned runtime** (`Scheduler_orphan`). Two runs of one strategy both pass the check;
  the second insert overwrites the first runtime, whose listener trades on and cannot be
  stopped.
* **A human's pause is reversed** (`RunControl_override`). A pause requested while the monitor
  holds the strategy paused changes nothing that the monitor remembers; at the opening it
  resumes the strategy, with `desired_status` "paused".
* **Stop and run forget open trades** (`Recovery_stop`). The replay is tied to the creation of
  the ledger, which a stop keeps; the new runtime starts without its trades.

### Divergences seen while modelling, without a run of their own

Where an instance is named it reproduces the behaviour.

*Trading*

* `strategy/runtime.go:296` compares the day with `!=`. A silent symbol's candle of yesterday,
  closed by its first tick of today after another symbol's candle of today, rolls the day
  back and the next one forward, and each roll forgets the losses (risk.go:39 "called once per
  new trading day"). `DailyLossHaltsEntries` fails in `Lifecycle_intraday` with `MaxPositions = 2`,
  `Liquid = FALSE` (and `FlatOvernight`, which a silent symbol breaks sooner, not asked).
* `strategy/lifecycle.go:169`: `force_square_off` compares the open time of a candle, and a
  candle is handed over when the next one begins. On a timeframe coarser than a minute, if
  the square-off time lies in the last candle of the day, that is the next morning
  (DSL_SPEC:258 "always fires, no exceptions"). With `TfSlots = 2` in `Lifecycle_intraday`
  `FlatOvernight` fails; on minute candles it holds.
* `strategy/runtime.go:303` counts the candles of all symbols as bars, so with n symbols a
  cooldown of N bars lasts N/n bars (DSL_SPEC:212 "N bars of the strategy's `timeframe`").
* `risk/risk.go:78` compares `max_reentries` with the number of exits, so the last permitted
  re-entry never happens (DSL_SPEC:222).
* `strategy/lifecycle.go:101` checks exposure with the candle's close; the order is filled at
  `latestPrice`, which may be higher, and is not checked again (DSL_SPEC:246).
* `strategy/lifecycle.go:164` raises the high-water mark in memory only,
  `storage/repo_trade.go:19-21` says it is stored on every change; a restart lowers a trailing
  stop.

*Registry, run control, recovery, feed*

* `scheduler/engine.go:97`: concurrent runs exceed the cap (engine.go:85 "rejected outright at
  the cap"). `OvershootBounded` says, and is proved to say, by how much.
* `scheduler/engine.go:142`: a pause that fetched its runtime before a stop changes the state of
  the stopped runtime (runtime.go:50 "nothing processed"). With two callers `ImplementsRegistry`
  fails for this and for the orphan.
* `scheduler/engine.go:118-120`: a run that fails in the middle of its subscriptions does not
  give them back (indicators/cache.go:36); `validateRule` does not look at `compare_to`.
  `ImplementsRegistry` fails if one of the keys is unknown.
* `api/server.go:417-419`: a status that cannot be stored is logged, and the request is answered as
  if it had been. A stop is then followed by a start at the next restart (server.go:493-495 "would
  override a real decision"). `StoppedStaysOut` and `StopSticks` say that this, the overtaking
  below and a restart before the answer are the only ways it happens.
* `api/server.go:463-468`: the runtime listens before its trades are restored, although
  runtime.go:95-97 asks for the restore before it processes candles. A trade entered in between
  is replayed on top of itself: the ledger holds it twice, against server.go:363-374.
  `LedgerContinues` and `NoPhantomHolding` say exactly how much the ledger is off by
  (`surplus`); without the terms for it both fail in `Recovery_restart`. A candle may also find
  no trade of a symbol whose row is about to be restored, and buy again.
* `api/server.go:368-377`: the replay charges all costs with the entry and may run out of cash
  where the trades themselves did not; the start then goes on with part of the ledger.
* `api/server.go:535,555`: a pause and a stop handled at the same time may persist in the other
  order, so that `desired_status` has the pause and the next restart starts what was stopped
  (`decision` is "unsaved").
* `marketdata/pipeline.go:117`: the pipeline takes symbols as subscribed before it asks the feed,
  and the feed marks the symbols before an unknown one without sending them. A request that
  was refused succeeds when it is made again, and its good symbols get no tick until the
  next reconnect (ws.go:220-226 promises the error for an unknown symbol).
* `marketdata/angelone/ws.go:83-93`: a `Close` that falls between the dial and the store closes
  the old connection; the supervisor stores the new one and reads it. `main.go` closes only
  when the process ends.
* `marketdata/angelone/ws.go:141`: while logins fail, the failed connection is read again after
  each wait; gorilla/websocket panics at the thousandth failed read of a connection, and nothing
  recovers: an outage long enough ends the process (ws.go:31-34 "instead of dying permanently on the
  first transient error"). `AliveUntilShutdown` allows this end and no other.
* `strategy/lifecycle.go:268`: a sell that fills in part closes the whole trade. The fill mode is
  not wired in `main.go`.
* `strategy/lifecycle.go:214`: `exit_priority` naming "signal" first has no effect on the reason.

*Housekeeping*

* `retention/monitor.go:147`: after a crash or a failure between the deletes and `SetPurgedAt`
  the next poll takes the snapshot again, of no trades, and overwrites the final performance.
* `retention/monitor.go:124`, `storage/repo_strategy.go:180`: `purged_at` is never cleared. A
  strategy that is run again keeps the card of its first life, and is not purged a second time.
* `api/server.go:476` writes `last_run_at` after the runtime is registered. A strategy started
  while the monitor decides, or after a long time as idle, has its rows deleted under it; rows
  of open trades are deleted with the others while the ledger in memory keeps the holding.
  Idleness is counted from the last run, not from the last stop.
* `api/server.go:564-590`: a delete waits neither for the candle that is being handled nor for a
  review that is about to be saved, so a trade or a review may be written after its table was
  emptied (559-563 promise "every version, order, trade, log, and review row"), and a strategy of
  the same name inherits it. `DeleteLeavesOnlyInFlight` says, and is proved to say, that
  nothing else is left; without `late` and `stale` it fails in `Housekeeping_life`.
* `dailyreview/monitor.go:59`: a poll reviews the day it began on and none goes back. The last
  candle of a day is handed over with the first tick of the next, and a daily candle always is,
  so an exit on it is in no review the monitor ever writes. Two reviews saved at the same time
  lose the later data: a request that listed while the market was open may save after the
  evening's poll. `ExitReviewed` speaks of the exits of today and drops a version from `polled`
  in that case.
* `retention/monitor.go:124`: with a last run long enough ago a purge may fall on the day of the
  stop and delete the rows of that day before a poll has listed them.
* `api/server.go:739`: asking for the review of an old day after a purge overwrites its row with
  an empty one. An expired trade counts in a review neither as open nor as exited.
* A new version of a strategy lists only its own trades: the card, the reviews and the replay
  forget those of the version before. Predicted metrics can be stored for an unknown strategy.
  `ReviewGate` is never called.

*Conditions and indicators*

* `api/backtest.go:94-96` replays candles by the time the request gives, which in the
  repository's own callers is the opening. A candle of a longer timeframe than the strategy's is
  then seen before it has closed, by the difference of the two lengths, against runner.go:53;
  one of a shorter timeframe as much too late. With closing times nothing is seen early, and a
  coarse candle is seen one minute candle earlier than the live pipeline hands it over.
  `LookAheadExact` says this of both labels.
* `indicators/price.go:27`, `dsl/condition.go:331`: the first candle has `Prev = 0`, so a price
  above a positive threshold has "crossed" it. `indicators/ema.go:31`: while an average seeds,
  `Prev` equals `Value`, and no cross of it is seen.
* `indicators/channel.go:105`: `touched` has no absolute value: a candle that is far through the
  level counts as one that touches it.
* `dsl/validate.go`: `<` and `>` without a value or `compare_to` are accepted; the indicator of a
  `compare_to` and all parameters are never looked at; the duplicate check ignores
  `pattern_name` and the parameters of `compare_to` and counts entry and exit tree together;
  crosses of `obv`, `highest_high` and `support` without a threshold are accepted and never fire.
* `dsl/condition.go`: `{"all": []}` is true; missing trees are valid; a parameter given flat and
  under `params` is decided by Go's map order.
* `analytics/metrics.go:135`: the curve is said to be in the order of exits; it is in the order of
  its input, which is by entry.

## 5. Proofs

`tlapm` checks every leaf. Assumptions: the `ASSUME`s on the constants, which TLC also
evaluates.

* `TradeLifecycle_proofs!Typed`: the type invariant. It is where natural numbers stay
  natural: the loss counter only grows by losses, a cooldown is never negative.
* `PositionsExact`, `CapHolds`: the risk block's set and the atomic counter are exactly the
  open trades. The cap alone is not inductive: `CanEnter` reads the risk block, so the cap
  on trades needs their equality. Holds for partial fills and any number of symbols.
* `StorageIsExact`: row and trade agree. Its inductive invariant needs types only,
  since both are written by the same handler; the proof goes through every early return.
* `HoldingsExact`, `BooksExact`: with whole fills (`FillCaps = {0}`) the ledger holds exactly
  the open trades. A sale of a trade must find its holding, so this is proved together with
  the type of the quantity.
* `MoneyExact`, from which `AlwaysReconciled` and `HistoryExplainsCash` follow, with whole fills.
  Both identities are sums over all symbols, so a step that changes one symbol has to be
  shown to change the sum by that symbol's difference (`Sums`). `HoldingsExact` is used where a
  sale empties a holding: the cost it takes away is the one the trade was entered at. With
  partial fills the identities fail by the rounding of an average.
* `StopsFire`: a candle that closes at or under a stop closes the trade, with any fill model and
  any number of symbols. It needs `HoldingsCover` (the ledger holds at least what is sold) and
  `HeldIsPriced` (an order finds a price), so that the sale cannot be refused. Assumed: no
  circuit hook (nothing wires one), and no indicator leaf before the stop in `exit.any`, whose
  error would end the evaluation first (`StopsComeFirst`; both instances TLC checks satisfy it).
* `NeverOvernight`: assumed are a feed without gaps, no circuit hook, and a `cut`, a multiple of
  the timeframe at or after `force_square_off`, after which no entry is allowed and after
  which a whole candle is still handed over before midnight. `FlatInv` relates four clocks:
  the market's, the symbol's minute, its bucket and the entry of its trade. Both kinds of
  day that violate the assumption are in section 4.
* `LossHalts`: once the realised losses of a day reach the limit, nothing is opened on a candle
  of that day. `LossInv` ties the risk block's counter, which `RollDay` resets, to the losses
  of the calendar day; `OrderInv` says that candles come in the order of their days
  (`DaysInOrder`: no symbol is silent, or there is only one).
* `CooldownHolds`: `CooldownInv` bounds the bars since an exit by the time since it, which needs
  one symbol and candles no closer than the timeframe (`EvenCandles`: minutes, or a timeframe
  that divides the day and a feed without gaps; a bucket after a gap starts where it ends).
* `Recovery_proofs!RestartLosesNothing`, `RestartInventsNothing`, for any number of trades, symbols,
  stops, restarts and candles between any two steps of a start, with no other hypothesis.
  `RecoveryInv` is the conjunction of the types, `RowInv` (a trade in the runtime has a row, which
  shows it or the copy in `surplus`), `StartInv` (what a start has still to replay are rows older
  than the ledger, as they were read and as they still are, or rows the ledger has traded), and
  `AccountInv`: cash and holdings are those of the rows replayed so far and the rows younger than
  the ledger, of `surplus`, and of the row that is bought and about to be sold.
* `Scheduler_proofs!Overshoot`: at most one less than the number of callers above the cap. The
  inductive invariant counts the runs past their check together with the registered ones.
  `SerialCap` is its instance for one caller.
* `RunControl_proofs!Typed`; `StopSticks`, for any number of overlapping requests and any failed
  writes. The invariant `StopInv` adds what could bring a strategy back: a stop that was carried
  out, answered or not, leaves it to no start-up under way; as long as the stop is "saved"
  `desired_status` is "stopped", so that a restart has nothing to resume; and no request is in the
  middle of anything during a start-up.

* `Feed_proofs!Typed`, `SubscriptionsReach`, `AliveToTheEnd`: no subscription is lost, and the
  feed ends only in a shutdown or at the `PanicAfter`-th failed read of a connection (`EndInv`,
  `ReadsCounted`), whatever that number is. `SubscriptionsReachBroker` speaks of quiet moments.
  `FeedInv` says for every moment who still owes the broker a marked symbol: a caller whose
  frame will go to the connection in use, the supervisor whose replay has read the marks, or a
  reconnect that has not read them yet. A call that loaded the connection before it was replaced
  owes nothing: its mark was set before the replay reads.

* `Scheduler_proofs!Typed`, `CacheIsExact`, `NeverFreedInUse`, for any number of callers. A
  count alone does not say who may release. `CacheInv` says that every series' count is
  the number of its holders: the owner of an installed runtime, a call that has subscribed
  and not installed, a stop that has removed and not released, and a failed run that leaked.
* `Scheduler_proofs!SerialImplementsRegistry`: with one caller (`Callers = {c}`) and
  no unknown series (`AllKnown`) `Scheduler` implements `Registry`. `SerialInv` says for each place
  the caller can be in what the map, the listeners and the counts differ by from what is
  installed; each step is then a call of `Registry` (`RunListen`, `StopHalt`, the mode, the
  delete, the dispatcher) or a stutter. The run checks the same on three strategies.
* `Housekeeping_proofs!HistoryIsSound`: what a procedure holds between its listing and its save
  stays true, since an exit is never taken back; that and the trades table being a subset of the
  exits is the invariant (`HistoryInv`). `OnlyInFlightSurvives`: `GoneInv` says for each table
  the delete has passed what may still come back to it: the candle's row if it is in `late`, the
  monitor's review if it is in `stale` or lists only such trades. `EveningIsReviewed`:
  `EveningInv` says that what a poll or a request begun in the evening has listed is still all
  that exited today, and that no poll begun earlier is at work once one of the evening is
  through.

  `CardIsTruthful`: `CardInv` says that while nothing is `disturbed` the card's source, the
  snapshot or the rows, holds every completed trade since the last delete, also between the
  statements of a purge and of a candle (`LedgerInv`, `CandleInv`); the profit on the card is a sum
  over a set, which does not depend on the order the fold takes it in (`Sums`).

* `Backtest_proofs!LooksNoFurtherAhead`: for any set of timeframes of distinct lengths, any
  history and either label, how many candles of each timeframe the strategy has seen when it
  evaluates its own. `MergeInv` says that what was replayed comes, in the order of the merge,
  before what is still to come, and that the last candle replayed comes after all others.
* `EveryLeafResolves`: what `collectLeaves` subscribes contains what `ruleResolver` looks up, for
  every document that parses. `SeriesInv` says that each series a leaf reads is in the
  cache, and has a value from the first candle of its timeframe on.
* `NoEntryOnAnError`: `Evaluate` is a recursion down the tree that short-circuits and passes errors
  up. By induction from the leaves to the root its verdict is one that every completion of
  the missing readings shares, so an entry is never taken because a reading is missing.
* `ReportAddsUp`: for any trades, the drawdown of the one pass of `Compute` is the worst fall from
  a running high of `EquityCurve`, which is another pass over the same list. A lemma
  identifies the pass with its unfolding (`OnePassFacts`), induction on the index the rest.

* `ReadingsAreExact`: for every document, history and set of timeframes each indicator that is a
  function of a window, of a running sum or of the candle before reads what that function is of
  the whole history of its timeframe, and RSI, stochastic RSI, MFI and ADX stay within 0 to 100.
  The argument has three layers. A ring of `n` places that was given `xs` has the last `n` of
  them, where its size and its position say, and their sum (`IsWindow`, kept by `push`:
  `PushedWindow`); so its mean, values, extremes and oldest number are those of the
  last `n` (`MeanIsAverage`, `ValuesAreLast`, `ExtremesOfLast`, `OldestIsFirst`). `Tracks` says for
  each indicator what its state keeps of a history: a new instance keeps that of none
  (`NewTracks`), and an update on a candle keeps that of the history with the candle and returns
  the right value (`UpdateTracks`). `ReadInv` lifts it to the cache: every instance tracks the
  history of its own timeframe, whichever timeframe the next candle is of. OBV telescopes into
  signed volumes, VWAP needs that days do not go back, the oscillators that what they smooth is
  never negative. EMA, MACD, ATR and supertrend are recursive by definition: there is
  nothing to compare their state with, and nothing is claimed of them.

The theorems about `Backtest` assume of its constants that documents hold finite condition trees
whose kids are numbered after their parents (`DocumentsAssumption`; any parsed JSON text can be
numbered so), and that prices are integers and the capital is positive (`BacktestAssumption`).
`ReadingsAreExact` also assumes that windows are whole numbers (`WindowsAssumption`: `paramInt` of
`indicators/indicator.go:80` makes them so; they may be zero or negative, which the rings take
as 1) and candles with no negative price or volume and a low not above the high
(`CandlesAssumption`): so `marketdata/builder.go` makes them of ticks, and nothing in the engine
checks that those of the vendor's history are. Of an oscillator with a period of 0 or less, which
nothing refuses and which divides by its period, nothing is claimed.

`Sums` proves what the others need of sums and of induction. The library's induction theorems
take an operator as a parameter; on a set, the set of numbers (or of subsets) for which the
claim holds, induction follows from the existence of a minimal element (`WFMin`). A recursive
function is a `CHOOSE` until it is shown that one exists: `DownwardRecursion` and `IndexRecursion`
show it for a tree and for a sequence.

Only model-checked: all liveness (outside the prover's reach, as is `ENABLED`), and the claims
the three violation runs refute. Every invariant and every action property that a run checks
and TLC finds to hold is a theorem.

## 6. Not modelled

* Cost presets and the statutory cost model (a fee to `TradeLifecycle`), the feature store (the
  same indicators over the candles of a request, upserted into a database of its own), the
  read-only API except the card, the live broker (not wired), the mock feed, the vendor's HTTP
  client, the Python services and the Streamlit tool: numbers, I/O and formatting.
* SHORT trades and the market regime only add early returns before an entry. A holiday
  returns before open trades are managed too (`strategy/runtime.go:305`), but nothing in the
  engine sets `IsHoliday`, whose default is never. The sector cap has the form of the symbol cap.
* Failed database writes of trades (`api/server.go:448`) are only logged by the code; they are
  taken not to happen in `TradeLifecycle` and `Recovery`. In `Housekeeping` every statement of
  the monitors, of a delete, of a candle and of a new version may fail, in `RunControl` every
  `setStatus`.
* Decimal and float arithmetic: indicators and metrics are exact integers, so the drift of
  running float sums is not seen. The runs take windows of
  at least one candle, which the validator does not check.
* JSON: `Backtest` starts from a document already split into fields.
* Within `Housekeeping`, several requests for one strategy at the same time (`Scheduler` and
  `RunControl` have them).

## 7. Plan

Order of work; done unless it says otherwise.

1. `TradeLifecycle` with its helpers: the books, caps and stops. Proofs of the books.
2. `Scheduler`: the registry under concurrent calls. Proofs of the cap and of the cache.
3. `RunControl`: monitors, humans, restarts. Proof that a stop is final.
4. `Recovery`: replay and restart. Proof that a restart loses and invents nothing.
5. `Feed`: `Pipeline.Subscribe`, the tick channel, reconnect, resubscribe and close of
   `marketdata/angelone/ws.go`. Proof that no subscription is lost. Left: `EnsureTimeframe`
   racing with the dispatch of a minute.
6. `Housekeeping`: purge and daily review, failures and restarts between statements. Proofs
   that reviews are a history and complete in the evening, that a delete leaves only what was in
   flight and that the card is true.
7. `Ring` to `Backtest`: indicators, conditions, validation, analytics and the backtest.
8. `Registry`: the abstract registry, the refinement and its proof. Left: an abstract account
   (cash and positions per symbol) that `TradeLifecycle` and `Recovery` implement.
9. The money, the stops, the square-off, the daily loss and the cooldown of `TradeLifecycle`,
proved.
10. The merge, the evaluation, the report and the readings of `Backtest`, proved.
