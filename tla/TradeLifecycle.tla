--------------------------- MODULE TradeLifecycle ---------------------------
(***************************************************************************)
(* One strategy runtime of the trading engine, from the minute candles of  *)
(* its symbols to the rows the trades table holds:                         *)
(*   strategy/runtime.go    OnCandleClose, the filter and the day roll     *)
(*   strategy/lifecycle.go  tryEntry, manageOpenTrade, closeTrade          *)
(*   risk, portfolio, execution: the objects it calls (Risk, Portfolio,    *)
(*   Execution), and risk/portfolio_guard.go                               *)
(* All candles of the engine are dispatched by one goroutine, so a candle  *)
(* close with everything the runtime does on it is one step.  The other    *)
(* steps are the clock and the API calls that set the run state.           *)
(*                                                                         *)
(* Time is a count of slots, SlotsPerDay to a trading day; a slot is one   *)
(* minute.  HH:MM strings of the strategy are slots of the day.  A candle  *)
(* is closed by the next tick of its own symbol (OneMinuteBuilder), so     *)
(* symbols close their candles at different moments, and the last candle   *)
(* of a day is closed by the first tick of the symbol's next day.          *)
(*                                                                         *)
(* What a condition tree reads from the indicator cache is an input: a     *)
(* leaf is true, false or has no value yet.  The price of a candle is an   *)
(* input too.                                                              *)
(***************************************************************************)
EXTENDS Risk, Portfolio, Execution, Sequences

CONSTANTS
    Intraday,        \* strategy type: TRUE intraday, FALSE swing
    TfSlots,         \* minutes in one candle of the strategy's timeframe
    SlotsPerDay,
    MarketOpen, MarketClose,     \* NSE session, slots of the day
    EntryStart, EntryEnd,        \* session.entry_start / entry_end
    ForceSquareOff,  \* holding.force_square_off
    MaxOpenSlots,    \* holding.max_open_trade_duration_minutes, 0 = none
    MaxHoldingDays,  \* holding.max_days (swing)
    ExitLeaves,      \* leaves of exit.any, in order
    ExitPriority,    \* exit_priority, or the default order
    StopPct, TrailPct, TargetPct,
    Sizing,          \* position_sizing: [type, value]
    StartingCash,
    Fee,             \* cost model: charge per fill
    SlippagePct,
    FillCaps,        \* sizes one order may fill to: {0} is FillBasic
    CircuitWired,    \* TRUE once SetCircuitCheck was called
    SymbolCap,       \* portfolio.max_symbol_exposure as an amount, 0 = no block
    Prices,          \* prices a candle may have
    Liquid,          \* TRUE: every symbol ticks in every minute
    Horizon          \* bound: last slot of the modelled time

NoTime == -1
NoBucket == [time |-> NoTime, high |-> 0, close |-> 0]
NoTrade == [state |-> "NONE", qty |-> 0, entry |-> 0, hwm |-> 0, days |-> 0, time |-> NoTime]
NoRow == [state |-> "NONE", qty |-> 0, entry |-> 0, hwm |-> 0, exitTime |-> NoTime]
Held == {"ACTIVE", "EXPIRED"}
Terminal == {"CLOSED", "STOPPED", "TARGET_HIT"}

ASSUME ConstantsAssumption ==
    /\ IsFiniteSet(Symbols)
    /\ MaxPositions \in Nat /\ MaxDailyLossPct \in Nat /\ CooldownBars \in Nat
    /\ ReentryAllowed \in BOOLEAN /\ MaxReentries \in Nat
    /\ Intraday \in BOOLEAN /\ CircuitWired \in BOOLEAN /\ Liquid \in BOOLEAN
    /\ TfSlots \in Nat \ {0} /\ SlotsPerDay \in Nat \ {0}
    /\ MarketOpen \in Nat /\ MarketClose \in Nat
    /\ EntryStart \in Nat /\ EntryEnd \in Nat /\ ForceSquareOff \in Nat
    /\ MaxOpenSlots \in Nat /\ MaxHoldingDays \in Nat
    /\ ExitLeaves \in Seq({"signal", "stop_loss", "trailing_sl", "take_profit"})
    /\ ExitPriority \in Seq({"signal", "stop_loss", "trailing_sl", "take_profit"})
    /\ StopPct \in Nat /\ TrailPct \in Nat /\ TargetPct \in Nat
    /\ Sizing \in [type : {"fixed_pct", "fixed_amount", "fixed_qty", "risk_based"}, value : Nat]
    /\ StartingCash \in Nat /\ Fee \in Nat /\ SlippagePct \in Nat
    /\ FillCaps \subseteq Nat /\ SymbolCap \in Nat
    /\ Prices \subseteq Nat \ {0}
    /\ Horizon \in Nat

VARIABLES
    now,          \* the wall clock
    minute,       \* OneMinuteBuilder.current: open time of each symbol's candle
    bucket,       \* Aggregator.current: the coarser candle under construction
    ltp,          \* latestPrice, what the paper broker fills at (main.go)
    state,        \* Runtime.state
    barIndex,     \* Runtime.barIndex
    tradingDay,   \* Runtime.tradingDay and risk.State.tradingDay, always equal
    trades,       \* Runtime.trades (with entryTime)
    openCount,    \* Runtime.openCount
    risk,         \* risk.State
    ledger,       \* portfolio.Ledger
    deployed,     \* PortfolioGuard.deployedBySymbol
    rows,         \* trades table: the newest row of each symbol
    reported,     \* sum of the pnl column over closed rows
    lossOn        \* realised losses of the closed rows, by calendar day

feedVars == <<now, minute, bucket, ltp>>
bookVars == <<trades, openCount, risk, ledger, deployed, rows, reported, lossOn>>
vars == <<feedVars, state, barIndex, tradingDay, bookVars>>

Day(t) == t \div SlotsPerDay
SlotOf(t) == t % SlotsPerDay

Open(s) == trades[s].state \in Held
OpenSymbols == {s \in Symbols : Open(s)}

Init ==
    /\ now = 0
    /\ minute = [s \in Symbols |-> NoTime]
    /\ bucket = [s \in Symbols |-> NoBucket]
    /\ ltp = [s \in Symbols |-> NoPrice]
    /\ state = "running"
    /\ barIndex = 0
    /\ tradingDay = NoTime
    /\ trades = [s \in Symbols |-> NoTrade]
    /\ openCount = 0
    /\ risk = NewRisk(StartingCash)
    /\ ledger = NewLedger(Symbols, StartingCash)
    /\ deployed = [s \in Symbols |-> 0]
    /\ rows = [s \in Symbols |-> NoRow]
    /\ reported = 0
    /\ lossOn = [d \in 0 .. Day(Horizon) |-> 0]

-----------------------------------------------------------------------------
(* The exit tree, evaluated as condition.go and resolver.go do.            *)

StopLossHit(tr, price) == price * 100 <= tr.entry * (100 - StopPct)
TrailingSLHit(tr, price) == price * 100 <= tr.hwm * (100 - TrailPct)
TakeProfitHit(tr, price) == price * 100 >= tr.entry * (100 + TargetPct)

ShorthandHit(leaf, tr, price) ==
    \/ leaf = "stop_loss" /\ StopLossHit(tr, price)
    \/ leaf = "trailing_sl" /\ TrailingSLHit(tr, price)
    \/ leaf = "take_profit" /\ TakeProfitHit(tr, price)

LeafValue(leaf, tr, price, signal) ==
    IF leaf = "signal" THEN signal
    ELSE IF ShorthandHit(leaf, tr, price) THEN "true" ELSE "false"

ExitVerdict_ReadsAllLeaves(tr, price, signal) ==
    LET value(i) == LeafValue(ExitLeaves[i], tr, price, signal)
    IN  IF \E i \in DOMAIN ExitLeaves : value(i) = "warming" THEN "warming"
        ELSE IF \E i \in DOMAIN ExitLeaves : value(i) = "true" THEN "true" ELSE "false"

(* exit.any stops at the first leaf that is not false: a leaf that is true *)
(* decides for the exit, a leaf still warming up is an error for the tree. *)
ExitVerdict(tr, price, signal) ==
    LET value(i) == LeafValue(ExitLeaves[i], tr, price, signal)
        deciding == {i \in DOMAIN ExitLeaves :
                        value(i) # "false" /\ \A j \in 1 .. i - 1 : value(j) = "false"}
    IN  IF deciding = {} THEN "false" ELSE value(CHOOSE i \in deciding : TRUE)

HasLeaf(leaf) == \E i \in DOMAIN ExitLeaves : ExitLeaves[i] = leaf

AttributedReason(tr, price) ==
    LET fired(i) == HasLeaf(ExitPriority[i]) /\ ShorthandHit(ExitPriority[i], tr, price)
        first == {i \in DOMAIN ExitPriority : fired(i) /\ \A j \in 1 .. i - 1 : ~fired(j)}
    IN  IF first = {} THEN "signal" ELSE ExitPriority[CHOOSE i \in first : TRUE]

SquareOffDue_After(c) == Intraday /\ SlotOf(c.time) > ForceSquareOff

SquareOffDue(c) == Intraday /\ SlotOf(c.time) >= ForceSquareOff

(* A night is longer than any maximal duration.                            *)
DurationExceeded(tr, c) ==
    /\ Intraday /\ MaxOpenSlots > 0
    /\ Day(c.time) > Day(tr.time) \/ c.time - tr.time >= MaxOpenSlots

ExitReason_ForgetsExpired(tr, c, signal) ==
    IF SquareOffDue(c) THEN "force_square_off"
    ELSE IF DurationExceeded(tr, c) THEN "max_open_trade_duration"
    ELSE IF tr.state = "ACTIVE" /\ ExitVerdict(tr, c.close, signal) = "true"
         THEN AttributedReason(tr, c.close)
    ELSE "none"

ExitReason(tr, c, signal) ==
    IF SquareOffDue(c) THEN "force_square_off"
    ELSE IF DurationExceeded(tr, c) THEN "max_open_trade_duration"
    ELSE IF ExitVerdict(tr, c.close, signal) = "true" THEN AttributedReason(tr, c.close)
    ELSE "none"

ExpiryDue(tr, c, signal) ==
    /\ ~Intraday /\ MaxHoldingDays > 0
    /\ tr.days >= MaxHoldingDays /\ tr.state # "EXPIRED"
    /\ ExitVerdict(tr, c.close, signal) = "false"

StateForReason(reason) ==
    IF reason \in {"stop_loss", "trailing_sl"} THEN "STOPPED"
    ELSE IF reason = "take_profit" THEN "TARGET_HIT" ELSE "CLOSED"

OpenRow(tr) == [state |-> tr.state, qty |-> tr.qty, entry |-> tr.entry, hwm |-> tr.hwm, exitTime |-> NoTime]

ClosedRow_StillActive(final, t) == [NoRow EXCEPT !.state = "ACTIVE", !.exitTime = t]

(* A closed row keeps what the properties read: its state and exit time.   *)
ClosedRow(final, t) == [NoRow EXCEPT !.state = final, !.exitTime = t]
-----------------------------------------------------------------------------
(* The handlers.  r, ts and bar are the risk state, the trades and the bar *)
(* number after the day roll of the same candle.                           *)

(* What the broker's circuit hook and the signal leaf may answer.          *)
CircuitAnswers == IF CircuitWired THEN BOOLEAN ELSE {TRUE}
SignalValues == IF HasLeaf("signal") THEN {"warming", "false", "true"} ELSE {"false"}

StopDistance ==
    IF HasLeaf("stop_loss") THEN StopPct ELSE IF HasLeaf("trailing_sl") THEN TrailPct ELSE 0

EntryQuantity(c) == ResolveQuantity(Sizing, ledger.cash, c.close, FALSE, 0, StopDistance)

CanDeploy(s, amount) == SymbolCap = 0 \/ deployed[s] + amount <= SymbolCap

WantsEntry(s, c, r, bar) ==
    LET slot == SlotOf(c.time)
        qty == EntryQuantity(c)
    IN  /\ state # "paused"
        /\ MarketOpen <= slot /\ slot <= MarketClose
        /\ Intraday => EntryStart <= slot /\ slot <= EntryEnd
        /\ CanEnter(r, s, bar)
        /\ qty > 0
        /\ CanDeploy(s, c.close * qty)

TryEntry(s, c, quote, r, ts, bar) ==
    \E hit \in BOOLEAN, circuitOk \in CircuitAnswers, cap \in FillCaps :
        LET qty == EntryQuantity(c)
            fill == PlaceOrder("BUY", qty, quote, circuitOk, SlippagePct, cap)
            trade == [state |-> "ACTIVE", qty |-> fill.qty, entry |-> fill.price,
                      hwm |-> fill.price, days |-> 0, time |-> c.time]
        IN  IF /\ hit /\ WantsEntry(s, c, r, bar)
               /\ IsFill(fill) /\ CanBuy(ledger, fill.qty, fill.price, Fee)
            THEN /\ ledger' = AfterBuy(ledger, s, fill.qty, fill.price, Fee)
                 /\ trades' = [ts EXCEPT ![s] = trade]
                 /\ openCount' = openCount + 1
                 /\ risk' = RecordEntry(r, s)
                 /\ deployed' = [deployed EXCEPT ![s] = @ + c.close * qty]
                 /\ rows' = [rows EXCEPT ![s] = OpenRow(trade)]
                 /\ UNCHANGED <<reported, lossOn>>
            ELSE /\ trades' = ts
                 /\ risk' = r
                 /\ UNCHANGED <<openCount, ledger, deployed, rows, reported, lossOn>>

CloseTrade(s, c, r, ts, bar, tr, reason, fill) ==
    LET realized == Realized(ledger, s, fill.qty, fill.price)
    IN  /\ ledger' = AfterSell(ledger, s, fill.qty, fill.price, Fee)
        /\ trades' = [ts EXCEPT ![s] = NoTrade]
        /\ openCount' = openCount - 1
        /\ risk' = RecordExit(r, s, bar, realized)
        /\ deployed' = [deployed EXCEPT ![s] = @ - tr.entry * tr.qty]
        /\ rows' = [rows EXCEPT ![s] = ClosedRow(StateForReason(reason), c.time)]
        /\ reported' = reported + realized - 2 * Fee
        /\ lossOn' = [lossOn EXCEPT ![Day(c.time)] = IF realized < 0 THEN @ - realized ELSE @]

ManageOpenTrade(s, c, quote, r, ts, bar) ==
    \E signal \in SignalValues, circuitOk \in CircuitAnswers, cap \in FillCaps :
        LET tr == [ts[s] EXCEPT !.hwm = IF c.high > @ THEN c.high ELSE @]
            reason == ExitReason(tr, c, signal)
            expired == [tr EXCEPT !.state = "EXPIRED"]
            fill == PlaceOrder("SELL", tr.qty, quote, circuitOk, SlippagePct, cap)
        IN  IF reason # "none" /\ IsFill(fill) /\ CanSell(ledger, s, fill.qty)
            THEN CloseTrade(s, c, r, ts, bar, tr, reason, fill)
            ELSE /\ risk' = r
                 /\ IF reason = "none" /\ ExpiryDue(tr, c, signal)
                    THEN /\ trades' = [ts EXCEPT ![s] = expired]
                         /\ rows' = [rows EXCEPT ![s] = OpenRow(expired)]
                    ELSE /\ trades' = [ts EXCEPT ![s] = tr]
                         /\ rows' = rows
                 /\ UNCHANGED <<openCount, ledger, deployed, reported, lossOn>>

AgedTrades == [s \in Symbols |-> IF Open(s) THEN [trades[s] EXCEPT !.days = @ + 1] ELSE trades[s]]

OnCandleClose(s, c, quote) ==
    IF state = "stopped"
    THEN UNCHANGED <<barIndex, tradingDay, bookVars>>
    ELSE LET rolls == Day(c.time) # tradingDay
             r == IF rolls THEN RollDay(risk) ELSE risk
             ts == IF rolls THEN AgedTrades ELSE trades
         IN  /\ tradingDay' = Day(c.time)
             /\ barIndex' = barIndex + 1
             /\ IF Open(s) THEN ManageOpenTrade(s, c, quote, r, ts, barIndex + 1)
                ELSE TryEntry(s, c, quote, r, ts, barIndex + 1)
-----------------------------------------------------------------------------
(* The feed.                                                               *)

(* The aggregator folds the closed minute m into the bucket, after closing *)
(* the previous bucket if m belongs to another one.  Buckets are aligned to *)
(* midnight, so they start over with every day.                            *)
Bucket(t) == <<Day(t), SlotOf(t) \div TfSlots>>

Aggregate(s, m) ==
    LET b == bucket[s]
        closes == b.time # NoTime /\ Bucket(b.time) # Bucket(m.time)
    IN  IF closes
        THEN /\ bucket' = [bucket EXCEPT ![s] = m]
             /\ OnCandleClose(s, b, m.close)
        ELSE /\ bucket' = [bucket EXCEPT ![s] =
                    IF b.time = NoTime THEN m
                    ELSE [b EXCEPT !.high = IF m.high > @ THEN m.high ELSE @, !.close = m.close]]
             /\ UNCHANGED <<barIndex, tradingDay, bookVars>>

(* The first tick of a symbol starts its candle.                           *)
FirstTick(s) ==
    /\ minute[s] = NoTime
    /\ minute' = [minute EXCEPT ![s] = now]
    /\ UNCHANGED <<now, bucket, ltp, state, barIndex, tradingDay, bookVars>>

(* A tick in a later minute closes the candle.  Candle listeners are called *)
(* in the order of a Go map, so the one that records latestPrice runs       *)
(* before or after the runtime; a coarser candle is dispatched after both.  *)
MinuteClose(s) ==
    /\ minute[s] # NoTime /\ minute[s] < now
    /\ minute' = [minute EXCEPT ![s] = now]
    /\ UNCHANGED <<now, state>>
    /\ \E high, close \in Prices :
        LET m == [time |-> minute[s], high |-> high, close |-> close]
        IN  /\ high >= close
            /\ ltp' = [ltp EXCEPT ![s] = close]
            /\ IF TfSlots = 1
               THEN /\ bucket' = bucket
                    /\ \E quote \in {close, ltp[s]} : OnCandleClose(s, m, quote)
               ELSE Aggregate(s, m)

AdvanceClock ==
    /\ now < Horizon
    /\ Liquid => \A s \in Symbols : minute[s] = now
    /\ now' = now + 1
    /\ UNCHANGED <<minute, bucket, ltp, state, barIndex, tradingDay, bookVars>>

(* PauseStrategy, ResumeStrategy and StopStrategy as the runtime sees them. *)
SetState(st) ==
    /\ state # "stopped" /\ state # st
    /\ state' = st
    /\ UNCHANGED <<feedVars, barIndex, tradingDay, bookVars>>

Next ==
    \/ AdvanceClock
    \/ \E s \in Symbols : FirstTick(s) \/ MinuteClose(s)
    \/ \E st \in {"running", "paused", "stopped"} : SetState(st)

Spec == Init /\ [][Next]_vars
-----------------------------------------------------------------------------
(* Properties.                                                             *)

TimeType == (0 .. Horizon) \cup {NoTime}
CandleType == [time : 0 .. Horizon, high : Nat \ {0}, close : Nat \ {0}]
TradeType == [state : Held, qty : Nat \ {0}, entry : Nat, hwm : Nat, days : Nat, time : 0 .. Horizon]
RowType == [state : Held \cup Terminal \cup {"NONE"}, qty : Nat, entry : Nat, hwm : Nat, exitTime : TimeType]
RiskType ==
    [startingCapital : Nat, dailyLoss : Nat, openPositions : SUBSET Symbols,
     cooldownUntil : [Symbols -> Nat], reentryCount : [Symbols -> Nat]]
LedgerType ==
    [cash : Int, realizedPnL : Int, totalCosts : Nat, holdings : [Symbols -> [qty : Nat, avg : Nat]]]

FeedTypeOK ==
    /\ now \in 0 .. Horizon
    /\ minute \in [Symbols -> TimeType]
    /\ bucket \in [Symbols -> CandleType \cup {NoBucket}]
    /\ ltp \in [Symbols -> Nat]

BooksTypeOK ==
    /\ barIndex \in Nat
    /\ tradingDay \in Int
    /\ trades \in [Symbols -> TradeType \cup {NoTrade}]
    /\ openCount \in Int
    /\ risk \in RiskType
    /\ ledger \in LedgerType
    /\ deployed \in [Symbols -> Int]
    /\ rows \in [Symbols -> RowType]
    /\ reported \in Int
    /\ lossOn \in [0 .. Day(Horizon) -> Nat]

(* Every variable has its type.                                            *)
TypeOK == FeedTypeOK /\ BooksTypeOK /\ state \in {"running", "paused", "stopped"}

PositionsAgree ==
    /\ risk.openPositions = OpenSymbols
    /\ openCount = Cardinality(OpenSymbols)

HoldingsAgree ==
    \A s \in Symbols :
        ledger.holdings[s] = IF Open(s) THEN [qty |-> trades[s].qty, avg |-> trades[s].entry] ELSE Flat

(* The runtime, the risk block, the ledger and the atomic position counter *)
(* are four records of which symbols are held, updated by one handler with *)
(* early returns between the updates (lifecycle.go tryEntry, closeTrade):  *)
(* they never disagree, neither on the symbols nor on quantity and price.  *)
(* Partial fills are outside this statement.                               *)
BooksAgree == PositionsAgree /\ HoldingsAgree

(* max_positions bounds the positions really held, also when symbols enter *)
(* on the same minute (risk.go CanEnter; DSL_SPEC Sec 13).                 *)
PositionsWithinCap == MaxPositions > 0 => Cardinality(OpenSymbols) <= MaxPositions

(* The trades table tells a restarted process what is held: its newest row *)
(* of a symbol is open exactly when the runtime holds the symbol, with the *)
(* same quantity, entry price and state (hooks called by lifecycle.go).    *)
StorageAgrees ==
    \A s \in Symbols :
        IF Open(s)
        THEN /\ rows[s].state = trades[s].state
             /\ rows[s].qty = trades[s].qty
             /\ rows[s].entry = trades[s].entry
        ELSE rows[s].state \notin Held

(* The profit the closed rows report, net of costs, is the change of cash  *)
(* once what is invested in open trades is added back: no order moves      *)
(* money that the trade history does not show.                             *)
PnLExplainsCash ==
    ledger.cash + DeployedCapital(ledger) + Fee * Cardinality(OpenSymbols)
        = StartingCash + reported

(* The reconciliation identity of ENGINE_SPEC Sec 12 (ledger.go Reconcile, *)
(* which only tests call) holds after every order.                         *)
Reconciled == Drift(ledger, StartingCash) = 0

(* Once the realised losses of a calendar day reach max_daily_loss, no     *)
(* trade is opened on a candle of that day (DSL_SPEC Sec 13).              *)
DailyLossHaltsEntries ==
    [][\A s \in Symbols :
        ~Open(s) /\ Open(s)' =>
            lossOn[Day(trades'[s].time)] * 100 < MaxDailyLossPct * StartingCash]_vars

(* After a trade on a symbol closes, at least cooldown.bars bars of the    *)
(* strategy's timeframe pass before the symbol is entered again            *)
(* (DSL_SPEC Sec 11).                                                      *)
CooldownRespected ==
    [][\A s \in Symbols :
        ~Open(s) /\ Open(s)' /\ rows[s].exitTime # NoTime =>
            trades'[s].time - rows[s].exitTime >= CooldownBars * TfSlots]_vars

(* An intraday trade is never carried into the next day while the runtime  *)
(* processes candles: force_square_off always fires (DSL_SPEC Sec 15).     *)
FlatOvernight ==
    Intraday /\ state # "stopped" =>
        \A s \in Symbols : Open(s) => Day(trades[s].time) = Day(now)

(* The strategy candle that this step hands to the runtime closes here: the *)
(* minute itself, or the bucket the minute closes (Aggregate).             *)
HandedClose(s) == IF TfSlots = 1 THEN ltp'[s] ELSE bucket[s].close

(* A strategy candle that closes at or under the stop of an open trade, the *)
(* trailing stop included, closes that trade, also when the runtime is     *)
(* paused, the market is shut, the indicators are still warming up or the  *)
(* trade has expired (DSL_SPEC Sec 15: "keep monitoring"): nothing earlier *)
(* in the handler or in the exit tree masks the stop.                      *)
StopHonoured ==
    [][\A s \in Symbols :
        (/\ Open(s) /\ state # "stopped"
         /\ minute'[s] # minute[s] /\ barIndex' # barIndex
         /\ \/ HasLeaf("stop_loss") /\ StopLossHit(trades[s], HandedClose(s))
            \/ HasLeaf("trailing_sl") /\ TrailingSLHit(trades[s], HandedClose(s)))
        => ~Open(s)']_vars
=============================================================================
