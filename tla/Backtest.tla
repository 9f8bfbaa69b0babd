------------------------------- MODULE Backtest -------------------------------
(* One backtest request (src/engine/internal/api/backtest.go handleBacktest, *)
(* src/engine/internal/backtest/runner.go Run): the document is parsed and *)
(* validated, the candles of all timeframes are merged by the time they    *)
(* carry, each one updates the indicator cache and, on the strategy's own  *)
(* timeframe, the runtime; the report is computed from the trades.         *)
(* Session hours, risk gates, sizing and fills are TradeLifecycle's: here  *)
(* whether an entry is admitted and an exit forced is a choice.            *)
EXTENDS Validation, Analytics

CONSTANTS Timeframes,    \* the timeframes a request may carry
          Minutes,       \* [Timeframes -> Nat \ {0}]
          Horizon,       \* minutes of history
          DayLength,     \* minutes of a day
          Shapes,        \* the candles: open, high, low, close, volume
          Documents,     \* the strategy documents
          CostModels,    \* the names cost.Get knows
          Capital, TradeCost, Benchmark

NoTurn == ""

(* A condition tree came out of a JSON document: its nodes are finitely    *)
(* many and numbered from the root, kids after their parent.               *)
IsTree(rawTree) ==
    /\ IsFiniteSet(DOMAIN rawTree) /\ DOMAIN rawTree \subseteq Nat \ {0}
    /\ rawTree # Nil => 1 \in DOMAIN rawTree
    /\ \A n \in DOMAIN rawTree : KidsOf(rawTree[n]) \in Seq({m \in DOMAIN rawTree : m > n})

ASSUME BacktestAssumption ==
    /\ Minutes \in [Timeframes -> Nat \ {0}] /\ NoTurn \notin Timeframes
    /\ \A a, b \in Timeframes : Minutes[a] = Minutes[b] => a = b
    /\ Horizon \in Nat /\ DayLength \in Nat \ {0}
    /\ \A c \in Shapes : {c.open, c.high, c.low, c.close, c.volume} \subseteq Int
    /\ Capital \in Nat \ {0} /\ {TradeCost, NoExit} \subseteq Int

ASSUME DocumentsAssumption ==
    \A d \in Documents : {"entry", "exit"} \subseteq DOMAIN d /\ IsTree(d.entry) /\ IsTree(d.exit)

(* A window is a whole number of candles (indicator.go paramInt).          *)
WindowParams == {"period", "lookback", "k"}

WholeParams(params) == \A k \in WindowParams : Has(params, k) => params[k] \in Int

WholeWindows(raw) ==
    /\ \A k \in WindowParams : Has(raw, k) /\ WellFormed(raw, k) => raw[k] \in Int
    /\ Has(raw, "params") /\ WellFormed(raw, "params") => WholeParams(raw.params)

WindowsAreWhole(rawTree) ==
    \A n \in DOMAIN rawTree :
        /\ WholeWindows(rawTree[n])
        /\ Has(rawTree[n], "compare_to") /\ WellFormed(rawTree[n], "compare_to") =>
              WholeWindows(rawTree[n].compare_to)

ASSUME WindowsAssumption == \A d \in Documents : WindowsAreWhole(d.entry) /\ WindowsAreWhole(d.exit)

(* The candles of a market, as builder.go makes them of ticks: nothing     *)
(* checks that those of the vendor are.                                    *)
ASSUME CandlesAssumption ==
    \A c \in Shapes : {c.open, c.high, c.low, c.close, c.volume} \subseteq Nat /\ c.low <= c.high

VARIABLES phase,         \* "requested", "replaying", "done" or "failed"
          document, supplied,
          labels,        \* which end of a candle the times of the request are
          strategy,      \* the parsed document
          cache,
          replayed,      \* [Timeframes -> Seq(candle)], what was replayed
          turn,          \* the timeframe of the last candle replayed, NoTurn at first
          tradingDay, trades, report

vars == <<phase, document, supplied, labels, strategy, cache, replayed, turn, tradingDay, trades, report>>

NoReport == [metrics |-> NoMetrics, curve |-> <<>>, review |-> None]

Init ==
    /\ phase = "requested"
    /\ document \in Documents
    /\ supplied \in {tfs \in SUBSET Timeframes : tfs # {}}
    /\ labels \in {"open", "close"}
    /\ strategy = None
    /\ cache = NewCache
    /\ replayed = [tf \in Timeframes |-> <<>>]
    /\ turn = NoTurn
    /\ tradingDay = -1
    /\ trades = <<>>
    /\ report = NoReport
-----------------------------------------------------------------------------
(* The request is checked and the runtime subscribes to its series.        *)

symbolOf(s) == s.symbols[1]

LeavesOf(s, symbol) ==
    collectLeaves(s.entry, symbol, s.timeframe) \cup collectLeaves(s.exit, symbol, s.timeframe)

RequiredTimeframes(s) == {s.timeframe} \cup {key.timeframe : key \in LeavesOf(s, symbolOf(s))}

SeriesOf(s) == UNION {LeavesOf(s, s.symbols[i]) : i \in 1 .. Len(s.symbols)}

Runnable(s) ==
    /\ Valid(s)
    /\ s.timeframe \in supplied
    /\ s.costModel \in CostModels
    /\ \A key \in SeriesOf(s) : CanSubscribe(NewCache, key)
    /\ RequiredTimeframes(s) \subseteq supplied

(* One Subscribe per series, on which the others have no effect.           *)
Subscribed(keys) ==
    [NewCache EXCEPT
        !.instances = [key \in keys |-> Subscribe(NewCache, key).instances[key]],
        !.refCount = [key \in keys |-> Subscribe(NewCache, key).refCount[key]]]

Refuse ==
    /\ phase = "requested"
    /\ Parses(document) => \E flatLast \in SUBSET {"period"} : ~Runnable(Parse(document, flatLast))
    /\ phase' = "failed"
    /\ UNCHANGED <<document, supplied, labels, strategy, cache, replayed, turn, tradingDay, trades, report>>

Accept ==
    /\ phase = "requested"
    /\ Parses(document)
    /\ \E flatLast \in SUBSET {"period"} :
        /\ Runnable(Parse(document, flatLast))
        /\ strategy' = Parse(document, flatLast)
        /\ cache' = Subscribed(SeriesOf(strategy'))
    /\ phase' = "replaying"
    /\ UNCHANGED <<document, supplied, labels, replayed, turn, tradingDay, trades, report>>
-----------------------------------------------------------------------------
(* The merge: the least time first, of equal times the finest timeframe.   *)
(* The time of a candle is what the request says (api/backtest.go:96).     *)

CloseOf(tf, i) == i * Minutes[tf]
Label(tf, i) == IF labels = "close" THEN CloseOf(tf, i) ELSE CloseOf(tf, i - 1)

Remaining == {tf \in supplied : CloseOf(tf, Len(replayed[tf]) + 1) <= Horizon}
LabelOfNext(tf) == Label(tf, Len(replayed[tf]) + 1)

Due_CoarsestFirst(tf) ==
    \A other \in Remaining :
        \/ LabelOfNext(tf) < LabelOfNext(other)
        \/ LabelOfNext(tf) = LabelOfNext(other) /\ Minutes[tf] >= Minutes[other]

Due(tf) ==
    \A other \in Remaining :
        \/ LabelOfNext(tf) < LabelOfNext(other)
        \/ LabelOfNext(tf) = LabelOfNext(other) /\ Minutes[tf] <= Minutes[other]
-----------------------------------------------------------------------------
(* The runtime on a candle of its own timeframe.                           *)

Held == {i \in DOMAIN trades : trades[i].state \in {"ACTIVE", "EXPIRED"}}

Context(newCache, c, trade) ==
    [cache |-> newCache, symbol |-> symbolOf(strategy), timeframe |-> strategy.timeframe,
     price |-> c.close, entry |-> trade.entryPrice, hwm |-> trade.highWaterMark]

NoTrade == [entryPrice |-> 0, highWaterMark |-> 0]

Opened(c, time) ==
    [state |-> "ACTIVE", entryPrice |-> c.close, highWaterMark |-> c.close, entryTime |-> time,
     exitTime |-> NoExit, holdingDays |-> 0, pnl |-> 0]

defaultExitPriority == <<"stop_loss", "trailing_sl", "take_profit", "signal">>

(* The first of the priorities whose level is hit.                         *)
attributeExitReason(ctx) ==
    LET exit == strategy.exit
        hit == [stop_loss |-> \E p \in {extractShorthand(exit, "stopLoss")} : Given(p) /\ StopLossHit(ctx, p[1]),
                trailing_sl |-> \E p \in {extractShorthand(exit, "trailingSL")} : Given(p) /\ TrailingSLHit(ctx, p[1]),
                take_profit |-> \E p \in {extractShorthand(exit, "takeProfit")} : Given(p) /\ TakeProfitHit(ctx, p[1]),
                signal |-> FALSE]
        order == IF strategy.exitPriority = <<>> THEN defaultExitPriority ELSE strategy.exitPriority
        first == {i \in DOMAIN order : hit[order[i]] /\ \A j \in 1 .. i - 1 : ~hit[order[j]]}
    IN  IF first = {} THEN "signal" ELSE order[CHOOSE i \in first : TRUE]

stateForReason(reason) ==
    IF reason \in {"stop_loss", "trailing_sl"} THEN "STOPPED"
    ELSE IF reason = "take_profit" THEN "TARGET_HIT" ELSE "CLOSED"

closeTrade(trade, c, time, reason) ==
    [trade EXCEPT !.state = stateForReason(reason), !.exitTime = time,
                  !.pnl = c.close - trade.entryPrice - TradeCost]

tryEntry(newCache, c, time) ==
    /\ Held = {}
    /\ \/ /\ strategy.direction # "short"
          /\ Evaluate(strategy.entry, Context(newCache, c, NoTrade)) = "true"
          /\ trades' = Append(trades, Opened(c, time))
       \/ trades' = trades     \* no signal, or an entry that is not admitted

manageOpenTrade(newCache, c, time, newDay) ==
    \E i \in Held :
        LET trade == [trades[i] EXCEPT !.highWaterMark = max2(@, c.high), !.holdingDays = @ + newDay]
            ctx == Context(newCache, c, trade)
            verdict == Evaluate(strategy.exit, ctx)
            overdue == strategy.type = "swing" /\ strategy.maxDays > 0 /\ trade.holdingDays >= strategy.maxDays
        IN  \/ /\ strategy.type = "intraday"
               /\ trades' = [trades EXCEPT ![i] = closeTrade(trade, c, time, "forced")]
            \/ /\ verdict = "true"
               /\ trades' = [trades EXCEPT ![i] = closeTrade(trade, c, time, attributeExitReason(ctx))]
            \/ /\ verdict = "false"
               /\ trades' = [trades EXCEPT ![i] = IF overdue THEN [trade EXCEPT !.state = "EXPIRED"] ELSE trade]
            \/ /\ verdict = "error"
               /\ trades' = [trades EXCEPT ![i] = trade]

Replay(tf) ==
    LET time == Label(tf, Len(replayed[tf]) + 1)
        day == time \div DayLength
    IN  /\ phase = "replaying"
        /\ tf \in Remaining
        /\ Due(tf)
        /\ \E shape \in Shapes :
            LET c == [open |-> shape.open, high |-> shape.high, low |-> shape.low, close |-> shape.close,
                      volume |-> shape.volume, day |-> day]
            IN  /\ cache' = CacheOnCandleClose(cache, symbolOf(strategy), tf, c, time)
                /\ replayed' = [replayed EXCEPT ![tf] = Append(@, c)]
                /\ IF tf = strategy.timeframe
                   THEN /\ tradingDay' = day
                        /\ \/ tryEntry(cache', c, time)
                           \/ manageOpenTrade(cache', c, time, IF day = tradingDay THEN 0 ELSE 1)
                   ELSE UNCHANGED <<tradingDay, trades>>
        /\ turn' = tf
        /\ UNCHANGED <<phase, document, supplied, labels, strategy, report>>
-----------------------------------------------------------------------------
Finish ==
    /\ phase = "replaying"
    /\ Remaining = {}
    /\ phase' = "done"
    /\ report' = [metrics |-> Compute(trades, Capital, Benchmark),
                  curve |-> EquityCurve(trades, Capital),
                  review |-> <<GenerateAIReview(trades, Cardinality(Held), Capital, Benchmark)>>]
    /\ UNCHANGED <<document, supplied, labels, strategy, cache, replayed, turn, tradingDay, trades>>

Next == Refuse \/ Accept \/ Finish \/ \E tf \in Timeframes : Replay(tf)

Spec == Init /\ [][Next]_vars
-----------------------------------------------------------------------------
(* PROPERTIES                                                              *)

Replaying == phase \in {"replaying", "done"}

(* The last n elements of a sequence, all of them when there are fewer.    *)
LastOf(xs, n) == SubSeq(xs, max2(1, Len(xs) - n + 1), Len(xs))
Column(cs, field) == [i \in 1 .. Len(cs) |-> cs[i][field]]
Typicals(cs) == [i \in 1 .. Len(cs) |-> Typical(cs[i])]
Elements(xs) == {xs[i] : i \in DOMAIN xs}
Highest(xs) == CHOOSE m \in Elements(xs) : \A x \in Elements(xs) : x <= m
Lowest(xs) == CHOOSE m \in Elements(xs) : \A x \in Elements(xs) : x >= m
Average(xs) == IF xs = <<>> THEN 0 ELSE SumOver(xs) \div Len(xs)

(* Every indicator that depends on the last candles only, or on sums over  *)
(* the history.                                                            *)
Windowed == {"close", "price", "high", "low", "open", "sma", "highest_high", "lowest_low", "donchian_channel",
             "support", "resistance", "roc", "obv", "vwap", "volume", "cci", "bollinger_bands",
             "prev_high", "prev_low", "gap_up", "gap_down"}

Oscillators == {"rsi", "stochastic_rsi", "mfi", "adx"}

PeriodOf(indicator, params) ==
    IF indicator \in {"highest_high", "lowest_low", "support", "resistance"} THEN param(params, "lookback", 20)
    ELSE param(params, "period", IF indicator = "roc" THEN 12 ELSE IF indicator \in Oscillators THEN 14 ELSE 20)

(* The percentage by which b exceeds a.                                    *)
ChangeOf(a, b) == ((b - a) * 100 * Unit) \div a

Deviation(xs) == Average([i \in 1 .. Len(xs) |-> Abs(xs[i] - Average(xs))])
Variance(xs) == Average([i \in 1 .. Len(xs) |-> (xs[i] - Average(xs)) * (xs[i] - Average(xs))])

ChannelIndexOf(tps, spread) ==
    IF spread = 0 THEN 0 ELSE ((tps[Len(tps)] - Average(tps)) * 1000 * Unit) \div (15 * spread)

PercentB(price, middle, width) ==
    IF width = 0 THEN 0 ELSE ((price - (middle - width)) * Unit) \div (2 * width)

(* The volume with the sign of the change of the close.                    *)
Moves(h) ==
    [i \in 1 .. Len(h) - 1 |->
        IF h[i + 1].close > h[i].close THEN h[i + 1].volume
        ELSE IF h[i + 1].close < h[i].close THEN -h[i + 1].volume ELSE 0]

VolumesOf(h, day) == [i \in 1 .. Len(h) |-> IF h[i].day = day THEN h[i].volume ELSE 0]
TradedOf(h, day) == [i \in 1 .. Len(h) |-> IF h[i].day = day THEN Typical(h[i]) * h[i].volume ELSE 0]
ScaledVolume(c) == c.volume * Unit
ScaledVolumes(h) == [i \in 1 .. Len(h) |-> ScaledVolume(h[i])]

(* What such an indicator is of the whole history h of its timeframe.      *)
Textbook(indicator, params, h) ==
    LET n == max2(1, PeriodOf(indicator, params))
        now == Len(h)
        past == SubSeq(h, 1, now - 1)
        closes == LastOf(Column(h, "close"), n)
        highs == LastOf(Column(h, "high"), n)
        lows == LastOf(Column(h, "low"), n)
        tps == LastOf(Typicals(h), n)
        usual == Average(LastOf(ScaledVolumes(past), n))
        width == param(params, "std_dev", 2) * Sqrt(Variance(closes))
        today == h[now].day
        paid == SumOver(VolumesOf(h, today))
    IN  CASE indicator \in {"price", "close"} -> h[now].close
          [] indicator \in {"high", "low", "open"} -> h[now][indicator]
          [] indicator = "sma" -> Average(closes)
          [] indicator = "highest_high" -> Highest(highs)
          [] indicator = "lowest_low" -> Lowest(lows)
          [] indicator = "donchian_channel" -> (Highest(highs) + Lowest(lows)) \div 2
          [] indicator = "support" -> IF past = <<>> THEN 0 ELSE Lowest(LastOf(Column(past, "low"), n))
          [] indicator = "resistance" -> IF past = <<>> THEN 0 ELSE Highest(LastOf(Column(past, "high"), n))
          [] indicator = "roc" ->
                IF now <= n \/ h[now - n].close = 0 THEN 0 ELSE ChangeOf(h[now - n].close, h[now].close)
          [] indicator = "obv" -> Unit * SumOver(Moves(h))
          [] indicator = "vwap" -> IF paid > 0 THEN SumOver(TradedOf(h, today)) \div paid ELSE 0
          [] indicator = "volume" -> IF usual > 0 THEN (ScaledVolume(h[now]) * 100 * Unit) \div usual ELSE 0
          [] indicator = "cci" -> ChannelIndexOf(tps, Deviation(tps))
          [] indicator = "bollinger_bands" -> PercentB(h[now].close, Average(closes), width)
          [] indicator = "prev_high" -> IF past = <<>> THEN 0 ELSE h[now - 1].high
          [] indicator = "prev_low" -> IF past = <<>> THEN 0 ELSE h[now - 1].low
          [] indicator \in {"gap_up", "gap_down"} ->
                IF past = <<>> \/ h[now - 1].close = 0 THEN 0 ELSE ChangeOf(h[now - 1].close, h[now].open)

(* What the indicators of a timeframe have been given.                     *)
History(tf) == [i \in 1 .. Len(replayed[tf]) |-> f64(replayed[tf][i])]

(* The value v of an indicator is what the whole history h says, and an    *)
(* oscillator is in 0 .. 100 unless its period, which nothing validates,   *)
(* is none.                                                                *)
Reads(indicator, params, h, v) ==
    /\ indicator \in Windowed => v = Textbook(indicator, params, h)
    /\ indicator \in Oscillators /\ PeriodOf(indicator, params) > 0 => v \in 0 .. 100 * Unit

(* ReadingsSound: after every candle each indicator, although it keeps only *)
(* a ring buffer and running sums, reads what the whole history of its own *)
(* timeframe says (indicators/*.go).                                       *)
ReadingsSound ==
    \A key \in DOMAIN cache.latest :
        Reads(key.indicator, key.series.params, History(key.timeframe), cache.latest[key].value)

(* LookAheadExact: when the strategy's own candle closes, the cache has    *)
(* seen of every other timeframe exactly the candles that had closed       *)
(* Ahead minutes later, or with it if they are shorter: none beyond and    *)
(* none missing. Closing times put no candle of the future before the      *)
(* strategy (runner.go:53 "mirroring the live pipeline's guarantee");      *)
(* opening times, which the callers send, show it a longer candle by the   *)
(* difference of the lengths too early and a shorter one as much too late. *)
Ahead(tf) == IF labels = "close" THEN 0 ELSE Minutes[tf] - Minutes[turn]

LookAheadExact ==
    Replaying /\ turn # NoTurn /\ turn = strategy.timeframe =>
        LET now == CloseOf(turn, Len(replayed[turn]))
            Past(tf, i) ==
                \/ CloseOf(tf, i) < now + Ahead(tf)
                \/ CloseOf(tf, i) = now + Ahead(tf) /\ Minutes[tf] < Minutes[turn]
        IN  \A tf \in supplied \ {turn} :
                /\ \A i \in 1 .. Len(replayed[tf]) : Past(tf, i)
                /\ tf \in Remaining => ~Past(tf, Len(replayed[tf]) + 1)

(* The classical value of a tree, its leaves' values given.                *)
Holds(tree, leaf) ==
    LET holds[n \in DOMAIN tree] ==
            \/ tree[n].kind = "all" /\ \A i \in DOMAIN tree[n].kids : holds[tree[n].kids[i]]
            \/ tree[n].kind = "any" /\ \E i \in DOMAIN tree[n].kids : holds[tree[n].kids[i]]
            \/ tree[n].kind = "not" /\ ~holds[tree[n].kids[1]]
            \/ tree[n].kind = "rule" /\ leaf[n]
    IN  holds[1]

(* Every way to give the leaves without a reading a value.                 *)
Completions(known) ==
    LET missing == {n \in DOMAIN known : known[n] = "error"}
    IN  {[n \in DOMAIN known |-> IF n \in missing THEN guess[n] ELSE known[n] = "true"] : guess \in [missing -> BOOLEAN]}

LastCandle == replayed[strategy.timeframe][Len(replayed[strategy.timeframe])]

(* NoTradeOnMissingData: a trade is opened only when the entry tree holds   *)
(* whatever the series that are still warming up would say (condition.go   *)
(* EvaluateNode: an error is not false, and a "not" does not turn it true). *)
NoTradeOnMissingData ==
    [][Len(trades') > Len(trades) =>
        LET consulted == LeafValues(strategy.entry, Context(cache', LastCandle', NoTrade))
        IN  \A leaf \in Completions(consulted) : Holds(strategy.entry, leaf)]_vars

(* LeavesResolve: once each timeframe the strategy names has had a candle, *)
(* no leaf of its trees and no series it compares with is "still warming   *)
(* up" (runtime.go collectLeaves subscribes what resolver.go reads), and a *)
(* risk-based strategy has the stop its sizing needs.                      *)
LeavesResolve ==
    Replaying =>
        /\ (\A tf \in RequiredTimeframes(strategy) : replayed[tf] # <<>>) =>
            \A rule \in {r \in Rules(strategy.entry) \cup Rules(strategy.exit) : ~IsShorthand(r)} :
                /\ CanGet(cache, LeafKey(rule, symbolOf(strategy), strategy.timeframe))
                /\ Given(rule.compareTo) => CanGet(cache, RefKey(rule, symbolOf(strategy), strategy.timeframe))
        /\ strategy.sizing.type = "risk_based" =>
            Given(extractShorthand(strategy.exit, "stopLoss")) \/ Given(extractShorthand(strategy.exit, "trailingSL"))

(* MetricsExact: the report of a backtest agrees with its trades: the      *)
(* drawdown of the one pass is the worst fall, in percent, of a point of   *)
(* the curve from the highest point before it, the curve ends at the       *)
(* capital plus what the completed trades gained, every completed trade is *)
(* a point of it and every other one is held (analytics/metrics.go).       *)
MetricsExact ==
    phase = "done" =>
        LET curve == report.curve
            fallen == {p \in (DOMAIN curve) \X (DOMAIN curve) :
                          /\ p[1] <= p[2]
                          /\ \A k \in 1 .. p[2] : curve[k].equity <= curve[p[1]].equity}
            falls == {((curve[p[1]].equity - curve[p[2]].equity) * 100) \div curve[p[1]].equity : p \in fallen}
            completed == CompletedOf(trades)
        IN  /\ report.metrics.drawdown \in falls /\ \A fall \in falls : fall <= report.metrics.drawdown
            /\ Len(curve) = Len(completed) + 1
            /\ curve[Len(curve)].equity - Capital = SumOver(PnLs(completed))
            /\ report.metrics.gain = curve[Len(curve)].equity - Capital
            /\ report.metrics.totalTrades + Cardinality(Held) = Len(trades)
=============================================================================
