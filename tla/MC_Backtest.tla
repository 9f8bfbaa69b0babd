----------------------------- MODULE MC_Backtest -----------------------------
(* Documents, candles and timeframes for TLC.                              *)
EXTENDS Backtest, TLC

Fine == "5m"
Coarse == "15m"
MCNoExit == -1
MCMinutes == (Fine :> 1) @@ (Coarse :> 3)

Shape(o, h, l, c, v) == [open |-> o, high |-> h, low |-> l, close |-> c, volume |-> v]
Rising == Shape(100, 107, 99, 106, 4)
Falling == Shape(104, 105, 93, 94, 2)
MCShapes == {Rising, Falling}
-----------------------------------------------------------------------------
(* Raw trees: a leaf, a node over leaves, a leaf below a "not".            *)
Test(indicator, operator, value) == [indicator |-> indicator, operator |-> operator, value |-> value]
Windows == [period |-> 2, lookback |-> 2, fast |-> 1, slow |-> 2, signal |-> 2, k |-> 2]
One(leaf) == (1 :> leaf)
Joined(kind, leaves) ==
    [n \in 1 .. Len(leaves) + 1 |->
        IF n = 1 THEN (kind :> [i \in 1 .. Len(leaves) |-> i + 1]) ELSE leaves[n - 1]]

Plan ==
    [version |-> "1.2", type |-> "intraday", direction |-> "long", timeframe |-> Fine,
     symbols |-> <<"NIFTYBEES">>, lowercase |-> {}, entry |-> One(Test("close", ">", 99)),
     exit |-> Joined("any", <<[stop_loss |-> 5], [take_profit |-> 5], [trailing_sl |-> 9]>>),
     exitPriority |-> <<>>, confirmation |-> "close", sizing |-> [type |-> "fixed_pct", value |-> 50],
     session |-> TRUE, forceSquareOff |-> "15:15", maxDays |-> 0, maxPositions |-> 1, portfolio |-> None,
     benchmark |-> "NIFTYBEES", costModel |-> "zero"]

(* Every indicator at once.                                                *)
Gauge(name) == [indicator |-> name, operator |-> CHOOSE op \in IndicatorOperators(name) : TRUE,
                value |-> 1, params |-> Windows, pattern_name |-> "doji"]
Names == <<"price", "close", "open", "high", "low", "ema", "ema_cross", "sma", "vwap", "rsi", "stochastic_rsi",
           "macd", "adx", "atr", "cci", "mfi", "roc", "obv", "supertrend", "bollinger_bands",
           "donchian_channel", "highest_high", "lowest_low", "volume", "prev_high", "prev_low", "gap_up",
           "gap_down", "support", "resistance", "pattern">>
Everything == [Plan EXCEPT !.entry = Joined("any", [i \in 1 .. Len(Names) |-> Gauge(Names[i])])]

(* A fine entry gated by a coarse trend, compared with an average.         *)
Gated == [Plan EXCEPT
    !.entry = (1 :> [all |-> <<2, 4>>]) @@ (2 :> [not |-> 3])
              @@ (3 :> [indicator |-> "close", operator |-> "<", value |-> 95, timeframe |-> Coarse])
              @@ (4 :> [indicator |-> "close", operator |-> ">=",
                        compare_to |-> [indicator |-> "sma", params |-> [period |-> 2]]]),
    !.sizing = [type |-> "risk_based", value |-> 1]]

(* A coarse strategy gated by a fine candle.                               *)
Coarser == [Plan EXCEPT !.timeframe = Coarse,
                        !.entry = One([indicator |-> "close", operator |-> ">", value |-> 99, timeframe |-> Fine])]

Churn == [Plan EXCEPT !.type = "swing", !.maxDays = 1, !.entry = One(Test("close", ">", 1)),
                      !.exit = Joined("any", <<Test("high", ">", 1), [stop_loss |-> 3]>>)]
Unstopped == [Plan EXCEPT !.exit = One([take_profit |-> 5]), !.sizing = [type |-> "risk_based", value |-> 1]]
Unknown == [Plan EXCEPT !.entry = One(Test("tsi", ">", 1))]
ComparesUnknown == [Plan EXCEPT
    !.entry = One([indicator |-> "close", operator |-> ">", compare_to |-> [indicator |-> "tsi"]])]
Overlapping == [Plan EXCEPT
    !.entry = One([indicator |-> "sma", operator |-> ">", value |-> 99, period |-> 1, params |-> [period |-> 2]])]
Malformed == [Plan EXCEPT !.entry = One([indicator |-> "close", operator |-> ">", malformed |-> {"indicator"}])]
NullTree == [Plan EXCEPT !.exit = One([all |-> <<>>, null |-> TRUE])]

MCDocuments == {Everything, Gated, Coarser, Churn, Unstopped, Unknown, ComparesUnknown, Overlapping, Malformed, NullTree}
=============================================================================
