--------------------------- MODULE IndicatorCache ---------------------------
(* The registry of indicator factories and the shared cache                *)
(* (src/engine/internal/indicators/indicator.go, cache.go): one instance   *)
(* per (symbol, timeframe, indicator, params), updated once per candle of  *)
(* its symbol and timeframe.  A cache is a record of functions over keys.  *)
EXTENDS Trend, FiniteSets

Known == {"price", "close", "open", "high", "low", "ema", "ema_cross", "sma", "vwap", "rsi",
          "stochastic_rsi", "macd", "adx", "atr", "cci", "mfi", "roc", "obv", "supertrend",
          "bollinger_bands", "donchian_channel", "highest_high", "lowest_low", "volume",
          "prev_high", "prev_low", "gap_up", "gap_down", "support", "resistance", "pattern"}

(* The params, whatever their order, and the pattern's name.               *)
BuildParamsKey(params, patternName) == [params |-> params, pattern |-> patternName]

Key(symbol, timeframe, indicator, params, patternName) ==
    [symbol |-> symbol, timeframe |-> timeframe, indicator |-> indicator,
     series |-> BuildParamsKey(params, patternName)]

New(name, params, patternName) ==
    CASE name \in {"price", "close"} -> newPrice("close")
      [] name \in {"open", "high", "low"} -> newPrice(name)
      [] name = "prev_high" -> newPrevLevel(TRUE)
      [] name = "prev_low" -> newPrevLevel(FALSE)
      [] name = "gap_up" -> newGap(params, TRUE)
      [] name = "gap_down" -> newGap(params, FALSE)
      [] name = "ema" -> newEMA(params)
      [] name = "ema_cross" -> newEMACross(params)
      [] name = "macd" -> newMACD(params)
      [] name = "sma" -> newSMA(params)
      [] name = "bollinger_bands" -> newBollinger(params)
      [] name = "highest_high" -> newHighestHigh(params)
      [] name = "lowest_low" -> newLowestLow(params)
      [] name = "donchian_channel" -> newDonchian(params)
      [] name = "support" -> newSupportResistance(params, TRUE)
      [] name = "resistance" -> newSupportResistance(params, FALSE)
      [] name = "rsi" -> newRSI(params)
      [] name = "stochastic_rsi" -> newStochRSI(params)
      [] name = "roc" -> newROC(params)
      [] name = "cci" -> newCCI(params)
      [] name = "mfi" -> newMFI(params)
      [] name = "atr" -> newATR(params)
      [] name = "adx" -> newADX(params)
      [] name = "supertrend" -> newSuperTrend(params)
      [] name = "volume" -> newVolume(params)
      [] name = "obv" -> newOBV
      [] name = "vwap" -> newVWAP
      [] name = "pattern" -> newPattern(patternName)

Update(name, s, c) ==
    CASE name \in {"price", "close", "open", "high", "low"} -> Price(s, c)
      [] name \in {"prev_high", "prev_low"} -> PrevLevel(s, c)
      [] name \in {"gap_up", "gap_down"} -> Gap(s, c)
      [] name = "ema" -> EMA(s, c)
      [] name = "ema_cross" -> EMACross(s, c)
      [] name = "macd" -> MACD(s, c)
      [] name = "sma" -> SMA(s, c)
      [] name = "bollinger_bands" -> Bollinger(s, c)
      [] name = "highest_high" -> HighestHigh(s, c)
      [] name = "lowest_low" -> LowestLow(s, c)
      [] name = "donchian_channel" -> Donchian(s, c)
      [] name \in {"support", "resistance"} -> SupportResistance(s, c)
      [] name = "rsi" -> RSI(s, c)
      [] name = "stochastic_rsi" -> StochRSI(s, c)
      [] name = "roc" -> ROC(s, c)
      [] name = "cci" -> CCI(s, c)
      [] name = "mfi" -> MFI(s, c)
      [] name = "atr" -> ATR(s, c)
      [] name = "adx" -> ADX(s, c)
      [] name = "supertrend" -> SuperTrend(s, c)
      [] name = "volume" -> Volume(s, c)
      [] name = "obv" -> OBV(s, c)
      [] name = "vwap" -> VWAP(s, c)
      [] name = "pattern" -> Pattern(s, c)
-----------------------------------------------------------------------------
EmptyMap == [k \in {} |-> 0]
NewCache == [instances |-> EmptyMap, latest |-> EmptyMap, lastUpdate |-> EmptyMap, refCount |-> EmptyMap]

Bound(map, k) == k \in DOMAIN map
Put(map, k, v) == [j \in DOMAIN map \cup {k} |-> IF j = k THEN v ELSE map[j]]

(* An unknown indicator is an error and leaves the cache as it was.        *)
CanSubscribe(cache, key) == Bound(cache.instances, key) \/ key.indicator \in Known

Subscribe(cache, key) ==
    LET fresh == New(key.indicator, key.series.params, key.series.pattern)
    IN  [cache EXCEPT
            !.instances = IF Bound(@, key) THEN @ ELSE Put(@, key, fresh),
            !.refCount = Put(@, key, IF Bound(@, key) THEN @[key] + 1 ELSE 1)]

CacheOnCandleClose(cache, symbol, timeframe, c, now) ==
    LET hit == {k \in DOMAIN cache.instances : k.symbol = symbol /\ k.timeframe = timeframe}
        out == [k \in hit |-> Update(k.indicator, cache.instances[k], f64(c))]
    IN  [cache EXCEPT
            !.instances = [k \in DOMAIN @ |-> IF k \in hit THEN out[k].state ELSE @[k]],
            !.latest = [k \in DOMAIN @ \cup hit |-> IF k \in hit THEN out[k].signal ELSE @[k]],
            !.lastUpdate = [k \in DOMAIN @ \cup hit |-> IF k \in hit THEN now ELSE @[k]]]

(* A series that was never updated has no value.                           *)
CanGet(cache, key) == Bound(cache.latest, key)
Get(cache, key) == cache.latest[key]
=============================================================================
