----------------------------- MODULE Indicators -----------------------------
(* The streaming indicators of src/engine/internal/indicators: one record of *)
(* state per instance and one update per closed candle, which returns the  *)
(* new state and the Signal the cache keeps.  float64 values are integers  *)
(* in units of 1/Unit; quotients and square roots are rounded down.  Flags *)
(* is the set of flags that are true.                                      *)
EXTENDS Integers, Sequences

CONSTANT Unit        \* steps per 1.0 of the values
ASSUME UnitAssumption == Unit \in Nat \ {0}

INSTANCE Ring

Abs(x) == IF x < 0 THEN -x ELSE x
max2(a, b) == IF a > b THEN a ELSE b
min2(a, b) == IF a < b THEN a ELSE b
Sqrt(n) == CHOOSE r \in 0 .. n : r * r <= n /\ n < (r + 1) * (r + 1)

(* The sum of a sequence of numbers.                                       *)
SumOver(f) == LET total[i \in 0 .. Len(f)] == IF i = 0 THEN 0 ELSE total[i - 1] + f[i]
              IN  total[Len(f)]

Signal(v, p, flags) == [value |-> v, prev |-> p, flags |-> flags]
Out(s, signal) == [state |-> s, signal |-> signal]
Raise(name, raised) == IF raised THEN {name} ELSE {}
param(params, key, def) == IF key \in DOMAIN params THEN params[key] ELSE def

(* What most indicators return: the value, the value before it, no flags.  *)
Plain(s, v) == Out([s EXCEPT !.prev = v], Signal(v, s.prev, {}))

f64(c) == [open |-> c.open * Unit, high |-> c.high * Unit, low |-> c.low * Unit,
           close |-> c.close * Unit, volume |-> c.volume, day |-> c.day]

Typical(c) == (c.high + c.low + c.close) \div 3

(* Wilder's smoothing over a period.                                       *)
Smoothed(avg, x, period) == (avg * (period - 1) + x) \div period
-----------------------------------------------------------------------------
(* ema.go                                                                  *)
newEMAState(period) ==
    [period |-> period, value |-> 0, seeded |-> FALSE, seedSum |-> 0, seedCount |-> 0]

(* A running mean until period values were seen.                           *)
emaUpdate(e, price) ==
    IF e.seeded THEN [e EXCEPT !.value = @ + (2 * (price - @)) \div (e.period + 1)]
    ELSE LET sum == e.seedSum + price
             n == e.seedCount + 1
         IN  [e EXCEPT !.seedSum = sum, !.seedCount = n, !.value = sum \div n, !.seeded = n >= e.period]

(* While seeding, the value itself is returned as the value before it.     *)
emaPrev(before, after) == IF before.seeded THEN before.value ELSE after.value

newEMA(params) == newEMAState(param(params, "period", 20))

EMA(s, c) == LET e == emaUpdate(s, c.close) IN Out(e, Signal(e.value, emaPrev(s, e), {}))

Crossed(a, b, prevA, prevB) ==
    Raise("bullish", prevA <= prevB /\ a > b) \cup Raise("bearish", prevA >= prevB /\ a < b)

newEMACross(params) ==
    [fast |-> newEMAState(param(params, "fast", 20)), slow |-> newEMAState(param(params, "slow", 50)),
     hasPrev |-> FALSE]

EMACross(s, c) ==
    LET f == emaUpdate(s.fast, c.close)
        w == emaUpdate(s.slow, c.close)
        flags == IF s.hasPrev THEN Crossed(f.value, w.value, s.fast.value, s.slow.value) ELSE {}
    IN  Out([fast |-> f, slow |-> w, hasPrev |-> TRUE],
            Signal(f.value - w.value, s.fast.value - s.slow.value, flags))

newMACD(params) ==
    [fast |-> newEMAState(param(params, "fast", 12)), slow |-> newEMAState(param(params, "slow", 26)),
     signal |-> newEMAState(param(params, "signal", 9)), prevMACD |-> 0, hasPrev |-> FALSE]

MACD(s, c) ==
    LET f == emaUpdate(s.fast, c.close)
        w == emaUpdate(s.slow, c.close)
        line == f.value - w.value
        sig == emaUpdate(s.signal, line)
        crossed == IF s.hasPrev THEN Crossed(line, sig.value, s.prevMACD, s.signal.value) ELSE {}
    IN  Out([fast |-> f, slow |-> w, signal |-> sig, prevMACD |-> line, hasPrev |-> TRUE],
            Signal(line, s.prevMACD, crossed \cup Raise("crosses_above", "bullish" \in crossed)
                                             \cup Raise("crosses_below", "bearish" \in crossed)))
-----------------------------------------------------------------------------
(* sma.go, channel.go, volume.go: windows over the last candles.           *)
newWindow(params, key, def) == [r |-> newRing(param(params, key, def)), prev |-> 0]

newSMA(params) == newWindow(params, "period", 20)
SMA(s, c) == LET r == push(s.r, c.close) IN Plain([s EXCEPT !.r = r], mean(r))

newBollinger(params) ==
    [r |-> newRing(param(params, "period", 20)), stdDev |-> param(params, "std_dev", 2)]

Bollinger(s, c) ==
    LET r == push(s.r, c.close)
        m == mean(r)
        squares == [i \in 1 .. r.size |-> (values(r)[i] - m) * (values(r)[i] - m)]
        width == s.stdDev * Sqrt(SumOver(squares) \div r.size)
        percentB == IF width = 0 THEN 0 ELSE ((c.close - (m - width)) * Unit) \div (2 * width)
    IN  Out([s EXCEPT !.r = r],
            Signal(percentB, 0, Raise("price_above_upper", c.close > m + width)
                                \cup Raise("price_below_lower", c.close < m - width)
                                \cup Raise("squeeze", m # 0 /\ 2 * width * 20 < m)))

newHighestHigh(params) == newWindow(params, "lookback", 20)
HighestHigh(s, c) == LET r == push(s.r, c.high) IN Plain([s EXCEPT !.r = r], ringMax(r))

newLowestLow(params) == newWindow(params, "lookback", 20)
LowestLow(s, c) == LET r == push(s.r, c.low) IN Plain([s EXCEPT !.r = r], ringMin(r))

newDonchian(params) ==
    LET r == newRing(param(params, "period", 20))
    IN  [highs |-> r, lows |-> r, hasPrev |-> FALSE]

(* Compared with the channel of the candles before this one.               *)
Donchian(s, c) ==
    LET upper == ringMax(s.highs)
        lower == ringMin(s.lows)
        hs == push(s.highs, c.high)
        ls == push(s.lows, c.low)
        flags == Raise("price_above_upper", c.close > upper) \cup Raise("price_below_lower", c.close < lower)
                 \cup Raise("breakout_up", c.high > upper) \cup Raise("breakout_down", c.low < lower)
    IN  Out([highs |-> hs, lows |-> ls, hasPrev |-> TRUE],
            Signal((ringMax(hs) + ringMin(ls)) \div 2, 0, IF s.hasPrev THEN flags ELSE {}))

newSupportResistance(params, isSupport) ==
    [isSupport |-> isSupport, r |-> newRing(param(params, "lookback", 20)), prev |-> 0]

(* The level is that of the candles before this one, the tolerance 0.3%.   *)
SupportResistance(s, c) ==
    LET level == IF s.isSupport THEN ringMin(s.r) ELSE ringMax(s.r)
        distance == IF s.isSupport THEN c.low - level ELSE level - c.high
        turned == IF s.isSupport THEN c.close > c.open ELSE c.close < c.open
        r == push(s.r, IF s.isSupport THEN c.low ELSE c.high)
    IN  Out([s EXCEPT !.r = r, !.prev = level],
            Signal(level, s.prev, Raise("bounce", level # 0 /\ distance * 1000 <= 3 * level /\ turned)))

(* Volume in percent of the average of the candles before this one.        *)
newVolume(params) == newWindow(params, "period", 20)
Volume(s, c) ==
    LET avg == mean(s.r)
        vol == c.volume * Unit
    IN  Plain([s EXCEPT !.r = push(s.r, vol)], IF avg > 0 THEN (vol * 100 * Unit) \div avg ELSE 0)

newOBV == [obv |-> 0, prevClose |-> 0, hasPrev |-> FALSE]
OBV(s, c) ==
    LET move == IF ~s.hasPrev \/ c.close = s.prevClose THEN 0
                ELSE IF c.close > s.prevClose THEN c.volume ELSE -c.volume
        obv == s.obv + move
    IN  Out([obv |-> obv, prevClose |-> c.close, hasPrev |-> TRUE],
            Signal(obv * Unit, s.obv * Unit, Raise("rising", obv > s.obv) \cup Raise("falling", obv < s.obv)))

(* vwap.go: cumulative since the first candle of the day.                  *)
newVWAP == [day |-> -1, cumPV |-> 0, cumVol |-> 0, prev |-> 0]

VWAP(s, c) ==
    LET fresh == c.day # s.day
        pv == (IF fresh THEN 0 ELSE s.cumPV) + Typical(c) * c.volume
        vol == (IF fresh THEN 0 ELSE s.cumVol) + c.volume
    IN  Plain([s EXCEPT !.day = c.day, !.cumPV = pv, !.cumVol = vol], IF vol > 0 THEN pv \div vol ELSE 0)
-----------------------------------------------------------------------------
(* momentum.go                                                             *)
newRSIState(period) ==
    [period |-> period, prevClose |-> 0, hasPrev |-> FALSE, avgGain |-> 0, avgLoss |-> 0,
     seeded |-> FALSE, gains |-> newRing(period), losses |-> newRing(period), value |-> 50 * Unit]

(* 50 until period changes were seen; 100 when nothing was lost.           *)
rsiValue(avgGain, avgLoss) ==
    IF avgLoss = 0 THEN 100 * Unit ELSE (100 * Unit * avgGain) \div (avgGain + avgLoss)

rsiStep(s, close) ==
    LET change == close - s.prevClose
        gain == max2(change, 0)
        loss == max2(-change, 0)
        gains == push(s.gains, gain)
        losses == push(s.losses, loss)
        seen == [s EXCEPT !.prevClose = close, !.hasPrev = TRUE]
        averaged(avgGain, avgLoss) ==
            [seen EXCEPT !.avgGain = avgGain, !.avgLoss = avgLoss, !.seeded = TRUE,
                         !.value = rsiValue(avgGain, avgLoss)]
    IN  IF ~s.hasPrev THEN seen
        ELSE IF s.seeded
        THEN averaged(Smoothed(s.avgGain, gain, s.period), Smoothed(s.avgLoss, loss, s.period))
        ELSE IF full(gains) THEN [averaged(mean(gains), mean(losses)) EXCEPT !.gains = gains, !.losses = losses]
        ELSE [seen EXCEPT !.gains = gains, !.losses = losses]

newRSI(params) == [rsi |-> newRSIState(param(params, "period", 14)), prev |-> 0]
RSI(s, c) == LET x == rsiStep(s.rsi, c.close) IN Plain([s EXCEPT !.rsi = x], x.value)

newStochRSI(params) ==
    LET period == param(params, "period", 14)
    IN  [rsi |-> newRSIState(period), rsiR |-> newRing(period), kR |-> newRing(param(params, "k", 3)), prev |-> 0]

StochRSI(s, c) ==
    LET x == rsiStep(s.rsi, c.close)
        window == push(s.rsiR, x.value)
        lo == ringMin(window)
        hi == ringMax(window)
        percentK == IF hi = lo THEN 50 * Unit ELSE ((x.value - lo) * 100 * Unit) \div (hi - lo)
        ks == push(s.kR, percentK)
    IN  Plain([s EXCEPT !.rsi = x, !.rsiR = window, !.kR = ks], mean(ks))

newROC(params) == newWindow(params, "period", 12)
ROC(s, c) ==
    LET nAgo == oldest(s.r)
    IN  Plain([s EXCEPT !.r = push(s.r, c.close)],
              IF full(s.r) /\ nAgo # 0 THEN ((c.close - nAgo) * 100 * Unit) \div nAgo ELSE 0)

newCCI(params) == newWindow(params, "period", 20)
CCI(s, c) ==
    LET r == push(s.r, Typical(c))
        meanDev == SumOver([i \in 1 .. r.size |-> Abs(values(r)[i] - mean(r))]) \div r.size
    IN  Plain([s EXCEPT !.r = r],
              IF meanDev = 0 THEN 0 ELSE ((Typical(c) - mean(r)) * 1000 * Unit) \div (15 * meanDev))

newMFI(params) ==
    LET r == newRing(param(params, "period", 14))
    IN  [prevTP |-> 0, hasPrev |-> FALSE, posFlow |-> r, negFlow |-> r, prev |-> 0]

MFI(s, c) ==
    LET tp == Typical(c)
        flow == tp * c.volume
        pos == push(s.posFlow, IF s.hasPrev /\ tp > s.prevTP THEN flow ELSE 0)
        neg == push(s.negFlow, IF s.hasPrev /\ tp < s.prevTP THEN flow ELSE 0)
        mfi == IF neg.sum # 0 THEN (100 * Unit * pos.sum) \div (pos.sum + neg.sum)
               ELSE IF pos.sum > 0 THEN 100 * Unit ELSE 50 * Unit
    IN  Plain([s EXCEPT !.prevTP = tp, !.hasPrev = TRUE, !.posFlow = pos, !.negFlow = neg], mfi)
=============================================================================
