------------------------------- MODULE Trend --------------------------------
(* The indicators of src/engine/internal/indicators that follow the true   *)
(* range (trend.go), the bare prices (price.go) and the shape of the last  *)
(* three candles (pattern.go).                                             *)
EXTENDS Indicators

newATRState(period) ==
    [period |-> period, prevClose |-> 0, hasPrev |-> FALSE, seedR |-> newRing(period),
     seeded |-> FALSE, value |-> 0]

trueRange(a, c) ==
    IF ~a.hasPrev THEN c.high - c.low
    ELSE max2(c.high - c.low, max2(Abs(c.high - a.prevClose), Abs(c.low - a.prevClose)))

atrUpdate(a, c) ==
    LET tr == trueRange(a, c)
        seen == [a EXCEPT !.hasPrev = TRUE, !.prevClose = c.close]
        seed == push(a.seedR, tr)
    IN  IF a.seeded THEN [seen EXCEPT !.value = Smoothed(@, tr, a.period)]
        ELSE [seen EXCEPT !.seedR = seed, !.value = mean(seed), !.seeded = full(seed)]

newATR(params) == [atr |-> newATRState(param(params, "period", 14)), prev |-> 0]
ATR(s, c) == LET a == atrUpdate(s.atr, c) IN Plain([s EXCEPT !.atr = a], a.value)

newADX(params) ==
    LET period == param(params, "period", 14)
        r == newRing(period)
    IN  [period |-> period, atr |-> newATRState(period), prevHigh |-> 0, prevLow |-> 0, hasPrev |-> FALSE,
         avgPlusDM |-> 0, avgMinusDM |-> 0, dmSeedPlus |-> r, dmSeedMinus |-> r, seeded |-> FALSE,
         adxR |-> r, adx |-> 0, prev |-> 0]

(* The directional movement joins the averages: the mean of the first     *)
(* period movements once they are complete, Wilder's smoothing after that. *)
Directed(s, plusDM, minusDM) ==
    LET plus == push(s.dmSeedPlus, plusDM)
        minus == push(s.dmSeedMinus, minusDM)
        seeding == [s EXCEPT !.dmSeedPlus = plus, !.dmSeedMinus = minus]
    IN  IF s.seeded
        THEN [s EXCEPT !.avgPlusDM = Smoothed(@, plusDM, s.period), !.avgMinusDM = Smoothed(@, minusDM, s.period)]
        ELSE IF full(plus)
        THEN [seeding EXCEPT !.avgPlusDM = mean(plus), !.avgMinusDM = mean(minus), !.seeded = TRUE]
        ELSE seeding

(* 0 stands for an adx that has no first mean yet.                         *)
ADX(s, c) ==
    LET atr == atrUpdate(s.atr, c)
        up == c.high - s.prevHigh
        down == s.prevLow - c.low
        d == Directed(s, IF s.hasPrev /\ up > down /\ up > 0 THEN up ELSE 0,
                         IF s.hasPrev /\ down > up /\ down > 0 THEN down ELSE 0)
        plusDI == IF atr.value = 0 THEN 0 ELSE (100 * Unit * d.avgPlusDM) \div atr.value
        minusDI == IF atr.value = 0 THEN 0 ELSE (100 * Unit * d.avgMinusDM) \div atr.value
        dx == IF plusDI + minusDI = 0 THEN 0
              ELSE (100 * Unit * Abs(plusDI - minusDI)) \div (plusDI + minusDI)
        window == push(s.adxR, dx)
        adx == IF s.adx # 0 THEN Smoothed(s.adx, dx, s.period)
               ELSE IF full(window) THEN mean(window) ELSE 0
    IN  Plain([d EXCEPT !.atr = atr, !.prevHigh = c.high, !.prevLow = c.low, !.hasPrev = TRUE,
                        !.adxR = window, !.adx = adx], adx)

newSuperTrend(params) ==
    [atr |-> newATRState(param(params, "period", 10)), multiplier |-> param(params, "multiplier", 3),
     finalUpper |-> 0, finalLower |-> 0, trendUp |-> TRUE, hasPrev |-> FALSE, prevClose |-> 0]

(* A band only moves towards the price, unless the price has crossed it.   *)
SuperTrend(s, c) ==
    LET atr == atrUpdate(s.atr, c)
        mid == (c.high + c.low) \div 2
        basicUpper == mid + s.multiplier * atr.value
        basicLower == mid - s.multiplier * atr.value
        upper == IF ~s.hasPrev \/ basicUpper < s.finalUpper \/ s.prevClose > s.finalUpper
                 THEN basicUpper ELSE s.finalUpper
        lower == IF ~s.hasPrev \/ basicLower > s.finalLower \/ s.prevClose < s.finalLower
                 THEN basicLower ELSE s.finalLower
        up == IF ~s.hasPrev THEN s.trendUp
              ELSE IF s.trendUp THEN ~(c.close < lower) ELSE c.close > upper
    IN  Out([s EXCEPT !.atr = atr, !.finalUpper = upper, !.finalLower = lower, !.trendUp = up,
                      !.hasPrev = TRUE, !.prevClose = c.close],
            IF s.hasPrev
            THEN Signal(IF up THEN lower ELSE upper, 0,
                        Raise("bullish", up /\ ~s.trendUp) \cup Raise("bearish", ~up /\ s.trendUp))
            ELSE Signal(0, 0, {}))
-----------------------------------------------------------------------------
(* price.go                                                                *)
newPrice(field) == [field |-> field, prev |-> 0]
Price(s, c) == Plain(s, c[s.field])

newPrevLevel(isHigh) == [isHigh |-> isHigh, level |-> 0, hasLevel |-> FALSE, prevClose |-> 0]

(* The close against the high, or low, of the candle before.               *)
PrevLevel(s, c) ==
    LET above == s.hasLevel /\ s.isHigh /\ s.prevClose <= s.level /\ c.close > s.level
        below == s.hasLevel /\ ~s.isHigh /\ s.prevClose >= s.level /\ c.close < s.level
    IN  Out([s EXCEPT !.level = IF s.isHigh THEN c.high ELSE c.low, !.hasLevel = TRUE, !.prevClose = c.close],
            Signal(s.level, 0, Raise("crosses_above", above) \cup Raise("crosses_below", below)))

newGap(params, isUp) ==
    [isUp |-> isUp, minPct |-> param(params, "min_pct", 0) * Unit, prevClose |-> 0, hasPrev |-> FALSE]

Gap(s, c) ==
    LET known == s.hasPrev /\ s.prevClose # 0
        pct == IF known THEN ((c.open - s.prevClose) * 100 * Unit) \div s.prevClose ELSE 0
        wide == IF s.isUp THEN pct >= s.minPct ELSE -pct >= s.minPct
    IN  Out([s EXCEPT !.prevClose = c.close, !.hasPrev = TRUE], Signal(pct, 0, Raise("true", known /\ wide)))
-----------------------------------------------------------------------------
(* pattern.go                                                              *)
newPattern(name) == [name |-> name, hist |-> <<>>]

Body(k) == Abs(k.close - k.open)
Rises(k) == k.close > k.open
Falls(k) == k.close < k.open
UpperShadow(k) == k.high - max2(k.open, k.close)
LowerShadow(k) == min2(k.open, k.close) - k.low

OneCandle(name, cur) ==
    \/ name = "doji" /\ 10 * Body(cur) <= cur.high - cur.low
    \/ name = "hammer" /\ LowerShadow(cur) >= 2 * Body(cur) /\ 10 * UpperShadow(cur) <= 3 * Body(cur) /\ Body(cur) > 0
    \/ name = "shooting_star" /\ UpperShadow(cur) >= 2 * Body(cur) /\ 10 * LowerShadow(cur) <= 3 * Body(cur) /\ Body(cur) > 0

TwoCandles(name, prev, cur) ==
    \/ name = "bullish_engulfing" /\ Falls(prev) /\ Rises(cur) /\ cur.open <= prev.close /\ cur.close >= prev.open
    \/ name = "bearish_engulfing" /\ Rises(prev) /\ Falls(cur) /\ cur.open >= prev.close /\ cur.close <= prev.open
    \/ /\ name = "harami" /\ Body(cur) < Body(prev)
       /\ max2(cur.open, cur.close) <= max2(prev.open, prev.close)
       /\ min2(cur.open, cur.close) >= min2(prev.open, prev.close)

ThreeCandles(name, first, second, cur) ==
    /\ 2 * Body(second) < Body(first)
    /\ \/ name = "morning_star" /\ Falls(first) /\ Rises(cur) /\ 2 * cur.close > first.open + first.close
       \/ name = "evening_star" /\ Rises(first) /\ Falls(cur) /\ 2 * cur.close < first.open + first.close

detect(name, hist) ==
    LET n == Len(hist)
    IN  \/ OneCandle(name, hist[n])
        \/ n >= 2 /\ TwoCandles(name, hist[n - 1], hist[n])
        \/ n >= 3 /\ ThreeCandles(name, hist[n - 2], hist[n - 1], hist[n])

Pattern(s, c) ==
    LET all == Append(s.hist, c)
        hist == IF Len(all) > 3 THEN Tail(all) ELSE all
    IN  Out([s EXCEPT !.hist = hist], Signal(0, 0, Raise("true", detect(s.name, hist))))
=============================================================================
