----------------------------- MODULE Analytics ------------------------------
(* The statistics over completed trades (src/engine/internal/analytics):   *)
(* Compute, EquityCurve and the AI review.  A trade is a record with state,  *)
(* entryTime, exitTime, holdingDays and pnl; NoExit is the zero exit time. *)
(* Ratios are kept as they are compared: percentages are integers rounded  *)
(* down, the Sharpe and the Sortino ratio are squared with their sign.     *)
EXTENDS Integers, Sequences

CONSTANTS MinCAGRSpan,   \* one day
          NoExit         \* the zero time.Time

LOCAL INSTANCE SequencesExt

Completed(t) == t.state \in {"CLOSED", "STOPPED", "TARGET_HIT"}

CompletedOf(trades) ==
    LET kept[i \in 0 .. Len(trades)] ==
            IF i = 0 THEN <<>>
            ELSE IF Completed(trades[i]) THEN Append(kept[i - 1], trades[i]) ELSE kept[i - 1]
    IN  kept[Len(trades)]

Total(xs) == FoldSeq(LAMBDA x, acc : acc + x, 0, xs)
Largest(xs) == FoldSeq(LAMBDA x, acc : IF x > acc THEN x ELSE acc, 0, xs)
Smallest(xs) == FoldSeq(LAMBDA x, acc : IF x < acc THEN x ELSE acc, 0, xs)

PnLs(trades) == [i \in 1 .. Len(trades) |-> trades[i].pnl]
Winners(trades) == SelectSeq(PnLs(trades), LAMBDA x : x > 0)
Losers(trades) == SelectSeq(PnLs(trades), LAMBDA x : x <= 0)

(* The one pass over the trades: equity, its peak and the worst fall in    *)
(* percent of the peak of the moment.                                      *)
Step_ForgetsPeak(run, pnl) ==
    LET equity == run.equity + pnl
        fall == IF run.equity > 0 THEN ((run.equity - equity) * 100) \div run.equity ELSE 0
    IN  [equity |-> equity, peak |-> equity, maxDD |-> IF fall > run.maxDD THEN fall ELSE run.maxDD]

Step(run, pnl) ==
    LET equity == run.equity + pnl
        peak == IF equity > run.peak THEN equity ELSE run.peak
        fall == IF peak > 0 THEN ((peak - equity) * 100) \div peak ELSE 0
    IN  [equity |-> equity, peak |-> peak, maxDD |-> IF fall > run.maxDD THEN fall ELSE run.maxDD]

OnePass(pnls, capital) ==
    LET run[i \in 0 .. Len(pnls)] ==
            IF i = 0 THEN [equity |-> capital, peak |-> capital, maxDD |-> 0] ELSE Step(run[i - 1], pnls[i])
    IN  run[Len(pnls)]

(* n times the mean, and n times n - 1 times the variance: squares of      *)
(* integers.  Zero where the ratio is zero.                                *)
SignedSquare(x) == IF x < 0 THEN -(x * x) ELSE x * x

Deviations(xs, m) == Total([i \in 1 .. Len(xs) |-> (Len(xs) * xs[i] - m) * (Len(xs) * xs[i] - m)])

sharpeRatio(xs) ==
    LET n == Len(xs)
        spread == Deviations(xs, Total(xs))
    IN  IF n < 2 \/ spread = 0 THEN 0 ELSE (252 * SignedSquare(Total(xs)) * (n - 1)) \div spread

sortinoRatio(xs) ==
    LET n == Len(xs)
        down == SelectSeq(xs, LAMBDA x : x < 0)
        squares == Total([i \in 1 .. Len(down) |-> down[i] * down[i]])
    IN  IF n < 2 \/ Len(down) < 2 THEN 0
        ELSE (252 * SignedSquare(Total(xs)) * (Len(down) - 1)) \div (n * n * squares)

NoMetrics ==
    [winRate |-> 0, grossProfit |-> 0, grossLoss |-> 0, sharpe |-> 0, sortino |-> 0, drawdown |-> 0,
     holdDays |-> 0, largestWinner |-> 0, largestLoser |-> 0, benchmarkReturn |-> 0, gain |-> 0,
     annualised |-> FALSE, totalTrades |-> 0]

Earliest(trades) == LET times == {trades[i].entryTime : i \in DOMAIN trades}
                    IN  CHOOSE t \in times : \A u \in times : t <= u
Latest(trades) == LET times == {trades[i].exitTime : i \in DOMAIN trades}
                  IN  CHOOSE t \in times : \A u \in times : t >= u

(* gain is the strategy's return in money; CAGR exists when a day has      *)
(* passed and something is left.                                           *)
Compute(trades, capital, benchmark) ==
    LET done == CompletedOf(trades)
        pnls == PnLs(done)
        pass == OnePass(pnls, capital)
    IN  IF Len(done) = 0 \/ capital = 0 THEN NoMetrics
        ELSE [winRate |-> (Len(Winners(done)) * 100) \div Len(done),
              grossProfit |-> Total(Winners(done)), grossLoss |-> -Total(Losers(done)),
              sharpe |-> sharpeRatio(pnls), sortino |-> sortinoRatio(pnls), drawdown |-> pass.maxDD,
              holdDays |-> Total([i \in 1 .. Len(done) |-> done[i].holdingDays]) \div Len(done),
              largestWinner |-> Largest(pnls), largestLoser |-> Smallest(pnls),
              benchmarkReturn |-> benchmark, gain |-> pass.equity - capital,
              annualised |-> Latest(done) - Earliest(done) >= MinCAGRSpan /\ pass.equity > 0,
              totalTrades |-> Len(done)]

(* One point before the first trade and one after each completed trade, in *)
(* the order of the trades given.                                          *)
EquityCurve(trades, capital) ==
    LET done == CompletedOf(trades)
        equity[i \in 0 .. Len(done)] == IF i = 0 THEN capital ELSE equity[i - 1] + done[i].pnl
        time(t) == IF t.exitTime = NoExit THEN t.entryTime ELSE t.exitTime
    IN  <<[time |-> NoExit, equity |-> capital, pnl |-> 0]>>
        \o [i \in 1 .. Len(done) |-> [time |-> time(done[i]), equity |-> equity[i], pnl |-> done[i].pnl]]

summarize(m, completed, capital) ==
    IF completed = 0 THEN "no completed trades"
    ELSE IF m.gain * 100 > m.benchmarkReturn * capital THEN "outperformed" ELSE "underperformed"

GenerateAIReview(trades, openPositions, capital, benchmark) ==
    LET m == Compute(trades, capital, benchmark)
        completed == Len(CompletedOf(trades))
    IN  [metrics |-> m, completedTrades |-> completed, openPositions |-> openPositions,
         summary |-> summarize(m, completed, capital)]
=============================================================================
