----------------------- MODULE TradeLifecycle_proofs -----------------------
(***************************************************************************)
(* Theorems about TradeLifecycle for every value of its constants.         *)
(***************************************************************************)
EXTENDS TradeLifecycle, Sums, TLAPS, FiniteSetTheorems

LEMMA ProductNat ==
    ASSUME NEW a \in Nat, NEW b \in Nat
    PROVE  a * b \in Nat
  OBVIOUS

LEMMA QuotientNat ==
    ASSUME NEW a \in Nat, NEW n \in Nat \ {0}
    PROVE  a \div n \in Nat
  OBVIOUS

(* What the paper broker answers: a fill takes between one unit and the    *)
(* whole quantity, all of it under FillBasic, and buys at a price that is  *)
(* not negative (paper.go PlaceOrder).                                     *)
LEMMA FillFacts ==
    ASSUME NEW side, NEW qty \in Nat, NEW quote \in Nat, NEW ok \in BOOLEAN, NEW cap \in Nat,
           IsFill(PlaceOrder(side, qty, quote, ok, SlippagePct, cap))
    PROVE  /\ PlaceOrder(side, qty, quote, ok, SlippagePct, cap).qty \in 1 .. qty
           /\ PlaceOrder(side, qty, quote, ok, SlippagePct, cap).price \in Int
           /\ side = "BUY" => PlaceOrder(side, qty, quote, ok, SlippagePct, cap).price \in Nat
           /\ cap = 0 => PlaceOrder(side, qty, quote, ok, SlippagePct, cap).qty = qty
<1> DEFINE filled == IF cap > 0 /\ qty > cap THEN cap ELSE qty
           slip == (quote * SlippagePct) \div 100
<1>1. slip \in Nat
  BY ProductNat, QuotientNat, ConstantsAssumption, SMTT(40)
<1>2. quote # NoPrice /\ ok /\ ~(filled <= 0)
  <2> SUFFICES ASSUME quote = NoPrice \/ ~ok \/ filled <= 0 PROVE FALSE
    BY DEF NoPrice
  <2>1. PlaceOrder(side, qty, quote, ok, SlippagePct, cap).state = "REJECTED"
    BY DEF PlaceOrder, Rejected
  <2> QED
    BY <2>1 DEF IsFill
<1>3. PlaceOrder(side, qty, quote, ok, SlippagePct, cap) =
        [state  |-> IF filled < qty THEN "PARTIAL" ELSE "FILLED", reason |-> "", qty |-> filled,
         price  |-> IF side = "BUY" THEN quote + slip ELSE quote - slip]
  BY <1>2, Zenon DEF PlaceOrder
<1>4. filled \in Nat /\ filled <= qty /\ (cap = 0 => filled = qty)
  OBVIOUS
<1>5. filled \in 1 .. qty
  BY <1>2, <1>4
<1> DEFINE fill == PlaceOrder(side, qty, quote, ok, SlippagePct, cap)
           price == IF side = "BUY" THEN quote + slip ELSE quote - slip
<1>6. price \in Int /\ (side = "BUY" => price \in Nat)
  BY <1>1
<1>7. fill.qty = filled /\ fill.price = price
  <2> HIDE DEF filled, price, fill
  <2>1. fill = [state |-> IF filled < qty THEN "PARTIAL" ELSE "FILLED", reason |-> "",
                qty |-> filled, price |-> price]
    BY <1>3 DEF fill, price
  <2> QED
    BY <2>1
<1> HIDE DEF filled, price
<1> QED
  BY <1>4, <1>5, <1>6, <1>7

LEMMA RoundedNat ==
    ASSUME NEW amount \in Nat, NEW n \in Nat \ {0}
    PROVE  Rounded(amount, n) \in Nat
  BY QuotientNat DEF Rounded

LEMMA BoughtType ==
    ASSUME NEW pos \in [qty : Nat, avg : Nat], NEW qty \in Nat \ {0}, NEW price \in Nat
    PROVE  Bought(pos, qty, price) \in [qty : Nat, avg : Nat]
<1>1. pos.avg * pos.qty + price * qty \in Nat
  BY ProductNat
<1>2. Rounded(pos.avg * pos.qty + price * qty, pos.qty + qty) \in Nat
  BY <1>1, RoundedNat
<1> QED
  BY <1>2 DEF Bought

LEMMA QuotientInt ==
    ASSUME NEW a \in Int, NEW b \in Nat \ {0}
    PROVE  a \div b \in Int
  OBVIOUS

(* An order quantity is a natural number under every sizing rule, as long  *)
(* as there is cash to size from (sizing.go ResolveQuantity).              *)
LEMMA EntryQuantityNat ==
    ASSUME ledger \in LedgerType, NEW c \in CandleType
    PROVE  EntryQuantity(c) \in Nat
<1> DEFINE lots == [fixed_pct    |-> (ledger.cash * Sizing.value) \div (100 * c.close * 1),
                    fixed_amount |-> Sizing.value \div (c.close * 1),
                    fixed_qty    |-> Sizing.value \div 1,
                    risk_based   |-> IF StopDistance <= 0 THEN 0
                                     ELSE (ledger.cash * Sizing.value) \div (c.close * StopDistance * 1)]
<1>1. c.close \in Nat \ {0} /\ ledger.cash * Sizing.value \in Int
  BY ConstantsAssumption DEF CandleType, LedgerType
<1>2. StopDistance \in Nat
  BY ConstantsAssumption DEF StopDistance
<1>3. StopDistance > 0 => c.close * StopDistance \in Nat \ {0}
  BY <1>1, <1>2
<1> DEFINE spend == ledger.cash * Sizing.value
<1>4. \A t \in DOMAIN lots : lots[t] \in Int
  <2>1. lots.fixed_pct = spend \div (100 * c.close)
    BY <1>1
  <2>2. lots.fixed_amount = Sizing.value \div c.close /\ lots.fixed_qty = Sizing.value \div 1
    BY <1>1
  <2>3. lots.risk_based = IF StopDistance <= 0 THEN 0 ELSE spend \div (c.close * StopDistance)
    BY <1>1, <1>2, <1>3
  <2>4. spend \in Int /\ Sizing.value \in Nat /\ 100 * c.close \in Nat \ {0}
    BY <1>1, ConstantsAssumption
  <2>5. DOMAIN lots = {"fixed_pct", "fixed_amount", "fixed_qty", "risk_based"}
    OBVIOUS
  <2> HIDE DEF lots, spend
  <2>6. lots.fixed_pct \in Int
    BY <2>1, <2>4, QuotientInt
  <2>7. lots.fixed_amount \in Int /\ lots.fixed_qty \in Int
    BY <1>1, <2>2, <2>4, QuotientInt
  <2>8. lots.risk_based \in Int
    BY <1>2, <1>3, <2>3, <2>4, QuotientInt
  <2>9. QED BY <2>5, <2>6, <2>7, <2>8
<1>5. EntryQuantity(c) = IF /\ c.close > 0
                            /\ Sizing.type \in DOMAIN lots
                            /\ lots[Sizing.type] > 0
                         THEN lots[Sizing.type] * 1 ELSE 0
  BY DEF EntryQuantity, ResolveQuantity
<1> HIDE DEF lots
<1> QED
  BY <1>4, <1>5
-----------------------------------------------------------------------------
(* What a candle close does to the books, case by case.                    *)

TradesType == [Symbols -> TradeType \cup {NoTrade}]

(* A trade with another high-water mark or more days in it is the same     *)
(* position.                                                               *)
SamePosition(t, u) == t.qty = u.qty /\ t.entry = u.entry

LEMMA NoTradeNotHeld == NoTrade.state \notin Held
  BY DEF NoTrade, Held

LEMMA OpenIsTyped ==
    ASSUME BooksTypeOK, NEW s \in Symbols
    PROVE  Open(s) <=> trades[s] \in TradeType
  BY NoTradeNotHeld DEF BooksTypeOK, Open, TradeType

LEMMA AgedTradesFacts ==
    ASSUME BooksTypeOK
    PROVE  /\ AgedTrades \in TradesType
           /\ \A s \in Symbols : /\ AgedTrades[s].state = trades[s].state
                                 /\ SamePosition(AgedTrades[s], trades[s])
<1> SUFFICES ASSUME NEW s \in Symbols
             PROVE  /\ AgedTrades[s] \in TradeType \cup {NoTrade}
                    /\ AgedTrades[s].state = trades[s].state
                    /\ SamePosition(AgedTrades[s], trades[s])
  BY DEF AgedTrades, TradesType
<1>1. CASE Open(s)
  <2>1. trades[s] \in TradeType /\ AgedTrades[s] = [trades[s] EXCEPT !.days = @ + 1]
    BY <1>1, OpenIsTyped DEF AgedTrades
  <2> QED
    BY <2>1 DEF TradeType, SamePosition
<1>2. CASE ~Open(s)
  BY <1>2 DEF AgedTrades, SamePosition, BooksTypeOK
<1> QED
  BY <1>1, <1>2

LEMMA RollDayFacts ==
    ASSUME risk \in RiskType
    PROVE  RollDay(risk) \in RiskType /\ RollDay(risk).openPositions = risk.openPositions
  BY DEF RiskType, RollDay

(* The state the handlers work on after the day roll.                      *)
Rolled(r, ts) ==
    /\ r \in RiskType /\ r.openPositions = risk.openPositions
    /\ ts \in TradesType
    /\ \A s \in Symbols : ts[s].state = trades[s].state /\ SamePosition(ts[s], trades[s])

LEMMA CandleCases ==
    ASSUME BooksTypeOK, NEW s \in Symbols, NEW c \in CandleType, NEW quote,
           OnCandleClose(s, c, quote)
    PROVE  \/ UNCHANGED <<barIndex, tradingDay, bookVars>>
           \/ /\ barIndex' \in Nat /\ tradingDay' \in Int
              /\ \E r, ts : /\ Rolled(r, ts)
                            /\ \/ Open(s) /\ ManageOpenTrade(s, c, quote, r, ts, barIndex')
                               \/ ~Open(s) /\ TryEntry(s, c, quote, r, ts, barIndex')
<1> SUFFICES ASSUME state # "stopped"
             PROVE  /\ barIndex' \in Nat /\ tradingDay' \in Int
                    /\ \E r, ts : /\ Rolled(r, ts)
                                  /\ \/ Open(s) /\ ManageOpenTrade(s, c, quote, r, ts, barIndex')
                                     \/ ~Open(s) /\ TryEntry(s, c, quote, r, ts, barIndex')
  BY DEF OnCandleClose
<1> DEFINE rolls == Day(c.time) # tradingDay
           rr == IF rolls THEN RollDay(risk) ELSE risk
           tts == IF rolls THEN AgedTrades ELSE trades
<1>1. Rolled(rr, tts)
  BY AgedTradesFacts, RollDayFacts DEF Rolled, SamePosition, BooksTypeOK, TradesType
<1>2. /\ tradingDay' = Day(c.time)
      /\ barIndex' = barIndex + 1
      /\ IF Open(s) THEN ManageOpenTrade(s, c, quote, rr, tts, barIndex + 1)
         ELSE TryEntry(s, c, quote, rr, tts, barIndex + 1)
  BY DEF OnCandleClose
<1>3. barIndex' \in Nat /\ tradingDay' \in Int
  BY <1>2, ConstantsAssumption, QuotientNat DEF BooksTypeOK, Day, CandleType
<1> HIDE DEF rr, tts
<1> QED
  BY <1>1, <1>2, <1>3

(* tryEntry either leaves the books as the day roll made them, or buys     *)
(* some quantity at some price and records it everywhere.                  *)
Entered(s, r, ts, trade) ==
    /\ trade \in TradeType /\ trade.state = "ACTIVE"
    /\ ~PositionsReached(r, s)
    /\ ledger' = AfterBuy(ledger, s, trade.qty, trade.entry, Fee)
    /\ trades' = [ts EXCEPT ![s] = trade]
    /\ openCount' = openCount + 1
    /\ risk' = RecordEntry(r, s)
    /\ deployed' \in [Symbols -> Int]
    /\ rows' = [rows EXCEPT ![s] = OpenRow(trade)]
    /\ UNCHANGED <<reported, lossOn>>

OnlyRolled(r, ts) ==
    /\ trades' = ts
    /\ risk' = r
    /\ UNCHANGED <<openCount, ledger, deployed, rows, reported, lossOn>>

LEMMA EntryEffects ==
    ASSUME BooksTypeOK, NEW s \in Symbols, NEW c \in CandleType, NEW quote \in Nat,
           NEW r, NEW ts, NEW bar, TryEntry(s, c, quote, r, ts, bar)
    PROVE  OnlyRolled(r, ts) \/ \E trade : Entered(s, r, ts, trade)
<1> DEFINE qty == EntryQuantity(c)
           order(ok, cap) == PlaceOrder("BUY", qty, quote, ok, SlippagePct, cap)
           bought(fill) == [state |-> "ACTIVE", qty |-> fill.qty, entry |-> fill.price,
                            hwm |-> fill.price, days |-> 0, time |-> c.time]
<1>1. SUFFICES ASSUME NEW hit \in BOOLEAN, NEW ok \in CircuitAnswers, NEW cap \in FillCaps,
                      WantsEntry(s, c, r, bar), IsFill(order(ok, cap)),
                      ledger' = AfterBuy(ledger, s, order(ok, cap).qty, order(ok, cap).price, Fee),
                      trades' = [ts EXCEPT ![s] = bought(order(ok, cap))],
                      openCount' = openCount + 1,
                      risk' = RecordEntry(r, s),
                      deployed' = [deployed EXCEPT ![s] = @ + c.close * qty],
                      rows' = [rows EXCEPT ![s] = OpenRow(bought(order(ok, cap)))],
                      UNCHANGED <<reported, lossOn>>
               PROVE  Entered(s, r, ts, bought(order(ok, cap)))
  BY DEF TryEntry, OnlyRolled
<1>2. qty \in Nat
  BY EntryQuantityNat DEF BooksTypeOK
<1>3. ok \in BOOLEAN /\ cap \in Nat
  BY ConstantsAssumption DEF CircuitAnswers
<1> HIDE DEF qty
<1>4. order(ok, cap).qty \in 1 .. qty /\ order(ok, cap).price \in Nat
  BY <1>1, <1>2, <1>3, FillFacts
<1> HIDE DEF order
<1>5. bought(order(ok, cap)) \in TradeType
  BY <1>2, <1>4 DEF TradeType, CandleType, Held
<1>6. deployed' \in [Symbols -> Int]
  BY <1>1, <1>2, ProductNat DEF BooksTypeOK, CandleType
<1>7. ~PositionsReached(r, s)
  BY <1>1 DEF WantsEntry, CanEnter
<1> QED
  BY <1>1, <1>5, <1>6, <1>7 DEF Entered

(* manageOpenTrade either closes the position, wholly or in part, and      *)
(* forgets it, or keeps it and may mark it as expired.                     *)
Exited(s, r, ts, bar, qty, price, final, time) ==
    /\ qty \in 1 .. trades[s].qty /\ price \in Int
    /\ FillCaps = {0} => qty = trades[s].qty
    /\ final \in Terminal /\ time \in 0 .. Horizon
    /\ CanSell(ledger, s, qty)
    /\ ledger' = AfterSell(ledger, s, qty, price, Fee)
    /\ trades' = [ts EXCEPT ![s] = NoTrade]
    /\ openCount' = openCount - 1
    /\ risk' = RecordExit(r, s, bar, Realized(ledger, s, qty, price))
    /\ deployed' \in [Symbols -> Int]
    /\ rows' = [rows EXCEPT ![s] = ClosedRow(final, time)]
    /\ reported' = reported + Realized(ledger, s, qty, price) - 2 * Fee
    /\ lossOn' \in [0 .. Day(Horizon) -> Nat]

Kept(s, r, ts, trade) ==
    /\ trade \in TradeType /\ SamePosition(trade, trades[s])
    /\ trades' = [ts EXCEPT ![s] = trade]
    /\ risk' = r
    /\ \/ rows' = rows /\ trade.state = trades[s].state
       \/ rows' = [rows EXCEPT ![s] = OpenRow(trade)]
    /\ UNCHANGED <<openCount, ledger, deployed, reported, lossOn>>

LEMMA RealizedInt ==
    ASSUME ledger \in LedgerType, NEW s \in Symbols, NEW qty \in Int, NEW price \in Int
    PROVE  Realized(ledger, s, qty, price) \in Int
  BY DEF LedgerType, Realized

LEMMA ExitEffects ==
    ASSUME BooksTypeOK, NEW s \in Symbols, NEW c \in CandleType, NEW quote \in Nat,
           NEW r, NEW ts, NEW bar, Rolled(r, ts), Open(s),
           ManageOpenTrade(s, c, quote, r, ts, bar)
    PROVE  \/ \E trade : Kept(s, r, ts, trade)
           \/ \E qty, price, final, time : Exited(s, r, ts, bar, qty, price, final, time)
<1> DEFINE tr == [ts[s] EXCEPT !.hwm = IF c.high > @ THEN c.high ELSE @]
           expired == [tr EXCEPT !.state = "EXPIRED"]
           order(ok, cap) == PlaceOrder("SELL", tr.qty, quote, ok, SlippagePct, cap)
<1>1. ts[s] \in TradeType /\ SamePosition(ts[s], trades[s]) /\ ts[s].state = trades[s].state
  <2>1. ts[s].state \in Held
    BY DEF Open, Rolled
  <2> QED
    BY <2>1, NoTradeNotHeld DEF Rolled, TradesType
<1>2. /\ tr \in TradeType /\ SamePosition(tr, trades[s]) /\ tr.state = trades[s].state
      /\ expired \in TradeType /\ SamePosition(expired, trades[s])
  BY <1>1 DEF TradeType, SamePosition, CandleType, Held
<1>3. PICK signal \in SignalValues, ok \in CircuitAnswers, cap \in FillCaps :
        LET reason == ExitReason(tr, c, signal)
            fill == order(ok, cap)
        IN  IF reason # "none" /\ IsFill(fill) /\ CanSell(ledger, s, fill.qty)
            THEN CloseTrade(s, c, r, ts, bar, tr, reason, fill)
            ELSE /\ risk' = r
                 /\ IF reason = "none" /\ ExpiryDue(tr, c, signal)
                    THEN /\ trades' = [ts EXCEPT ![s] = expired]
                         /\ rows' = [rows EXCEPT ![s] = OpenRow(expired)]
                    ELSE /\ trades' = [ts EXCEPT ![s] = tr]
                         /\ rows' = rows
                 /\ UNCHANGED <<openCount, ledger, deployed, reported, lossOn>>
  BY DEF ManageOpenTrade
<1> DEFINE reason == ExitReason(tr, c, signal)
           fill == order(ok, cap)
<1> HIDE DEF tr, expired
<1>4. CASE ~(reason # "none" /\ IsFill(fill) /\ CanSell(ledger, s, fill.qty))
  <2>1. Kept(s, r, ts, tr) \/ Kept(s, r, ts, expired)
    BY <1>2, <1>3, <1>4 DEF Kept
  <2> QED
    BY <2>1
<1>5. CASE reason # "none" /\ IsFill(fill) /\ CanSell(ledger, s, fill.qty)
  <2>1. CloseTrade(s, c, r, ts, bar, tr, reason, fill)
    BY <1>3, <1>5
  <2>2. ok \in BOOLEAN /\ cap \in Nat /\ tr.qty \in Nat /\ tr.entry \in Nat /\ tr.qty = trades[s].qty
    BY <1>2, ConstantsAssumption DEF CircuitAnswers, TradeType, SamePosition
  <2>3. fill.qty \in 1 .. tr.qty /\ fill.price \in Int /\ (cap = 0 => fill.qty = tr.qty)
    BY <1>5, <2>2, FillFacts
  <2>4. StateForReason(reason) \in Terminal /\ c.time \in 0 .. Horizon
    BY DEF StateForReason, Terminal, CandleType
  <2> HIDE DEF fill, reason
  <2>5. deployed' \in [Symbols -> Int]
    BY <2>1, <2>2, ProductNat DEF CloseTrade, BooksTypeOK
  <2>6. lossOn' \in [0 .. Day(Horizon) -> Nat]
    <3>1. Realized(ledger, s, fill.qty, fill.price) \in Int
      BY <2>2, <2>3, RealizedInt DEF BooksTypeOK
    <3> DEFINE realized == Realized(ledger, s, fill.qty, fill.price)
    <3>2. lossOn' = [lossOn EXCEPT ![Day(c.time)] = IF realized < 0 THEN @ - realized ELSE @]
      BY <2>1 DEF CloseTrade
    <3> HIDE DEF realized
    <3>3. \A n \in Nat : (IF realized < 0 THEN n - realized ELSE n) \in Nat
      BY <3>1 DEF realized
    <3> QED
      BY <3>2, <3>3 DEF BooksTypeOK
  <2>7. Exited(s, r, ts, bar, fill.qty, fill.price, StateForReason(reason), c.time)
    BY <1>5, <2>1, <2>2, <2>3, <2>4, <2>5, <2>6 DEF CloseTrade, Exited
  <2> QED
    BY <2>7
<1> QED
  BY <1>4, <1>5

LEMMA EffectsOfCandle ==
    ASSUME BooksTypeOK, NEW s \in Symbols, NEW c \in CandleType, NEW quote \in Nat,
           OnCandleClose(s, c, quote)
    PROVE  \/ UNCHANGED <<barIndex, tradingDay, bookVars>>
           \/ /\ barIndex' \in Nat /\ tradingDay' \in Int
              /\ \E r, ts :
                    /\ Rolled(r, ts)
                    /\ \/ OnlyRolled(r, ts)
                       \/ ~Open(s) /\ \E trade : Entered(s, r, ts, trade)
                       \/ Open(s) /\ \E trade : Kept(s, r, ts, trade)
                       \/ /\ Open(s)
                          /\ \E qty, price, final, time :
                                Exited(s, r, ts, barIndex', qty, price, final, time)
<1> SUFFICES ASSUME ~UNCHANGED <<barIndex, tradingDay, bookVars>>
             PROVE  /\ barIndex' \in Nat /\ tradingDay' \in Int
                    /\ \E r, ts :
                          /\ Rolled(r, ts)
                          /\ \/ OnlyRolled(r, ts)
                             \/ ~Open(s) /\ \E trade : Entered(s, r, ts, trade)
                             \/ Open(s) /\ \E trade : Kept(s, r, ts, trade)
                             \/ /\ Open(s)
                                /\ \E qty, price, final, time :
                                      Exited(s, r, ts, barIndex', qty, price, final, time)
  OBVIOUS
<1>1. /\ barIndex' \in Nat /\ tradingDay' \in Int
      /\ \E r, ts : /\ Rolled(r, ts)
                    /\ \/ Open(s) /\ ManageOpenTrade(s, c, quote, r, ts, barIndex')
                       \/ ~Open(s) /\ TryEntry(s, c, quote, r, ts, barIndex')
  BY CandleCases
<1>2. PICK r, ts : /\ Rolled(r, ts)
                   /\ \/ Open(s) /\ ManageOpenTrade(s, c, quote, r, ts, barIndex')
                      \/ ~Open(s) /\ TryEntry(s, c, quote, r, ts, barIndex')
  BY <1>1
<1>3. CASE Open(s) /\ ManageOpenTrade(s, c, quote, r, ts, barIndex')
  <2>1. \/ \E trade : Kept(s, r, ts, trade)
        \/ \E qty, price, final, time : Exited(s, r, ts, barIndex', qty, price, final, time)
    BY <1>2, <1>3, ExitEffects
  <2> QED
    BY <1>1, <1>2, <1>3, <2>1
<1>4. CASE ~Open(s) /\ TryEntry(s, c, quote, r, ts, barIndex')
  <2>1. OnlyRolled(r, ts) \/ \E trade : Entered(s, r, ts, trade)
    BY <1>4, EntryEffects
  <2> QED
    BY <1>1, <1>2, <1>4, <2>1
<1> QED
  BY <1>2, <1>3, <1>4

(* A step of the system changes the books only through the candle close of *)
(* one symbol, with a candle and a quote of the right types.               *)
LEMMA StepCases ==
    ASSUME TypeOK, [Next]_vars
    PROVE  /\ FeedTypeOK' /\ state' \in {"running", "paused", "stopped"}
           /\ \/ UNCHANGED <<barIndex, tradingDay, bookVars>>
              \/ \E s \in Symbols, c \in CandleType, quote \in Nat : OnCandleClose(s, c, quote)
<1> USE DEF TypeOK, FeedTypeOK
<1>1. CASE AdvanceClock
  BY <1>1, ConstantsAssumption DEF AdvanceClock
<1>2. ASSUME NEW s \in Symbols, FirstTick(s)
      PROVE  FeedTypeOK' /\ UNCHANGED <<state, barIndex, tradingDay, bookVars>>
  BY <1>2 DEF FirstTick, TimeType
<1>3. ASSUME NEW s \in Symbols, MinuteClose(s)
      PROVE  /\ FeedTypeOK' /\ state' = state
             /\ \/ UNCHANGED <<barIndex, tradingDay, bookVars>>
                \/ \E c \in CandleType, quote \in Nat : OnCandleClose(s, c, quote)
  <2>1. PICK high \in Prices, close \in Prices :
           LET m == [time |-> minute[s], high |-> high, close |-> close]
           IN  /\ ltp' = [ltp EXCEPT ![s] = close]
               /\ IF TfSlots = 1
                  THEN /\ bucket' = bucket
                       /\ \E quote \in {close, ltp[s]} : OnCandleClose(s, m, quote)
                  ELSE Aggregate(s, m)
    BY <1>3 DEF MinuteClose
  <2> DEFINE m == [time |-> minute[s], high |-> high, close |-> close]
  <2>2. m \in CandleType /\ close \in Nat
    BY <1>3, ConstantsAssumption DEF MinuteClose, CandleType, TimeType
  <2>3. minute' = [minute EXCEPT ![s] = now] /\ now' = now /\ state' = state
    BY <1>3 DEF MinuteClose
  <2>4. minute' \in [Symbols -> TimeType] /\ now' \in 0 .. Horizon /\ ltp' \in [Symbols -> Nat]
    BY <2>1, <2>2, <2>3 DEF TimeType
  <2>5. CASE TfSlots = 1
    <3>1. \E quote \in {close, ltp[s]} : OnCandleClose(s, m, quote)
      BY <2>1, <2>5
    <3>2. ltp[s] \in Nat
      OBVIOUS
    <3> HIDE DEF m
    <3> QED
      BY <2>1, <2>2, <2>3, <2>4, <2>5, <3>1, <3>2
  <2>6. CASE TfSlots # 1
    <3>1. Aggregate(s, m)
      BY <2>1, <2>6
    <3> DEFINE b == bucket[s]
               closes == b.time # NoTime /\ Bucket(b.time) # Bucket(m.time)
               longer == [b EXCEPT !.high = IF m.high > @ THEN m.high ELSE @, !.close = m.close]
    <3>2. b \in CandleType \cup {NoBucket}
      OBVIOUS
    <3>3. b.time # NoTime => b \in CandleType /\ longer \in CandleType
      <4>1. b.time # NoTime => b \in CandleType
        BY <3>2 DEF NoBucket
      <4>2. m.high \in Nat \ {0} /\ m.close \in Nat \ {0}
        BY <2>2 DEF CandleType
      <4> HIDE DEF b, m
      <4>3. b \in CandleType => longer \in CandleType
        BY <4>2 DEF CandleType
      <4> QED
        BY <4>1, <4>3
    <3> HIDE DEF m
    <3>4. CASE closes
      <4>1. bucket' = [bucket EXCEPT ![s] = m] /\ OnCandleClose(s, b, m.close)
        BY <3>1, <3>4 DEF Aggregate
      <4>2. m.close \in Nat
        BY <2>2 DEF CandleType
      <4> QED
        <5>1. b \in CandleType /\ bucket' \in [Symbols -> CandleType \cup {NoBucket}]
          BY <2>2, <3>3, <3>4, <4>1
        <5> HIDE DEF b
        <5> QED
          BY <2>3, <2>4, <4>1, <4>2, <5>1
    <3>5. CASE ~closes
      <4>1. /\ bucket' = [bucket EXCEPT ![s] = IF b.time = NoTime THEN m ELSE longer]
            /\ UNCHANGED <<barIndex, tradingDay, bookVars>>
        BY <3>1, <3>5 DEF Aggregate
      <4> HIDE DEF longer
      <4> QED
        BY <2>2, <2>3, <2>4, <3>3, <4>1
    <3> QED
      BY <3>4, <3>5
  <2> QED
    BY <2>5, <2>6
<1>4. ASSUME NEW st \in {"running", "paused", "stopped"}, SetState(st)
      PROVE  FeedTypeOK' /\ state' = st /\ UNCHANGED <<barIndex, tradingDay, bookVars>>
  BY <1>4 DEF SetState, feedVars
<1>5. CASE UNCHANGED vars
  BY <1>5 DEF vars, feedVars
<1> QED
  BY <1>1, <1>2, <1>3, <1>4, <1>5 DEF Next, AdvanceClock
-----------------------------------------------------------------------------
(* Type correctness.                                                       *)

LEMMA AfterBuyType ==
    ASSUME ledger \in LedgerType, NEW s \in Symbols, NEW qty \in Nat \ {0}, NEW price \in Nat
    PROVE  AfterBuy(ledger, s, qty, price, Fee) \in LedgerType
<1> DEFINE cash == ledger.cash - (price * qty + Fee)
           costs == ledger.totalCosts + Fee
           holdings == [ledger.holdings EXCEPT ![s] = Bought(ledger.holdings[s], qty, price)]
<1>1. ledger.holdings[s] \in [qty : Nat, avg : Nat]
  BY DEF LedgerType
<1>2. Bought(ledger.holdings[s], qty, price) \in [qty : Nat, avg : Nat]
  BY <1>1, BoughtType
<1>3. cash \in Int /\ costs \in Nat
  BY ConstantsAssumption, SMTT(40) DEF LedgerType
<1>4. holdings \in [Symbols -> [qty : Nat, avg : Nat]]
  BY <1>2 DEF LedgerType
<1>5. AfterBuy(ledger, s, qty, price, Fee) =
        [ledger EXCEPT !.cash = cash, !.totalCosts = costs, !.holdings = holdings]
  BY DEF AfterBuy, LedgerType
<1> HIDE DEF cash, costs, holdings
<1> QED
  BY <1>3, <1>4, <1>5 DEF LedgerType

LEMMA AfterSellType ==
    ASSUME ledger \in LedgerType, NEW s \in Symbols, NEW qty \in Int, NEW price \in Int,
           CanSell(ledger, s, qty)
    PROVE  AfterSell(ledger, s, qty, price, Fee) \in LedgerType
<1> DEFINE cash == ledger.cash + price * qty - Fee
           realized == ledger.realizedPnL + Realized(ledger, s, qty, price)
           costs == ledger.totalCosts + Fee
           holdings == [ledger.holdings EXCEPT ![s] = Sold(ledger.holdings[s], qty)]
<1>1. ledger.holdings[s] \in [qty : Nat, avg : Nat] /\ ledger.holdings[s].qty >= qty
  BY DEF LedgerType, CanSell
<1>2. Sold(ledger.holdings[s], qty) \in [qty : Nat, avg : Nat]
  BY <1>1 DEF Sold, Flat
<1>3. cash \in Int /\ realized \in Int /\ costs \in Nat
  BY RealizedInt, ConstantsAssumption, SMTT(40) DEF LedgerType
<1>4. holdings \in [Symbols -> [qty : Nat, avg : Nat]]
  BY <1>2 DEF LedgerType
<1>5. AfterSell(ledger, s, qty, price, Fee) =
        [ledger EXCEPT !.cash = cash, !.totalCosts = costs, !.realizedPnL = realized,
                       !.holdings = holdings]
  BY DEF AfterSell, LedgerType
<1> HIDE DEF cash, realized, costs, holdings
<1> QED
  BY <1>3, <1>4, <1>5 DEF LedgerType

LEMMA RecordsTyped ==
    ASSUME NEW r \in RiskType, NEW s \in Symbols, NEW bar \in Nat, NEW realized \in Int
    PROVE  RecordEntry(r, s) \in RiskType /\ RecordExit(r, s, bar, realized) \in RiskType
<1> DEFINE loss == IF realized < 0 THEN r.dailyLoss - realized ELSE r.dailyLoss
<1>1. loss \in Nat /\ bar + CooldownBars \in Nat
  BY ConstantsAssumption DEF RiskType
<1> DEFINE cooldown == [r.cooldownUntil EXCEPT ![s] = bar + CooldownBars]
           reentries == [r.reentryCount EXCEPT ![s] = @ + 1]
<1>2. RecordExit(r, s, bar, realized) =
        [r EXCEPT !.openPositions = r.openPositions \ {s}, !.dailyLoss = loss,
                  !.cooldownUntil = cooldown, !.reentryCount = reentries]
  BY DEF RecordExit, RiskType
<1>3. cooldown \in [Symbols -> Nat] /\ reentries \in [Symbols -> Nat]
  BY <1>1 DEF RiskType
<1> HIDE DEF loss, cooldown, reentries
<1>5. RecordExit(r, s, bar, realized) \in RiskType
  BY <1>1, <1>2, <1>3 DEF RiskType
<1>4. RecordEntry(r, s) \in RiskType
  BY DEF RiskType, RecordEntry
<1> QED
  BY <1>4, <1>5

LEMMA CandleKeepsTypes ==
    ASSUME BooksTypeOK, NEW s \in Symbols, NEW c \in CandleType, NEW quote \in Nat,
           OnCandleClose(s, c, quote)
    PROVE  BooksTypeOK'
<1>1. CASE UNCHANGED <<barIndex, tradingDay, bookVars>>
  BY <1>1 DEF BooksTypeOK, bookVars
<1>2. ASSUME NEW r, NEW ts, Rolled(r, ts), barIndex' \in Nat, tradingDay' \in Int, OnlyRolled(r, ts)
      PROVE  BooksTypeOK'
  BY <1>2 DEF Rolled, OnlyRolled, BooksTypeOK, TradesType
<1>3. ASSUME NEW r, NEW ts, Rolled(r, ts), barIndex' \in Nat, tradingDay' \in Int,
             NEW trade, Entered(s, r, ts, trade)
      PROVE  BooksTypeOK'
  <2>1. ledger' \in LedgerType
    BY <1>3, AfterBuyType DEF Entered, TradeType, BooksTypeOK
  <2>2. risk' \in RiskType
    BY <1>3, RecordsTyped DEF Entered, Rolled, BooksTypeOK
  <2>3. OpenRow(trade) \in RowType
    BY <1>3 DEF Entered, TradeType, OpenRow, RowType, TimeType
  <2>4. trades' \in [Symbols -> TradeType \cup {NoTrade}]
    BY <1>3 DEF Entered, Rolled, TradesType
  <2> QED
    BY <1>3, <2>1, <2>2, <2>3, <2>4 DEF Entered, BooksTypeOK
<1>4. ASSUME NEW r, NEW ts, Rolled(r, ts), barIndex' \in Nat, tradingDay' \in Int,
             NEW trade, Kept(s, r, ts, trade)
      PROVE  BooksTypeOK'
  <2>1. OpenRow(trade) \in RowType
    BY <1>4 DEF Kept, TradeType, OpenRow, RowType, TimeType
  <2>2. trades' \in [Symbols -> TradeType \cup {NoTrade}]
    BY <1>4 DEF Kept, Rolled, TradesType
  <2> QED
    BY <1>4, <2>1, <2>2, SMTT(40) DEF Kept, Rolled, BooksTypeOK
<1>5. ASSUME NEW r, NEW ts, Rolled(r, ts), barIndex' \in Nat, tradingDay' \in Int, Open(s),
             NEW qty, NEW price, NEW final, NEW time,
             Exited(s, r, ts, barIndex', qty, price, final, time)
      PROVE  BooksTypeOK'
  <2>1. qty \in Int /\ price \in Int /\ Realized(ledger, s, qty, price) \in Int
    BY <1>5, RealizedInt DEF Exited, BooksTypeOK
  <2>2. ledger' \in LedgerType
    BY <1>5, <2>1, AfterSellType DEF Exited, BooksTypeOK
  <2>3. risk' \in RiskType
    BY <1>5, <2>1, RecordsTyped DEF Exited, Rolled
  <2>4. ClosedRow(final, time) \in RowType
    BY <1>5 DEF Exited, ClosedRow, NoRow, RowType, TimeType, NoTime
  <2>5. trades' \in [Symbols -> TradeType \cup {NoTrade}]
    BY <1>5 DEF Exited, Rolled, TradesType
  <2>6. reported' \in Int
    BY <1>5, <2>1, ConstantsAssumption, SMTT(40) DEF Exited, BooksTypeOK
  <2> QED
    BY <1>5, <2>2, <2>3, <2>4, <2>5, <2>6, SMTT(40) DEF Exited, BooksTypeOK
<1> QED
  BY <1>1, <1>2, <1>3, <1>4, <1>5, EffectsOfCandle

LEMMA InitTyped == Init => TypeOK
<1> SUFFICES ASSUME Init PROVE TypeOK
  OBVIOUS
<1>1. FeedTypeOK
  BY ConstantsAssumption DEF Init, FeedTypeOK, TimeType, NoPrice
<1>2. NewRisk(StartingCash) \in RiskType
  BY ConstantsAssumption DEF NewRisk, RiskType
<1>3. NewLedger(Symbols, StartingCash) \in LedgerType
  BY ConstantsAssumption DEF NewLedger, LedgerType, Flat
<1>4. NoRow \in RowType
  BY DEF NoRow, RowType, TimeType
<1>5. BooksTypeOK
  BY <1>2, <1>3, <1>4 DEF Init, BooksTypeOK, NoTime
<1> QED
  BY <1>1, <1>5 DEF Init, TypeOK

(* Every variable keeps its type, for every strategy, horizon and cost     *)
(* model: no order quantity, daily loss or cooldown becomes negative and   *)
(* no lookup leaves its domain.                                            *)
THEOREM Typed == Spec => []TypeOK
<1>1. TypeOK /\ [Next]_vars => TypeOK'
  <2> SUFFICES ASSUME TypeOK, [Next]_vars PROVE TypeOK'
    OBVIOUS
  <2>1. CASE UNCHANGED <<barIndex, tradingDay, bookVars>>
    BY <2>1, StepCases DEF TypeOK, BooksTypeOK, bookVars
  <2>2. ASSUME NEW s \in Symbols, NEW c \in CandleType, NEW quote \in Nat, OnCandleClose(s, c, quote)
        PROVE  TypeOK'
    BY <2>2, StepCases, CandleKeepsTypes DEF TypeOK
  <2> QED
    BY <2>1, <2>2, StepCases
<1> QED
  BY <1>1, InitTyped, PTL DEF Spec
-----------------------------------------------------------------------------
(* Safety.                                                                 *)

(* Every way the books can change in one step.                             *)
LEMMA StepEffects ==
    ASSUME TypeOK, [Next]_vars
    PROVE  \/ UNCHANGED bookVars
           \/ \E s \in Symbols : \E r, ts :
                 /\ Rolled(r, ts)
                 /\ \/ OnlyRolled(r, ts)
                    \/ ~Open(s) /\ \E trade : Entered(s, r, ts, trade)
                    \/ Open(s) /\ \E trade : Kept(s, r, ts, trade)
                    \/ /\ Open(s)
                       /\ \E qty, price, final, time :
                             Exited(s, r, ts, barIndex', qty, price, final, time)
<1>1. CASE UNCHANGED <<barIndex, tradingDay, bookVars>>
  BY <1>1
<1>2. ASSUME NEW s \in Symbols, NEW c \in CandleType, NEW quote \in Nat, OnCandleClose(s, c, quote),
             ~UNCHANGED bookVars
      PROVE  \E r, ts :
                 /\ Rolled(r, ts)
                 /\ \/ OnlyRolled(r, ts)
                    \/ ~Open(s) /\ \E trade : Entered(s, r, ts, trade)
                    \/ Open(s) /\ \E trade : Kept(s, r, ts, trade)
                    \/ /\ Open(s)
                       /\ \E qty, price, final, time :
                             Exited(s, r, ts, barIndex', qty, price, final, time)
  <2>1. ~UNCHANGED <<barIndex, tradingDay, bookVars>>
    BY <1>2
  <2> QED
    BY <1>2, <2>1, EffectsOfCandle DEF TypeOK
<1> QED
  BY <1>1, <1>2, StepCases

LEMMA OpenAfterRoll ==
    ASSUME NEW r, NEW ts, Rolled(r, ts), OnlyRolled(r, ts)
    PROVE  OpenSymbols' = OpenSymbols
  BY DEF Rolled, OnlyRolled, OpenSymbols, Open

LEMMA OpenAfterEntry ==
    ASSUME NEW s \in Symbols, NEW r, NEW ts, NEW trade, Rolled(r, ts), Entered(s, r, ts, trade)
    PROVE  OpenSymbols' = OpenSymbols \cup {s}
  BY DEF Rolled, Entered, OpenSymbols, Open, TradesType, Held

LEMMA OpenAfterKeep ==
    ASSUME NEW s \in Symbols, NEW r, NEW ts, NEW trade, Rolled(r, ts), Open(s), Kept(s, r, ts, trade)
    PROVE  OpenSymbols' = OpenSymbols
<1>1. trade.state \in Held
  BY DEF Kept, TradeType
<1> QED
  BY <1>1 DEF Rolled, Kept, OpenSymbols, Open, TradesType

LEMMA OpenAfterExit ==
    ASSUME NEW s \in Symbols, NEW r, NEW ts, NEW bar, NEW qty, NEW price, NEW final, NEW time,
           Rolled(r, ts), Exited(s, r, ts, bar, qty, price, final, time)
    PROVE  OpenSymbols' = OpenSymbols \ {s}
  BY NoTradeNotHeld DEF Rolled, Exited, OpenSymbols, Open, TradesType

LEMMA OpenIsFinite == IsFiniteSet(OpenSymbols)
<1>1. OpenSymbols \subseteq Symbols
  BY DEF OpenSymbols
<1> QED
  BY <1>1, ConstantsAssumption, FS_Subset

PositionInv == PositionsAgree /\ PositionsWithinCap

LEMMA EntryKeepsPositions ==
    ASSUME TypeOK, PositionInv, NEW s \in Symbols, NEW r, NEW ts, NEW trade,
           Rolled(r, ts), ~Open(s), Entered(s, r, ts, trade)
    PROVE  PositionInv'
<1>1. OpenSymbols' = OpenSymbols \cup {s} /\ s \notin OpenSymbols
  BY OpenAfterEntry DEF OpenSymbols
<1>2. Cardinality(OpenSymbols)' = Cardinality(OpenSymbols) + 1
  BY <1>1, OpenIsFinite, FS_AddElement
<1>3. risk'.openPositions = OpenSymbols' /\ r.openPositions = OpenSymbols
  BY <1>1 DEF Rolled, Entered, RecordEntry, PositionInv, PositionsAgree, RiskType
<1>4. ~(MaxPositions > 0 /\ Cardinality(OpenSymbols) >= MaxPositions)
  BY <1>1, <1>3 DEF Entered, PositionsReached
<1>5. Cardinality(OpenSymbols) \in Nat
  BY OpenIsFinite, FS_CardinalityType
<1>6. openCount' = openCount + 1
  BY DEF Entered
<1> QED
  BY <1>2, <1>3, <1>4, <1>5, <1>6, ConstantsAssumption DEF PositionInv, PositionsAgree, PositionsWithinCap

LEMMA ExitKeepsPositions ==
    ASSUME TypeOK, PositionInv, NEW s \in Symbols, NEW r, NEW ts, NEW bar, NEW qty, NEW price,
           NEW final, NEW time, Rolled(r, ts), Open(s), Exited(s, r, ts, bar, qty, price, final, time)
    PROVE  PositionInv'
<1>1. OpenSymbols' = OpenSymbols \ {s} /\ s \in OpenSymbols
  BY OpenAfterExit DEF OpenSymbols
<1>2. Cardinality(OpenSymbols)' = Cardinality(OpenSymbols) - 1
  BY <1>1, OpenIsFinite, FS_RemoveElement
<1>3. risk'.openPositions = OpenSymbols'
  BY <1>1 DEF Rolled, Exited, RecordExit, PositionInv, PositionsAgree, RiskType
<1>4. Cardinality(OpenSymbols) \in Nat
  BY OpenIsFinite, FS_CardinalityType
<1>5. openCount' = openCount - 1
  BY DEF Exited
<1> QED
  BY <1>2, <1>3, <1>4, <1>5, ConstantsAssumption DEF PositionInv, PositionsAgree, PositionsWithinCap

LEMMA InitPositions == Init => PositionInv
<1> SUFFICES ASSUME Init PROVE PositionInv
  OBVIOUS
<1>1. OpenSymbols = {}
  BY NoTradeNotHeld DEF Init, OpenSymbols, Open
<1> QED
  BY <1>1, FS_EmptySet, ConstantsAssumption
     DEF Init, PositionInv, PositionsAgree, PositionsWithinCap, NewRisk

(* The runtime, the risk block and the open-position counter agree on what *)
(* is held after every step, for every strategy and fill model.            *)
THEOREM PositionsExact == Spec => []PositionInv
<1>1. TypeOK /\ PositionInv /\ [Next]_vars => PositionInv'
  <2> SUFFICES ASSUME TypeOK, PositionInv, [Next]_vars PROVE PositionInv'
    OBVIOUS
  <2>1. CASE UNCHANGED bookVars
    BY <2>1 DEF bookVars, PositionInv, PositionsAgree, PositionsWithinCap, OpenSymbols, Open
  <2>2. ASSUME NEW r, NEW ts, Rolled(r, ts), OnlyRolled(r, ts)
        PROVE  PositionInv'
    <3>1. OpenSymbols' = OpenSymbols
      BY <2>2, OpenAfterRoll
    <3> QED
      BY <2>2, <3>1 DEF Rolled, OnlyRolled, PositionInv, PositionsAgree, PositionsWithinCap
  <2>3. ASSUME NEW s \in Symbols, NEW r, NEW ts, NEW trade, Rolled(r, ts), Open(s), Kept(s, r, ts, trade)
        PROVE  PositionInv'
    <3>1. OpenSymbols' = OpenSymbols
      BY <2>3, OpenAfterKeep
    <3> QED
      BY <2>3, <3>1 DEF Rolled, Kept, PositionInv, PositionsAgree, PositionsWithinCap
  <2> QED
    BY <2>1, <2>2, <2>3, StepEffects, EntryKeepsPositions, ExitKeepsPositions
<1> QED
  BY <1>1, InitPositions, Typed, PTL DEF Spec

(* max_positions holds for every strategy, every number of symbols and     *)
(* every fill model: the cap is checked against the risk block's set of    *)
(* positions (risk.go CanEnter), which is at all times the set of symbols  *)
(* the runtime holds.                                                      *)
THEOREM CapHolds == Spec => []PositionsWithinCap
<1>1. PositionInv => PositionsWithinCap
  BY DEF PositionInv
<1> QED
  BY <1>1, PositionsExact, PTL

(* The newest row of every symbol tells what the runtime holds, with       *)
(* partial fills, refused orders and expiry included: a process that reads *)
(* the trades table after a crash between two candles finds exactly the    *)
(* open positions (hooks of lifecycle.go, server.go replayTrades).         *)
THEOREM StorageIsExact == Spec => []StorageAgrees
<1>1. Init => StorageAgrees
  BY NoTradeNotHeld DEF Init, StorageAgrees, Open, NoRow, Held
<1>2. TypeOK /\ StorageAgrees /\ [Next]_vars => StorageAgrees'
  <2> SUFFICES ASSUME TypeOK, StorageAgrees, [Next]_vars PROVE StorageAgrees'
    OBVIOUS
  <2> DEFINE Agrees(x) ==
        IF Open(x) THEN /\ rows[x].state = trades[x].state
                        /\ rows[x].qty = trades[x].qty
                        /\ rows[x].entry = trades[x].entry
        ELSE rows[x].state \notin Held
  <2>1. CASE UNCHANGED bookVars
    BY <2>1 DEF bookVars, StorageAgrees, Open
  <2>2. ASSUME NEW r, NEW ts, Rolled(r, ts), OnlyRolled(r, ts)
        PROVE  StorageAgrees'
    BY <2>2 DEF Rolled, OnlyRolled, StorageAgrees, Open, SamePosition
  <2>3. ASSUME NEW s \in Symbols, NEW r, NEW ts, NEW trade, Rolled(r, ts), Entered(s, r, ts, trade)
        PROVE  StorageAgrees'
    <3>1. /\ trades' = [ts EXCEPT ![s] = trade] /\ trade.state \in Held
          /\ rows' = [rows EXCEPT ![s] = OpenRow(trade)]
      BY <2>3 DEF Entered, Held
    <3> SUFFICES ASSUME NEW x \in Symbols PROVE Agrees(x)'
      BY DEF StorageAgrees
    <3>2. CASE x = s
      BY <2>3, <3>1, <3>2 DEF Rolled, TradesType, TypeOK, BooksTypeOK, OpenRow, Open
    <3>3. CASE x # s
      BY <2>3, <3>1, <3>3 DEF Rolled, TradesType, TypeOK, BooksTypeOK, StorageAgrees, Open, SamePosition
    <3> QED
      BY <3>2, <3>3
  <2>4. ASSUME NEW s \in Symbols, NEW r, NEW ts, NEW trade, Rolled(r, ts), Open(s), Kept(s, r, ts, trade)
        PROVE  StorageAgrees'
    <3>1. /\ trades' = [ts EXCEPT ![s] = trade] /\ trade.state \in Held /\ SamePosition(trade, trades[s])
          /\ \/ rows' = rows /\ trade.state = trades[s].state
             \/ rows' = [rows EXCEPT ![s] = OpenRow(trade)]
      BY <2>4 DEF Kept, TradeType
    <3> SUFFICES ASSUME NEW x \in Symbols PROVE Agrees(x)'
      BY DEF StorageAgrees
    <3>2. CASE x = s
      BY <2>4, <3>1, <3>2
         DEF Rolled, TradesType, TypeOK, BooksTypeOK, StorageAgrees, OpenRow, Open, SamePosition
    <3>3. CASE x # s
      BY <2>4, <3>1, <3>3 DEF Rolled, TradesType, TypeOK, BooksTypeOK, StorageAgrees, Open, SamePosition
    <3> QED
      BY <3>2, <3>3
  <2>5. ASSUME NEW s \in Symbols, NEW r, NEW ts, NEW qty, NEW price, NEW final, NEW time,
               Rolled(r, ts), Open(s), Exited(s, r, ts, barIndex', qty, price, final, time)
        PROVE  StorageAgrees'
    <3>1. /\ trades' = [ts EXCEPT ![s] = NoTrade]
          /\ rows' = [rows EXCEPT ![s] = ClosedRow(final, time)] /\ ClosedRow(final, time).state \notin Held
      BY <2>5 DEF Exited, Terminal, Held, ClosedRow, NoRow
    <3> SUFFICES ASSUME NEW x \in Symbols PROVE Agrees(x)'
      BY DEF StorageAgrees
    <3>2. CASE x = s
      BY <2>5, <3>1, <3>2, NoTradeNotHeld DEF Rolled, TradesType, TypeOK, BooksTypeOK, Open
    <3>3. CASE x # s
      BY <2>5, <3>1, <3>3 DEF Rolled, TradesType, TypeOK, BooksTypeOK, StorageAgrees, Open, SamePosition
    <3> QED
      BY <3>2, <3>3
  <2> QED
    BY <2>1, <2>2, <2>3, <2>4, <2>5, StepEffects
<1> QED
  BY <1>1, <1>2, Typed, PTL DEF Spec

LEMMA HoldingsAfterBuy ==
    ASSUME ledger \in LedgerType, NEW s \in Symbols, NEW qty, NEW price, ledger.holdings[s] = Flat
    PROVE  AfterBuy(ledger, s, qty, price, Fee).holdings =
               [ledger.holdings EXCEPT ![s] = [qty |-> qty, avg |-> price]]
<1>1. Bought(ledger.holdings[s], qty, price) = [qty |-> qty, avg |-> price]
  BY DEF Bought, Flat
<1>2. AfterBuy(ledger, s, qty, price, Fee).holdings =
        [ledger.holdings EXCEPT ![s] = Bought(ledger.holdings[s], qty, price)]
  BY DEF AfterBuy, LedgerType
<1> QED
  BY <1>1, <1>2

LEMMA HoldingsAfterSell ==
    ASSUME ledger \in LedgerType, NEW s \in Symbols, NEW qty, NEW price, ledger.holdings[s].qty = qty
    PROVE  AfterSell(ledger, s, qty, price, Fee).holdings = [ledger.holdings EXCEPT ![s] = Flat]
<1>1. Sold(ledger.holdings[s], qty) = Flat
  BY DEF Sold
<1>2. AfterSell(ledger, s, qty, price, Fee).holdings =
        [ledger.holdings EXCEPT ![s] = Sold(ledger.holdings[s], qty)]
  BY DEF AfterSell, LedgerType
<1> QED
  BY <1>1, <1>2

(* The ledger's part of BooksExact below.                                  *)
THEOREM HoldingsExact ==
    ASSUME FillCaps = {0}
    PROVE  Spec => []HoldingsAgree
<1>1. Init => HoldingsAgree
  BY NoTradeNotHeld DEF Init, HoldingsAgree, Open, NewLedger
<1>2. TypeOK /\ HoldingsAgree /\ [Next]_vars => HoldingsAgree'
  <2> SUFFICES ASSUME TypeOK, HoldingsAgree, [Next]_vars PROVE HoldingsAgree'
    OBVIOUS
  <2> DEFINE Agrees(x) ==
        ledger.holdings[x] = IF Open(x) THEN [qty |-> trades[x].qty, avg |-> trades[x].entry] ELSE Flat
  <2>t. ledger \in LedgerType /\ ledger.holdings \in [Symbols -> [qty : Nat, avg : Nat]]
    BY DEF TypeOK, BooksTypeOK, LedgerType
  <2>1. CASE UNCHANGED bookVars
    BY <2>1 DEF bookVars, HoldingsAgree, Open
  <2>2. ASSUME NEW r, NEW ts, Rolled(r, ts), OnlyRolled(r, ts)
        PROVE  HoldingsAgree'
    BY <2>2 DEF Rolled, OnlyRolled, HoldingsAgree, Open, SamePosition
  <2>3. ASSUME NEW s \in Symbols, NEW r, NEW ts, NEW trade, Rolled(r, ts), ~Open(s),
               Entered(s, r, ts, trade)
        PROVE  HoldingsAgree'
    <3>1. /\ trades' = [ts EXCEPT ![s] = trade] /\ trade.state \in Held
          /\ ledger' = AfterBuy(ledger, s, trade.qty, trade.entry, Fee)
      BY <2>3 DEF Entered, Held
    <3>2. ledger'.holdings = [ledger.holdings EXCEPT ![s] = [qty |-> trade.qty, avg |-> trade.entry]]
      <4>1. ledger.holdings[s] = Flat
        BY <2>3 DEF HoldingsAgree
      <4> QED
        BY <2>t, <3>1, <4>1, HoldingsAfterBuy
    <3> SUFFICES ASSUME NEW x \in Symbols PROVE Agrees(x)'
      BY DEF HoldingsAgree
    <3>3. CASE x = s
      BY <2>t, <2>3, <3>1, <3>2, <3>3 DEF Rolled, TradesType, Open
    <3>4. CASE x # s
      BY <2>t, <2>3, <3>1, <3>2, <3>4, ZenonT(60) DEF Rolled, TradesType, HoldingsAgree, Open, SamePosition
    <3> QED
      BY <3>3, <3>4
  <2>4. ASSUME NEW s \in Symbols, NEW r, NEW ts, NEW trade, Rolled(r, ts), Open(s), Kept(s, r, ts, trade)
        PROVE  HoldingsAgree'
    <3>1. /\ trades' = [ts EXCEPT ![s] = trade] /\ trade.state \in Held /\ SamePosition(trade, trades[s])
          /\ ledger' = ledger
      BY <2>4 DEF Kept, TradeType
    <3> SUFFICES ASSUME NEW x \in Symbols PROVE Agrees(x)'
      BY DEF HoldingsAgree
    <3>2. CASE x = s
      BY <2>4, <3>1, <3>2 DEF Rolled, TradesType, HoldingsAgree, Open, SamePosition
    <3>3. CASE x # s
      BY <2>4, <3>1, <3>3 DEF Rolled, TradesType, HoldingsAgree, Open, SamePosition
    <3> QED
      BY <3>2, <3>3
  <2>5. ASSUME NEW s \in Symbols, NEW r, NEW ts, NEW qty, NEW price, NEW final, NEW time,
               Rolled(r, ts), Open(s), Exited(s, r, ts, barIndex', qty, price, final, time)
        PROVE  HoldingsAgree'
    <3>1. /\ trades' = [ts EXCEPT ![s] = NoTrade] /\ qty = trades[s].qty
          /\ ledger' = AfterSell(ledger, s, qty, price, Fee)
      BY <2>5 DEF Exited
    <3>2. ledger'.holdings = [ledger.holdings EXCEPT ![s] = Flat]
      <4>1. ledger.holdings[s] = [qty |-> trades[s].qty, avg |-> trades[s].entry]
        BY <2>5 DEF HoldingsAgree
      <4>2. ledger.holdings[s].qty = qty
        BY <3>1, <4>1
      <4> QED
        BY <2>t, <3>1, <4>2, HoldingsAfterSell
    <3> SUFFICES ASSUME NEW x \in Symbols PROVE Agrees(x)'
      BY DEF HoldingsAgree
    <3>3. CASE x = s
      BY <2>t, <2>5, <3>1, <3>2, <3>3, NoTradeNotHeld DEF Rolled, TradesType, Open
    <3>4. CASE x # s
      BY <2>t, <2>5, <3>1, <3>2, <3>4, ZenonT(60) DEF Rolled, TradesType, HoldingsAgree, Open, SamePosition
    <3> QED
      BY <3>3, <3>4
  <2> QED
    BY <2>1, <2>2, <2>3, <2>4, <2>5, StepEffects
<1> QED
  BY <1>1, <1>2, Typed, PTL DEF Spec

(* As long as the broker fills orders completely (FillBasic, the only mode *)
(* the engine runs), the ledger holds of every symbol exactly the quantity *)
(* of the runtime's open trade at its entry price, and nothing of the      *)
(* others.  A partial exit would break it: closeTrade forgets the trade    *)
(* and the rest of the holding has no owner any more.                      *)
THEOREM BooksExact ==
    ASSUME FillCaps = {0}
    PROVE  Spec => []BooksAgree
<1>1. PositionInv /\ HoldingsAgree => BooksAgree
  BY DEF PositionInv, BooksAgree
<1>2. Spec => []HoldingsAgree
  BY HoldingsExact
<1> QED
  BY <1>1, <1>2, PositionsExact, PTL
-----------------------------------------------------------------------------
(* The money.                                                              *)

Worth(holdings) == [s \in Symbols |-> holdings[s].avg * holdings[s].qty]

LEMMA WorthInt ==
    ASSUME NEW h \in [Symbols -> [qty : Nat, avg : Nat]]
    PROVE  \A s \in Symbols : Worth(h)[s] \in Int
<1> SUFFICES ASSUME NEW s \in Symbols PROVE h[s].avg * h[s].qty \in Int
  BY DEF Worth
<1>1. h[s].avg \in Nat /\ h[s].qty \in Nat
  OBVIOUS
<1> QED
  BY <1>1, ProductNat

(* The ledger's deployed capital is the sum, over the symbols, of average  *)
(* price times quantity (ledger.go Reconcile), in whatever order the map   *)
(* is iterated.                                                            *)
LEMMA DeployedIsSum ==
    ASSUME NEW l \in LedgerType
    PROVE  DeployedCapital(l) = SumOf(Worth(l.holdings), Symbols)
<1> DEFINE g == Worth(l.holdings)
<1>1. \E f : IsSumOver(f, g, Symbols) /\ SumOf(g, Symbols) = f[Symbols]
  BY SumOfIsSum, ConstantsAssumption
<1>2. DOMAIN l.holdings = Symbols
  BY DEF LedgerType
<1>3. \E f : IsSumOver(f, g, Symbols) /\ DeployedCapital(l) = f[Symbols]
  <2>1. PICK f : IsSumOver(f, g, Symbols)
    BY <1>1
  <2>2. f = [T \in SUBSET Symbols |->
                IF T = {} THEN 0
                ELSE l.holdings[First(T)].avg * l.holdings[First(T)].qty + f[T \ {First(T)}]]
    <3>1. \A T \in SUBSET Symbols : T # {} =>
             g[First(T)] = l.holdings[First(T)].avg * l.holdings[First(T)].qty
      BY FirstIn DEF Worth
    <3> HIDE DEF g
    <3> QED
      BY <2>1, <3>1 DEF IsSumOver
  <2> DEFINE Solves(q) == q = [T \in SUBSET Symbols |->
                IF T = {} THEN 0
                ELSE l.holdings[First(T)].avg * l.holdings[First(T)].qty + q[T \ {First(T)}]]
             h == CHOOSE q : Solves(q)
  <2>3. Solves(h)
    <3>1. \E q : Solves(q)
      BY <2>2
    <3> HIDE DEF Solves
    <3> QED
      BY <3>1
  <2>4. DeployedCapital(l) = h[Symbols]
    BY <1>2 DEF DeployedCapital, MapThenSumSet, MapThenFoldSet, First
  <2>5. IsSumOver(h, g, Symbols)
    <3>1. \A T \in SUBSET Symbols : T # {} =>
             g[First(T)] = l.holdings[First(T)].avg * l.holdings[First(T)].qty
      BY FirstIn DEF Worth
    <3> HIDE DEF g, h
    <3> QED
      BY <2>3, <3>1 DEF IsSumOver
  <2> HIDE DEF h
  <2> QED
    BY <2>4, <2>5
<1>4. PICK f : IsSumOver(f, g, Symbols) /\ SumOf(g, Symbols) = f[Symbols]
  BY <1>1
<1>5. PICK h : IsSumOver(h, g, Symbols) /\ DeployedCapital(l) = h[Symbols]
  BY <1>3
<1>6. f[Symbols] = h[Symbols]
  BY <1>4, <1>5, SumAgree, ConstantsAssumption
<1> QED
  BY <1>4, <1>5, <1>6

LEMMA DeployedInt ==
    ASSUME NEW l \in LedgerType
    PROVE  DeployedCapital(l) \in Int
<1>1. l.holdings \in [Symbols -> [qty : Nat, avg : Nat]]
  BY DEF LedgerType
<1>2. \A s \in Symbols : Worth(l.holdings)[s] \in Int
  BY <1>1, WorthInt
<1>3. SumOf(Worth(l.holdings), Symbols) \in Int
  BY <1>2, SumInt, ConstantsAssumption
<1> QED
  BY <1>3, DeployedIsSum

LEMMA MoneyTypes ==
    ASSUME TypeOK
    PROVE  /\ ledger \in LedgerType /\ ledger.cash \in Int /\ ledger.realizedPnL \in Int
           /\ ledger.totalCosts \in Int /\ reported \in Int /\ Fee \in Int
           /\ StartingCash \in Int /\ Cardinality(OpenSymbols) \in Int
<1>1. Cardinality(OpenSymbols) \in Int
  BY OpenIsFinite, FS_CardinalityType
<1>2. ledger \in LedgerType /\ reported \in Int
  BY DEF TypeOK, BooksTypeOK
<1>3. ledger.cash \in Int /\ ledger.realizedPnL \in Int /\ ledger.totalCosts \in Int
  BY <1>2 DEF LedgerType
<1> QED
  BY <1>1, <1>2, <1>3, ConstantsAssumption

(* Trading one symbol changes the deployed capital by what that symbol's   *)
(* holding is worth.                                                       *)
LEMMA DeployedChange ==
    ASSUME NEW l \in LedgerType, NEW m \in LedgerType, NEW s \in Symbols,
           NEW pos \in [qty : Nat, avg : Nat], m.holdings = [l.holdings EXCEPT ![s] = pos]
    PROVE  DeployedCapital(m) =
               DeployedCapital(l) - l.holdings[s].avg * l.holdings[s].qty + pos.avg * pos.qty
<1>1. /\ l.holdings \in [Symbols -> [qty : Nat, avg : Nat]]
      /\ m.holdings \in [Symbols -> [qty : Nat, avg : Nat]]
  BY DEF LedgerType
<1> DEFINE g == Worth(l.holdings)
           k == Worth(m.holdings)
<1>2. \A x \in Symbols : g[x] \in Int /\ k[x] \in Int
  BY <1>1, WorthInt
<1>3. \A x \in Symbols \ {s} : g[x] = k[x]
  BY <1>1 DEF Worth
<1>4. g[s] = l.holdings[s].avg * l.holdings[s].qty /\ k[s] = pos.avg * pos.qty
  BY <1>1 DEF Worth
<1>5. DeployedCapital(l) = SumOf(g, Symbols) /\ DeployedCapital(m) = SumOf(k, Symbols)
  BY DeployedIsSum
<1> HIDE DEF g, k
<1>6. SumOf(k, Symbols) = SumOf(g, Symbols) - g[s] + k[s]
  BY <1>2, <1>3, SumChange, ConstantsAssumption
<1> QED
  BY <1>4, <1>5, <1>6

LEMMA DeployedEmpty ==
    ASSUME NEW l \in LedgerType, \A s \in Symbols : l.holdings[s] = Flat
    PROVE  DeployedCapital(l) = 0
<1>1. \A s \in Symbols : Worth(l.holdings)[s] = 0
  BY DEF Worth, Flat
<1> QED
  BY <1>1, DeployedIsSum, SumZero, ConstantsAssumption

LEMMA Distributes ==
    ASSUME NEW p \in Int, NEW a \in Int, NEW q \in Int
    PROVE  (p - a) * q = p * q - a * q
  OBVIOUS

MoneyInv == Reconciled /\ PnLExplainsCash

(* A buy moves money from cash into the holding and spends its costs.      *)
LEMMA EntryKeepsMoney ==
    ASSUME TypeOK, TypeOK', PositionInv, HoldingsAgree, MoneyInv,
           NEW s \in Symbols, NEW r, NEW ts, NEW trade,
           Rolled(r, ts), ~Open(s), Entered(s, r, ts, trade)
    PROVE  MoneyInv'
<1> DEFINE pos == [qty |-> trade.qty, avg |-> trade.entry]
           spent == trade.entry * trade.qty
           n == Cardinality(OpenSymbols)
<1>t. /\ ledger \in LedgerType /\ ledger' \in LedgerType
      /\ ledger.cash \in Int /\ ledger.realizedPnL \in Int /\ ledger.totalCosts \in Int
      /\ reported \in Int /\ Fee \in Int /\ StartingCash \in Int /\ n \in Int
      /\ trade.qty \in Nat /\ trade.entry \in Nat /\ spent \in Int
  <2>1. trade.qty \in Nat /\ trade.entry \in Nat
    BY DEF Entered, TradeType
  <2>2. spent \in Int
    BY <2>1, ProductNat
  <2>3. ledger' \in LedgerType
    BY DEF TypeOK, BooksTypeOK
  <2> QED
    BY <2>1, <2>2, <2>3, MoneyTypes
<1>1. ledger.holdings[s] = Flat /\ ledger' = AfterBuy(ledger, s, trade.qty, trade.entry, Fee)
  BY DEF HoldingsAgree, Entered
<1>2. ledger'.holdings = [ledger.holdings EXCEPT ![s] = pos]
  BY <1>t, <1>1, HoldingsAfterBuy
<1>3. /\ ledger'.cash = ledger.cash - (spent + Fee)
      /\ ledger'.totalCosts = ledger.totalCosts + Fee
      /\ ledger'.realizedPnL = ledger.realizedPnL
      /\ reported' = reported
  BY <1>t, <1>1 DEF AfterBuy, LedgerType, Entered
<1>4. DeployedCapital(ledger') = DeployedCapital(ledger) + spent
  <2>1. DeployedCapital(ledger') =
            DeployedCapital(ledger) - ledger.holdings[s].avg * ledger.holdings[s].qty + pos.avg * pos.qty
    <3> HIDE DEF pos
    <3>1. pos \in [qty : Nat, avg : Nat]
      BY <1>t DEF pos
    <3> QED
      BY <1>t, <1>2, <3>1, DeployedChange
  <2>2. ledger.holdings[s].avg * ledger.holdings[s].qty = 0 /\ pos.avg * pos.qty = spent
    BY <1>1 DEF Flat
  <2> QED
    BY <1>t, <2>1, <2>2, DeployedInt
<1>5. Cardinality(OpenSymbols)' = n + 1
  BY OpenAfterEntry, OpenIsFinite, FS_AddElement DEF OpenSymbols
<1>6. DeployedCapital(ledger) \in Int
  BY <1>t, DeployedInt
<1>7. Fee * (n + 1) = Fee * n + Fee /\ Fee * n \in Int
  BY <1>t
<1> HIDE DEF spent, n
<1>8. Reconciled'
  BY <1>t, <1>3, <1>4, <1>6 DEF MoneyInv, Reconciled, Drift
<1>9. PnLExplainsCash'
  BY <1>t, <1>3, <1>4, <1>5, <1>6, <1>7 DEF MoneyInv, PnLExplainsCash, n
<1> QED
  BY <1>8, <1>9 DEF MoneyInv

(* A sale of the whole holding turns it into cash and profit; the row      *)
(* reports that profit less the costs of both orders.                      *)
LEMMA ExitKeepsMoney ==
    ASSUME TypeOK, TypeOK', PositionInv, HoldingsAgree, MoneyInv, FillCaps = {0},
           NEW s \in Symbols, NEW r, NEW ts, NEW bar, NEW qty, NEW price, NEW final, NEW time,
           Rolled(r, ts), Open(s), Exited(s, r, ts, bar, qty, price, final, time)
    PROVE  MoneyInv'
<1> DEFINE avg == ledger.holdings[s].avg
           got == price * qty
           cost == avg * qty
           n == Cardinality(OpenSymbols)
<1>1. /\ ledger.holdings[s] = [qty |-> trades[s].qty, avg |-> trades[s].entry]
      /\ ledger.holdings[s].qty = qty
      /\ ledger' = AfterSell(ledger, s, qty, price, Fee)
  BY DEF HoldingsAgree, Exited
<1>t. /\ ledger \in LedgerType /\ ledger' \in LedgerType
      /\ ledger.cash \in Int /\ ledger.realizedPnL \in Int /\ ledger.totalCosts \in Int
      /\ reported \in Int /\ Fee \in Int /\ StartingCash \in Int /\ n \in Int
      /\ qty \in Int /\ price \in Int /\ avg \in Int /\ got \in Int /\ cost \in Int
  <2>1. ledger.holdings[s] \in [qty : Nat, avg : Nat]
    BY DEF TypeOK, BooksTypeOK, LedgerType
  <2>2. qty \in Int /\ price \in Int /\ avg \in Int
    BY <1>1, <2>1 DEF Exited
  <2>3. ledger' \in LedgerType
    BY DEF TypeOK, BooksTypeOK
  <2> QED
    BY <2>2, <2>3, MoneyTypes
<1>2. ledger'.holdings = [ledger.holdings EXCEPT ![s] = Flat]
  BY <1>t, <1>1, HoldingsAfterSell
<1>3. Realized(ledger, s, qty, price) = got - cost
  BY <1>t, Distributes DEF Realized
<1>4. /\ ledger'.cash = ledger.cash + got - Fee
      /\ ledger'.totalCosts = ledger.totalCosts + Fee
      /\ ledger'.realizedPnL = ledger.realizedPnL + (got - cost)
      /\ reported' = reported + (got - cost) - 2 * Fee
  BY <1>t, <1>1, <1>3 DEF AfterSell, LedgerType, Exited
<1>5. DeployedCapital(ledger') = DeployedCapital(ledger) - cost
  <2>1. Flat \in [qty : Nat, avg : Nat] /\ Flat.avg * Flat.qty = 0
    BY DEF Flat
  <2>2. DeployedCapital(ledger') =
            DeployedCapital(ledger) - avg * ledger.holdings[s].qty + Flat.avg * Flat.qty
    BY <1>t, <1>2, <2>1, DeployedChange
  <2> QED
    BY <1>t, <1>1, <2>1, <2>2, DeployedInt
<1>6. Cardinality(OpenSymbols)' = n - 1
  BY OpenAfterExit, OpenIsFinite, FS_RemoveElement, ZenonT(60) DEF OpenSymbols
<1>7. DeployedCapital(ledger) \in Int
  BY <1>t, DeployedInt
<1>8. Fee * (n - 1) = Fee * n - Fee /\ Fee * n \in Int
  BY <1>t
<1> HIDE DEF got, cost, n, avg
<1>9. Reconciled'
  BY <1>t, <1>4, <1>5, <1>7 DEF MoneyInv, Reconciled, Drift
<1>10. PnLExplainsCash'
  BY <1>t, <1>4, <1>5, <1>6, <1>7, <1>8 DEF MoneyInv, PnLExplainsCash, n
<1> QED
  BY <1>9, <1>10 DEF MoneyInv

LEMMA InitMoney == Init => MoneyInv
<1> SUFFICES ASSUME Init PROVE MoneyInv
  OBVIOUS
<1>1. ledger \in LedgerType /\ \A s \in Symbols : ledger.holdings[s] = Flat
  BY InitTyped DEF Init, NewLedger, TypeOK, BooksTypeOK
<1>2. DeployedCapital(ledger) = 0
  BY <1>1, DeployedEmpty
<1>3. Cardinality(OpenSymbols) = 0
  <2>1. OpenSymbols = {}
    BY NoTradeNotHeld DEF Init, OpenSymbols, Open
  <2> QED
    BY <2>1, FS_EmptySet
<1>4. /\ ledger.cash = StartingCash /\ ledger.realizedPnL = 0 /\ ledger.totalCosts = 0
      /\ reported = 0
  BY DEF Init, NewLedger
<1> QED
  BY <1>2, <1>3, <1>4, ConstantsAssumption DEF MoneyInv, Reconciled, Drift, PnLExplainsCash

(* The two parts of the money's invariant, as one induction.               *)
THEOREM MoneyExact ==
    ASSUME FillCaps = {0}
    PROVE  Spec => []MoneyInv
<1>1. TypeOK /\ TypeOK' /\ PositionInv /\ HoldingsAgree /\ MoneyInv /\ [Next]_vars => MoneyInv'
  <2> SUFFICES ASSUME TypeOK, TypeOK', PositionInv, HoldingsAgree, MoneyInv, [Next]_vars
               PROVE  MoneyInv'
    OBVIOUS
  <2>1. CASE UNCHANGED bookVars
    BY <2>1 DEF bookVars, MoneyInv, Reconciled, PnLExplainsCash, OpenSymbols, Open
  <2>2. ASSUME NEW r, NEW ts, Rolled(r, ts), OnlyRolled(r, ts)
        PROVE  MoneyInv'
    <3>1. OpenSymbols' = OpenSymbols
      BY <2>2, OpenAfterRoll
    <3> QED
      BY <2>2, <3>1 DEF OnlyRolled, MoneyInv, Reconciled, PnLExplainsCash
  <2>3. ASSUME NEW s \in Symbols, NEW r, NEW ts, NEW trade, Rolled(r, ts), Open(s), Kept(s, r, ts, trade)
        PROVE  MoneyInv'
    <3>1. OpenSymbols' = OpenSymbols
      BY <2>3, OpenAfterKeep
    <3> QED
      BY <2>3, <3>1 DEF Kept, MoneyInv, Reconciled, PnLExplainsCash
  <2> QED
    BY <2>1, <2>2, <2>3, StepEffects, EntryKeepsMoney, ExitKeepsMoney
<1>2. Spec => []HoldingsAgree
  BY HoldingsExact
<1> QED
  BY <1>1, <1>2, InitMoney, Typed, PositionsExact, PTL DEF Spec

(* No order creates or destroys money: the reconciliation identity that    *)
(* ledger.go only computes on request holds after every candle, for any    *)
(* number of symbols, prices, fees, slippage and sizing.  With partial     *)
(* fills it would not: a rest that an exit leaves behind is averaged with  *)
(* the next buy, and the average is rounded.                               *)
THEOREM AlwaysReconciled ==
    ASSUME FillCaps = {0}
    PROVE  Spec => []Reconciled
<1>1. MoneyInv => Reconciled
  BY DEF MoneyInv
<1>2. Spec => []MoneyInv
  BY MoneyExact
<1> QED
  BY <1>1, <1>2, PTL

(* The profit the closed rows report is the change of cash once the open   *)
(* positions are added back, for every strategy.                           *)
THEOREM HistoryExplainsCash ==
    ASSUME FillCaps = {0}
    PROVE  Spec => []PnLExplainsCash
<1>1. MoneyInv => PnLExplainsCash
  BY DEF MoneyInv
<1>2. Spec => []MoneyInv
  BY MoneyExact
<1> QED
  BY <1>1, <1>2, PTL
-----------------------------------------------------------------------------
(* What a candle close does, with the moment it happens.                   *)

(* The risk state and the trades the handler works on: the day roll comes  *)
(* first (runtime.go OnCandleClose).                                       *)
RiskAt(c) == IF Day(c.time) # tradingDay THEN RollDay(risk) ELSE risk
TradesAt(c) == IF Day(c.time) # tradingDay THEN AgedTrades ELSE trades

Watched(s, c) == [TradesAt(c)[s] EXCEPT !.hwm = IF c.high > @ THEN c.high ELSE @]

(* The open time of the candle a symbol has under construction, in the     *)
(* timeframe of the strategy.                                              *)
Pending(s) == IF TfSlots = 1 THEN minute[s] ELSE bucket[s].time

EntersAt(s, c) ==
    /\ ~Open(s)
    /\ WantsEntry(s, c, RiskAt(c), barIndex + 1)
    /\ \E trade \in TradeType :
          /\ trade.state = "ACTIVE" /\ trade.time = c.time
          /\ trades' = [TradesAt(c) EXCEPT ![s] = trade]
          /\ rows' = [rows EXCEPT ![s] = OpenRow(trade)]
    /\ risk' = RecordEntry(RiskAt(c), s)
    /\ lossOn' = lossOn

ExitsAt(s, c) ==
    /\ Open(s)
    /\ trades' = [TradesAt(c) EXCEPT ![s] = NoTrade]
    /\ \E final \in Terminal : rows' = [rows EXCEPT ![s] = ClosedRow(final, c.time)]
    /\ \E realized \in Int :
          /\ risk' = RecordExit(RiskAt(c), s, barIndex + 1, realized)
          /\ lossOn' = [lossOn EXCEPT ![Day(c.time)] = IF realized < 0 THEN @ - realized ELSE @]

(* Nothing is bought or sold.  A trade that is open stays open, and if     *)
(* orders always fill, nothing asked for its exit.                         *)
StaysAt(s, c, fills) ==
    /\ risk' = RiskAt(c) /\ lossOn' = lossOn
    /\ IF Open(s)
       THEN /\ fills => \E signal \in SignalValues : ExitReason(Watched(s, c), c, signal) = "none"
            /\ \E trade \in TradeType :
                  /\ trade.time = trades[s].time
                  /\ trades' = [TradesAt(c) EXCEPT ![s] = trade]
                  /\ rows' = rows \/ rows' = [rows EXCEPT ![s] = OpenRow(trade)]
       ELSE trades' = TradesAt(c) /\ rows' = rows

(* Every order the strategy sends is filled, wholly or in part.            *)
SellsFill(s, quote) ==
    /\ ~CircuitWired /\ quote # NoPrice
    /\ Open(s) => ledger.holdings[s].qty >= trades[s].qty

LEMMA AlwaysFills ==
    ASSUME NEW side, NEW qty \in Nat \ {0}, NEW quote \in Nat \ {0}, NEW cap \in Nat
    PROVE  IsFill(PlaceOrder(side, qty, quote, TRUE, SlippagePct, cap))
<1> DEFINE filled == IF cap > 0 /\ qty > cap THEN cap ELSE qty
           slip == (quote * SlippagePct) \div 100
<1>1. quote # NoPrice /\ ~(filled <= 0)
  BY DEF NoPrice
<1> HIDE DEF filled
<1>2. PlaceOrder(side, qty, quote, TRUE, SlippagePct, cap) =
        [state  |-> IF filled < qty THEN "PARTIAL" ELSE "FILLED", reason |-> "", qty |-> filled,
         price  |-> IF side = "BUY" THEN quote + slip ELSE quote - slip]
  BY <1>1, Zenon DEF PlaceOrder, filled
<1> DEFINE fill == PlaceOrder(side, qty, quote, TRUE, SlippagePct, cap)
           verdict == IF filled < qty THEN "PARTIAL" ELSE "FILLED"
<1>3. fill.state = verdict
  <2> DEFINE price == IF side = "BUY" THEN quote + slip ELSE quote - slip
  <2> HIDE DEF fill, verdict, price
  <2>1. fill = [state |-> verdict, reason |-> "", qty |-> filled, price |-> price]
    BY <1>2 DEF fill, verdict, price
  <2> QED
    BY <2>1
<1> QED
  BY <1>3 DEF IsFill

LEMMA TradesAtFacts ==
    ASSUME BooksTypeOK, NEW c \in CandleType
    PROVE  /\ RiskAt(c) \in RiskType
           /\ RiskAt(c).cooldownUntil = risk.cooldownUntil
           /\ Day(c.time) # tradingDay => RiskAt(c).dailyLoss = 0
           /\ Day(c.time) = tradingDay => RiskAt(c).dailyLoss = risk.dailyLoss
           /\ TradesAt(c) \in TradesType
           /\ \A s \in Symbols :
                 /\ TradesAt(c)[s].state = trades[s].state
                 /\ TradesAt(c)[s].time = trades[s].time
                 /\ TradesAt(c)[s].hwm = trades[s].hwm
                 /\ SamePosition(TradesAt(c)[s], trades[s])
<1>1. /\ RiskAt(c) \in RiskType /\ RiskAt(c).cooldownUntil = risk.cooldownUntil
      /\ Day(c.time) # tradingDay => RiskAt(c).dailyLoss = 0
      /\ Day(c.time) = tradingDay => RiskAt(c).dailyLoss = risk.dailyLoss
  BY DEF RiskAt, RollDay, RiskType, BooksTypeOK
<1>2. TradesAt(c) \in TradesType
  BY AgedTradesFacts DEF TradesAt, BooksTypeOK, TradesType
<1>3. ASSUME NEW s \in Symbols
      PROVE  /\ TradesAt(c)[s].state = trades[s].state
             /\ TradesAt(c)[s].time = trades[s].time
             /\ TradesAt(c)[s].hwm = trades[s].hwm
             /\ SamePosition(TradesAt(c)[s], trades[s])
  <2>1. CASE Open(s)
    <3>1. trades[s] \in TradeType
      BY <2>1, OpenIsTyped
    <3> QED
      BY <2>1, <3>1 DEF TradesAt, AgedTrades, TradeType, SamePosition
  <2>2. CASE ~Open(s)
    BY <2>2 DEF TradesAt, AgedTrades, SamePosition
  <2> QED
    BY <2>1, <2>2
<1> QED
  BY <1>1, <1>2, <1>3

LEMMA WatchedFacts ==
    ASSUME BooksTypeOK, NEW c \in CandleType, NEW s \in Symbols, Open(s)
    PROVE  /\ Watched(s, c) \in TradeType
           /\ Watched(s, c).state = trades[s].state
           /\ Watched(s, c).time = trades[s].time
           /\ Watched(s, c).hwm >= trades[s].hwm
           /\ SamePosition(Watched(s, c), trades[s])
<1>1. TradesAt(c)[s] \in TradeType
  BY TradesAtFacts, NoTradeNotHeld DEF TradesType, Open
<1>2. /\ TradesAt(c)[s].state = trades[s].state /\ TradesAt(c)[s].time = trades[s].time
      /\ TradesAt(c)[s].hwm = trades[s].hwm /\ SamePosition(TradesAt(c)[s], trades[s])
  BY TradesAtFacts
<1>3. c.high \in Nat
  BY DEF CandleType
<1> QED
  BY <1>1, <1>2, <1>3 DEF Watched, TradeType, SamePosition

LEMMA EntryOutcome ==
    ASSUME BooksTypeOK, NEW s \in Symbols, NEW c \in CandleType, NEW quote \in Nat, ~Open(s),
           TryEntry(s, c, quote, RiskAt(c), TradesAt(c), barIndex + 1)
    PROVE  EntersAt(s, c) \/ StaysAt(s, c, SellsFill(s, quote))
<1> DEFINE qty == EntryQuantity(c)
           order(ok, cap) == PlaceOrder("BUY", qty, quote, ok, SlippagePct, cap)
           bought(fill) == [state |-> "ACTIVE", qty |-> fill.qty, entry |-> fill.price,
                            hwm |-> fill.price, days |-> 0, time |-> c.time]
<1>1. SUFFICES ASSUME NEW ok \in CircuitAnswers, NEW cap \in FillCaps,
                      WantsEntry(s, c, RiskAt(c), barIndex + 1), IsFill(order(ok, cap)),
                      trades' = [TradesAt(c) EXCEPT ![s] = bought(order(ok, cap))],
                      risk' = RecordEntry(RiskAt(c), s),
                      rows' = [rows EXCEPT ![s] = OpenRow(bought(order(ok, cap)))],
                      lossOn' = lossOn
               PROVE  EntersAt(s, c)
  BY DEF TryEntry, StaysAt
<1>2. qty \in Nat
  BY EntryQuantityNat DEF BooksTypeOK
<1>3. ok \in BOOLEAN /\ cap \in Nat
  BY ConstantsAssumption DEF CircuitAnswers
<1> HIDE DEF qty
<1>4. order(ok, cap).qty \in 1 .. qty /\ order(ok, cap).price \in Nat
  BY <1>1, <1>2, <1>3, FillFacts
<1> HIDE DEF order
<1>5. bought(order(ok, cap)) \in TradeType
  BY <1>2, <1>4 DEF TradeType, CandleType, Held
<1>6. bought(order(ok, cap)).state = "ACTIVE" /\ bought(order(ok, cap)).time = c.time
  OBVIOUS
<1> HIDE DEF bought
<1> QED
  BY <1>1, <1>5, <1>6 DEF EntersAt

LEMMA ExitOutcome ==
    ASSUME BooksTypeOK, NEW s \in Symbols, NEW c \in CandleType, NEW quote \in Nat, Open(s),
           ManageOpenTrade(s, c, quote, RiskAt(c), TradesAt(c), barIndex + 1)
    PROVE  ExitsAt(s, c) \/ StaysAt(s, c, SellsFill(s, quote))
<1> DEFINE tr == Watched(s, c)
           expired == [tr EXCEPT !.state = "EXPIRED"]
           order(ok, cap) == PlaceOrder("SELL", tr.qty, quote, ok, SlippagePct, cap)
<1>1. tr \in TradeType /\ tr.time = trades[s].time /\ tr.qty = trades[s].qty
  BY WatchedFacts DEF SamePosition
<1>2. expired \in TradeType /\ expired.time = trades[s].time
  BY <1>1 DEF TradeType, Held
<1>3. PICK signal \in SignalValues, ok \in CircuitAnswers, cap \in FillCaps :
        LET reason == ExitReason(tr, c, signal)
            fill == order(ok, cap)
        IN  IF reason # "none" /\ IsFill(fill) /\ CanSell(ledger, s, fill.qty)
            THEN CloseTrade(s, c, RiskAt(c), TradesAt(c), barIndex + 1, tr, reason, fill)
            ELSE /\ risk' = RiskAt(c)
                 /\ IF reason = "none" /\ ExpiryDue(tr, c, signal)
                    THEN /\ trades' = [TradesAt(c) EXCEPT ![s] = expired]
                         /\ rows' = [rows EXCEPT ![s] = OpenRow(expired)]
                    ELSE /\ trades' = [TradesAt(c) EXCEPT ![s] = tr]
                         /\ rows' = rows
                 /\ UNCHANGED <<openCount, ledger, deployed, reported, lossOn>>
  BY DEF ManageOpenTrade, Watched
<1> DEFINE reason == ExitReason(tr, c, signal)
           fill == order(ok, cap)
<1>4. /\ ok \in BOOLEAN /\ cap \in Nat /\ tr.qty \in Nat \ {0} /\ tr.entry \in Nat
      /\ ~CircuitWired => ok = TRUE
  BY <1>1, ConstantsAssumption DEF CircuitAnswers, TradeType
<1> HIDE DEF tr, expired
<1>5. CASE reason # "none" /\ IsFill(fill) /\ CanSell(ledger, s, fill.qty)
  <2>1. CloseTrade(s, c, RiskAt(c), TradesAt(c), barIndex + 1, tr, reason, fill)
    BY <1>3, <1>5
  <2>2. fill.qty \in 1 .. tr.qty /\ fill.price \in Int
    BY <1>4, <1>5, FillFacts
  <2>3. Realized(ledger, s, fill.qty, fill.price) \in Int
    BY <1>4, <2>2, RealizedInt DEF BooksTypeOK
  <2>4. StateForReason(reason) \in Terminal
    BY DEF StateForReason, Terminal
  <2> HIDE DEF fill, reason
  <2>5. ExitsAt(s, c)
    BY <2>1, <2>3, <2>4 DEF CloseTrade, ExitsAt
  <2> QED
    BY <2>5
<1>6. CASE ~(reason # "none" /\ IsFill(fill) /\ CanSell(ledger, s, fill.qty))
  <2>1. SellsFill(s, quote) => reason = "none"
    <3> SUFFICES ASSUME SellsFill(s, quote) PROVE IsFill(fill) /\ CanSell(ledger, s, fill.qty)
      BY <1>6
    <3>1. IsFill(fill)
      BY <1>4, AlwaysFills DEF SellsFill, NoPrice
    <3>2. fill.qty \in 1 .. tr.qty
      BY <1>4, <3>1, FillFacts
    <3>3. ledger.holdings[s].qty \in Nat /\ ledger.holdings[s].qty >= tr.qty
      BY <1>1 DEF SellsFill, BooksTypeOK, LedgerType
    <3> HIDE DEF fill
    <3> QED
      BY <1>4, <3>1, <3>2, <3>3 DEF CanSell
  <2>2. risk' = RiskAt(c) /\ lossOn' = lossOn
    BY <1>3, <1>6
  <2>3. \/ trades' = [TradesAt(c) EXCEPT ![s] = expired] /\ rows' = [rows EXCEPT ![s] = OpenRow(expired)]
        \/ trades' = [TradesAt(c) EXCEPT ![s] = tr] /\ rows' = rows
    BY <1>3, <1>6
  <2>4. \E trade \in TradeType :
           /\ trade.time = trades[s].time
           /\ trades' = [TradesAt(c) EXCEPT ![s] = trade]
           /\ rows' = rows \/ rows' = [rows EXCEPT ![s] = OpenRow(trade)]
    BY <1>1, <1>2, <2>3
  <2>5. SellsFill(s, quote) => \E sig \in SignalValues : ExitReason(Watched(s, c), c, sig) = "none"
    BY <2>1 DEF tr
  <2> QED
    BY <2>2, <2>4, <2>5 DEF StaysAt
<1> QED
  BY <1>5, <1>6

(* The outcomes of a candle handed to a runtime that is not stopped.       *)
LEMMA CandleOutcome ==
    ASSUME BooksTypeOK, NEW s \in Symbols, NEW c \in CandleType, NEW quote \in Nat,
           state # "stopped", OnCandleClose(s, c, quote)
    PROVE  /\ barIndex' = barIndex + 1 /\ tradingDay' = Day(c.time)
           /\ EntersAt(s, c) \/ ExitsAt(s, c) \/ StaysAt(s, c, SellsFill(s, quote))
<1>1. /\ barIndex' = barIndex + 1 /\ tradingDay' = Day(c.time)
      /\ IF Open(s) THEN ManageOpenTrade(s, c, quote, RiskAt(c), TradesAt(c), barIndex + 1)
         ELSE TryEntry(s, c, quote, RiskAt(c), TradesAt(c), barIndex + 1)
  BY DEF OnCandleClose, RiskAt, TradesAt
<1> QED
  BY <1>1, EntryOutcome, ExitOutcome

(* A minute closes: the runtime is handed the pending candle, the minute   *)
(* itself or the bucket before it, or the minute goes into a bucket.       *)
Hands(s, c, quote) ==
    /\ c \in CandleType /\ quote \in Nat
    /\ c.time = Pending(s) /\ c.close = HandedClose(s)
    /\ ltp[s] # NoPrice => quote # NoPrice
    /\ IF TfSlots = 1 THEN bucket' = bucket
       ELSE /\ bucket'[s].time = minute[s] /\ Bucket(c.time) # Bucket(minute[s])
            /\ \A x \in Symbols \ {s} : bucket'[x] = bucket[x]
    /\ OnCandleClose(s, c, quote)

Collects(s) ==
    /\ TfSlots # 1
    /\ bucket'[s].time = IF bucket[s].time = NoTime THEN minute[s] ELSE bucket[s].time
    /\ bucket[s].time # NoTime => Bucket(bucket[s].time) = Bucket(minute[s])
    /\ \A x \in Symbols \ {s} : bucket'[x] = bucket[x]
    /\ UNCHANGED <<barIndex, tradingDay, bookVars>>

LEMMA MinuteCloseCases ==
    ASSUME TypeOK, NEW s \in Symbols, MinuteClose(s)
    PROVE  /\ minute[s] # NoTime /\ minute[s] < now /\ minute' = [minute EXCEPT ![s] = now]
           /\ now' = now /\ state' = state
           /\ ltp'[s] # NoPrice /\ \A x \in Symbols \ {s} : ltp'[x] = ltp[x]
           /\ Collects(s) \/ \E c, quote : Hands(s, c, quote)
<1> USE DEF TypeOK, FeedTypeOK
<1>1. PICK high \in Prices, close \in Prices :
         LET m == [time |-> minute[s], high |-> high, close |-> close]
         IN  /\ ltp' = [ltp EXCEPT ![s] = close]
             /\ IF TfSlots = 1
                THEN /\ bucket' = bucket
                     /\ \E quote \in {close, ltp[s]} : OnCandleClose(s, m, quote)
                ELSE Aggregate(s, m)
  BY DEF MinuteClose
<1> DEFINE m == [time |-> minute[s], high |-> high, close |-> close]
<1>2. m \in CandleType /\ close \in Nat \ {0} /\ m.time = minute[s] /\ m.close = close
  BY ConstantsAssumption DEF MinuteClose, CandleType, TimeType
<1>3. /\ minute[s] # NoTime /\ minute[s] < now /\ minute' = [minute EXCEPT ![s] = now]
      /\ now' = now /\ state' = state
  BY DEF MinuteClose
<1>4. ltp'[s] = close /\ ltp[s] \in Nat /\ \A x \in Symbols \ {s} : ltp'[x] = ltp[x]
  BY <1>1
<1>5. CASE TfSlots = 1
  <2>1. PICK quote \in {close, ltp[s]} : OnCandleClose(s, m, quote)
    BY <1>1, <1>5
  <2>2. bucket' = bucket
    BY <1>1, <1>5
  <2> HIDE DEF m
  <2>3. Hands(s, m, quote)
    BY <1>2, <1>4, <1>5, <2>1, <2>2 DEF Hands, Pending, HandedClose, NoPrice
  <2> QED
    BY <1>2, <1>3, <1>4, <2>3 DEF NoPrice
<1>6. CASE TfSlots # 1
  <2> DEFINE b == bucket[s]
             closes == b.time # NoTime /\ Bucket(b.time) # Bucket(m.time)
             longer == [b EXCEPT !.high = IF m.high > @ THEN m.high ELSE @, !.close = m.close]
  <2>1. Aggregate(s, m)
    BY <1>1, <1>6
  <2>2. b \in CandleType \cup {NoBucket}
    OBVIOUS
  <2>3. longer.time = b.time
    BY <2>2 DEF CandleType, NoBucket
  <2> HIDE DEF m
  <2>4. CASE closes
    <3>1. bucket' = [bucket EXCEPT ![s] = m] /\ OnCandleClose(s, b, m.close)
      BY <2>1, <2>4 DEF Aggregate
    <3>2. b \in CandleType
      BY <2>2, <2>4 DEF NoBucket
    <3>3. /\ b.time = Pending(s) /\ b.close = HandedClose(s) /\ bucket'[s] = m
          /\ \A x \in Symbols \ {s} : bucket'[x] = bucket[x]
      BY <1>6, <3>1 DEF Pending, HandedClose
    <3>4. Hands(s, b, m.close)
      BY <1>2, <1>6, <2>4, <3>1, <3>2, <3>3 DEF Hands, NoPrice
    <3> QED
      BY <1>2, <1>3, <1>4, <3>4 DEF NoPrice
  <2>5. CASE ~closes
    <3>1. /\ bucket' = [bucket EXCEPT ![s] = IF b.time = NoTime THEN m ELSE longer]
          /\ UNCHANGED <<barIndex, tradingDay, bookVars>>
      BY <2>1, <2>5 DEF Aggregate
    <3> HIDE DEF longer
    <3>2. Collects(s)
      BY <1>2, <1>6, <2>3, <2>5, <3>1 DEF Collects
    <3> QED
      BY <1>2, <1>3, <1>4, <3>2 DEF NoPrice
  <2> QED
    BY <2>4, <2>5
<1> QED
  BY <1>5, <1>6

LEMMA OthersStay ==
    ASSUME TypeOK, NEW s \in Symbols, NEW c \in CandleType, NEW fills,
           EntersAt(s, c) \/ ExitsAt(s, c) \/ StaysAt(s, c, fills)
    PROVE  \A x \in Symbols \ {s} : /\ trades'[x].state = trades[x].state
                                    /\ trades'[x].time = trades[x].time
                                    /\ rows'[x] = rows[x]
<1> SUFFICES ASSUME NEW x \in Symbols \ {s}
             PROVE  /\ trades'[x].state = trades[x].state
                    /\ trades'[x].time = trades[x].time
                    /\ rows'[x] = rows[x]
  OBVIOUS
<1>1. trades'[x] = TradesAt(c)[x]
  <2>1. TradesAt(c) \in TradesType
    BY TradesAtFacts DEF TypeOK
  <2> QED
    BY <2>1 DEF EntersAt, ExitsAt, StaysAt, TradesType
<1>2. rows'[x] = rows[x]
  BY DEF EntersAt, ExitsAt, StaysAt, TypeOK, BooksTypeOK
<1>3. TradesAt(c)[x].state = trades[x].state /\ TradesAt(c)[x].time = trades[x].time
  BY TradesAtFacts DEF TypeOK
<1> QED
  BY <1>1, <1>2, <1>3

(* What became of the symbol itself.                                       *)
LEMMA SymbolOutcome ==
    ASSUME TypeOK, NEW s \in Symbols, NEW c \in CandleType, NEW fills,
           EntersAt(s, c) \/ ExitsAt(s, c) \/ StaysAt(s, c, fills)
    PROVE  /\ EntersAt(s, c) => Open(s)' /\ trades'[s].time = c.time
           /\ ExitsAt(s, c) => ~Open(s)' /\ rows'[s].exitTime = c.time
           /\ StaysAt(s, c, fills) => /\ Open(s)' <=> Open(s)
                                      /\ Open(s) => trades'[s].time = trades[s].time
                                      /\ ~Open(s) => rows'[s] = rows[s]
<1>1. TradesAt(c) \in TradesType /\ TradesAt(c)[s].state = trades[s].state
  BY TradesAtFacts DEF TypeOK
<1>2. rows \in [Symbols -> RowType]
  BY DEF TypeOK, BooksTypeOK
<1>3. EntersAt(s, c) => Open(s)' /\ trades'[s].time = c.time
  BY <1>1 DEF EntersAt, TradesType, TradeType, Open, Held
<1>4. ExitsAt(s, c) => ~Open(s)' /\ rows'[s].exitTime = c.time
  <2>1. \A final \in Terminal : ClosedRow(final, c.time).exitTime = c.time
    BY DEF ClosedRow, NoRow
  <2> QED
    BY <1>1, <1>2, <2>1, NoTradeNotHeld DEF ExitsAt, TradesType, Open
<1>5. StaysAt(s, c, fills) => /\ Open(s)' <=> Open(s)
                              /\ Open(s) => trades'[s].time = trades[s].time
                              /\ ~Open(s) => rows'[s] = rows[s]
  BY <1>1 DEF StaysAt, TradesType, TradeType, Open
<1> QED
  BY <1>3, <1>4, <1>5

(* The step of a candle in one place: what is handed, and the outcome.     *)
LEMMA HandedOutcome ==
    ASSUME TypeOK, NEW s \in Symbols, NEW c, NEW quote, Hands(s, c, quote)
    PROVE  /\ c \in CandleType
           /\ state = "stopped" => UNCHANGED <<barIndex, tradingDay, bookVars>>
           /\ state # "stopped" =>
                 /\ barIndex' = barIndex + 1 /\ tradingDay' = Day(c.time)
                 /\ EntersAt(s, c) \/ ExitsAt(s, c) \/ StaysAt(s, c, SellsFill(s, quote))
<1>1. c \in CandleType /\ quote \in Nat /\ OnCandleClose(s, c, quote)
  BY DEF Hands
<1>2. state = "stopped" => UNCHANGED <<barIndex, tradingDay, bookVars>>
  BY <1>1 DEF OnCandleClose
<1> QED
  BY <1>1, <1>2, CandleOutcome DEF TypeOK
-----------------------------------------------------------------------------
(* Exits cannot be refused.                                                *)

Priced == \A s \in Symbols : Open(s) => ltp[s] # NoPrice
Covered == \A s \in Symbols : Open(s) => ledger.holdings[s].qty >= trades[s].qty

LEMMA HoldingsGrow ==
    ASSUME ledger \in LedgerType, NEW s \in Symbols, NEW qty \in Nat \ {0}, NEW price \in Nat
    PROVE  /\ AfterBuy(ledger, s, qty, price, Fee).holdings[s].qty >= qty
           /\ \A x \in Symbols \ {s} :
                 AfterBuy(ledger, s, qty, price, Fee).holdings[x] = ledger.holdings[x]
<1>1. ledger.holdings \in [Symbols -> [qty : Nat, avg : Nat]]
  BY DEF LedgerType
<1>2. Bought(ledger.holdings[s], qty, price).qty >= qty
  <2>1. ledger.holdings[s].qty \in Nat
    BY <1>1
  <2> QED
    BY <2>1 DEF Bought
<1>3. AfterBuy(ledger, s, qty, price, Fee).holdings =
        [ledger.holdings EXCEPT ![s] = Bought(ledger.holdings[s], qty, price)]
  BY DEF AfterBuy, LedgerType
<1> QED
  BY <1>1, <1>2, <1>3

LEMMA HoldingsOfOthers ==
    ASSUME ledger \in LedgerType, NEW s \in Symbols, NEW qty, NEW price, NEW x \in Symbols \ {s}
    PROVE  AfterSell(ledger, s, qty, price, Fee).holdings[x] = ledger.holdings[x]
<1>1. AfterSell(ledger, s, qty, price, Fee).holdings =
        [ledger.holdings EXCEPT ![s] = Sold(ledger.holdings[s], qty)]
  BY DEF AfterSell, LedgerType
<1> QED
  BY <1>1 DEF LedgerType

(* The ledger never holds less of a symbol than its open trade says, with  *)
(* partial fills too: a part that an exit left behind only adds to it.     *)
THEOREM HoldingsCover == Spec => []Covered
<1>1. Init => Covered
  BY NoTradeNotHeld DEF Init, Covered, Open
<1>2. TypeOK /\ Covered /\ [Next]_vars => Covered'
  <2> SUFFICES ASSUME TypeOK, Covered, [Next]_vars, NEW x \in Symbols, Open(x)'
               PROVE  ledger'.holdings[x].qty >= trades'[x].qty
    BY DEF Covered
  <2>t. ledger \in LedgerType
    BY DEF TypeOK, BooksTypeOK
  <2>1. CASE UNCHANGED bookVars
    BY <2>1 DEF bookVars, Covered, Open
  <2>2. ASSUME NEW r, NEW ts, Rolled(r, ts), OnlyRolled(r, ts)
        PROVE  ledger'.holdings[x].qty >= trades'[x].qty
    BY <2>2 DEF Rolled, OnlyRolled, Covered, Open, SamePosition
  <2>3. ASSUME NEW s \in Symbols, NEW r, NEW ts, NEW trade, Rolled(r, ts), Entered(s, r, ts, trade)
        PROVE  ledger'.holdings[x].qty >= trades'[x].qty
    <3>1. /\ trade.qty \in Nat \ {0} /\ trade.entry \in Nat
          /\ ledger' = AfterBuy(ledger, s, trade.qty, trade.entry, Fee)
          /\ trades' = [ts EXCEPT ![s] = trade]
      BY <2>3 DEF Entered, TradeType
    <3>2. CASE x = s
      BY <2>t, <2>3, <3>1, <3>2, HoldingsGrow DEF Rolled, TradesType
    <3>3. CASE x # s
      <4>1. ledger'.holdings[x] = ledger.holdings[x]
        BY <2>t, <3>1, <3>3, HoldingsGrow
      <4>2. Open(x) /\ SamePosition(trades'[x], trades[x])
        BY <2>3, <3>1, <3>3 DEF Rolled, TradesType, Open
      <4> QED
        BY <4>1, <4>2 DEF Covered, SamePosition
    <3> QED
      BY <3>2, <3>3
  <2>4. ASSUME NEW s \in Symbols, NEW r, NEW ts, NEW trade, Rolled(r, ts), Open(s), Kept(s, r, ts, trade)
        PROVE  ledger'.holdings[x].qty >= trades'[x].qty
    <3>1. Open(x) /\ SamePosition(trades'[x], trades[x])
      BY <2>4 DEF Rolled, Kept, TradesType, Open
    <3>2. ledger' = ledger
      BY <2>4 DEF Kept
    <3> QED
      BY <3>1, <3>2 DEF Covered, SamePosition
  <2>5. ASSUME NEW s \in Symbols, NEW r, NEW ts, NEW qty, NEW price, NEW final, NEW time,
               Rolled(r, ts), Open(s), Exited(s, r, ts, barIndex', qty, price, final, time)
        PROVE  ledger'.holdings[x].qty >= trades'[x].qty
    <3>1. x # s /\ Open(x) /\ SamePosition(trades'[x], trades[x])
      BY <2>5, NoTradeNotHeld DEF Rolled, Exited, TradesType, Open
    <3>2. ledger'.holdings[x] = ledger.holdings[x]
      BY <2>t, <2>5, <3>1, HoldingsOfOthers DEF Exited
    <3> QED
      BY <3>1, <3>2 DEF Covered, SamePosition
  <2> QED
    BY <2>1, <2>2, <2>3, <2>4, <2>5, StepEffects
<1> QED
  BY <1>1, <1>2, Typed, PTL DEF Spec

(* A symbol that is held has had a price (main.go latestPrice).            *)
THEOREM HeldIsPriced == Spec => []Priced
<1>1. Init => Priced
  BY NoTradeNotHeld DEF Init, Priced, Open
<1>2. TypeOK /\ Priced /\ [Next]_vars => Priced'
  <2> SUFFICES ASSUME TypeOK, Priced, [Next]_vars, NEW x \in Symbols, Open(x)'
               PROVE  ltp'[x] # NoPrice
    BY DEF Priced
  <2>1. CASE UNCHANGED <<ltp, trades>>
    BY <2>1 DEF Priced, Open
  <2>2. ASSUME NEW s \in Symbols, MinuteClose(s)
        PROVE  ltp'[x] # NoPrice
    <3>1. ltp'[s] # NoPrice /\ \A y \in Symbols \ {s} : ltp'[y] = ltp[y]
      BY <2>2, MinuteCloseCases
    <3>2. x # s => Open(x)
      <4>1. CASE UNCHANGED bookVars
        BY <4>1 DEF bookVars, Open
      <4>2. ASSUME NEW c, NEW quote, Hands(s, c, quote), state # "stopped"
            PROVE  x # s => Open(x)
        <5>1. /\ c \in CandleType
              /\ EntersAt(s, c) \/ ExitsAt(s, c) \/ StaysAt(s, c, SellsFill(s, quote))
          BY <4>2, HandedOutcome
        <5> QED
          BY <5>1, OthersStay DEF Open
      <4> QED
        BY <2>2, <4>1, <4>2, MinuteCloseCases, HandedOutcome DEF Collects
    <3> QED
      BY <3>1, <3>2 DEF Priced
  <2> QED
    BY <2>1, <2>2 DEF Next, AdvanceClock, FirstTick, SetState, vars, feedVars, bookVars
<1> QED
  BY <1>1, <1>2, Typed, PTL DEF Spec
-----------------------------------------------------------------------------
(* Stops.                                                                  *)

StopLeaves == {"stop_loss", "trailing_sl"}

(* No leaf that may still be warming up comes before a stop in exit.any.   *)
StopsComeFirst ==
    \A i, j \in DOMAIN ExitLeaves :
        ExitLeaves[i] = "signal" /\ ExitLeaves[j] \in StopLeaves => j < i

LEMMA VerdictOfFirst ==
    ASSUME NEW tr, NEW price, NEW signal, NEW k \in DOMAIN ExitLeaves,
           LeafValue(ExitLeaves[k], tr, price, signal) # "false"
    PROVE  \E m \in DOMAIN ExitLeaves :
              /\ m <= k
              /\ LeafValue(ExitLeaves[m], tr, price, signal) # "false"
              /\ ExitVerdict(tr, price, signal) = LeafValue(ExitLeaves[m], tr, price, signal)
<1> DEFINE value(i) == LeafValue(ExitLeaves[i], tr, price, signal)
           decided == {i \in DOMAIN ExitLeaves : value(i) # "false"}
           deciding == {i \in DOMAIN ExitLeaves :
                           value(i) # "false" /\ \A j \in 1 .. i - 1 : value(j) = "false"}
<1>0. DOMAIN ExitLeaves = 1 .. Len(ExitLeaves) /\ Len(ExitLeaves) \in Nat
  BY ConstantsAssumption
<1> HIDE DEF value
<1>1. PICK m \in decided : \A i \in decided : m <= i
  <2>1. decided \in SUBSET Nat /\ decided # {}
    BY <1>0 DEF value
  <2> HIDE DEF decided
  <2> QED
    BY <2>1, LeastNatural
<1>2. m \in deciding /\ \A i \in deciding : i = m
  BY <1>0, <1>1
<1>3. ExitVerdict(tr, price, signal) = IF deciding = {} THEN "false"
                                       ELSE value(CHOOSE i \in deciding : TRUE)
  BY DEF ExitVerdict, value
<1>4. First(deciding) = m
  <2> HIDE DEF deciding
  <2> QED
    BY <1>2, FirstIn
<1>5. ExitVerdict(tr, price, signal) = value(m)
  <2> HIDE DEF deciding
  <2> QED
    BY <1>2, <1>3, <1>4 DEF First
<1>6. m <= k /\ m \in DOMAIN ExitLeaves /\ value(m) # "false"
  BY <1>1 DEF value
<1> QED
  BY <1>5, <1>6 DEF value

LEMMA StopDecides ==
    ASSUME StopsComeFirst, NEW tr, NEW price, NEW signal \in SignalValues,
           NEW k \in DOMAIN ExitLeaves, ExitLeaves[k] \in StopLeaves,
           ShorthandHit(ExitLeaves[k], tr, price)
    PROVE  ExitVerdict(tr, price, signal) = "true"
<1>1. LeafValue(ExitLeaves[k], tr, price, signal) # "false"
  BY DEF LeafValue, StopLeaves
<1>2. PICK m \in DOMAIN ExitLeaves :
          /\ m <= k
          /\ LeafValue(ExitLeaves[m], tr, price, signal) # "false"
          /\ ExitVerdict(tr, price, signal) = LeafValue(ExitLeaves[m], tr, price, signal)
  BY <1>1, VerdictOfFirst
<1>3. ExitLeaves[m] # "signal"
  <2>1. m \in Nat /\ k \in Nat
    BY ConstantsAssumption
  <2> QED
    BY <1>2, <2>1 DEF StopsComeFirst
<1> QED
  BY <1>2, <1>3 DEF LeafValue

LEMMA ReasonIsNamed ==
    ASSUME NEW tr, NEW price
    PROVE  AttributedReason(tr, price) # "none"
<1> DEFINE fired(i) == HasLeaf(ExitPriority[i]) /\ ShorthandHit(ExitPriority[i], tr, price)
           first == {i \in DOMAIN ExitPriority : fired(i) /\ \A j \in 1 .. i - 1 : ~fired(j)}
<1>1. AttributedReason(tr, price) = IF first = {} THEN "signal" ELSE ExitPriority[First(first)]
  BY DEF AttributedReason, First
<1>2. first # {} => First(first) \in DOMAIN ExitPriority
  <2>1. first \subseteq DOMAIN ExitPriority
    OBVIOUS
  <2> HIDE DEF first
  <2> QED
    BY <2>1, FirstIn
<1>3. \A i \in DOMAIN ExitPriority : ExitPriority[i] # "none"
  BY ConstantsAssumption
<1> HIDE DEF first
<1> QED
  BY <1>1, <1>2, <1>3

LEMMA StopIsAReason ==
    ASSUME TypeOK, StopsComeFirst, NEW s \in Symbols, NEW c \in CandleType, Open(s),
           \/ HasLeaf("stop_loss") /\ StopLossHit(trades[s], c.close)
           \/ HasLeaf("trailing_sl") /\ TrailingSLHit(trades[s], c.close),
           NEW signal \in SignalValues
    PROVE  ExitReason(Watched(s, c), c, signal) # "none"
<1> DEFINE tr == Watched(s, c)
<1>1. /\ tr \in TradeType /\ trades[s] \in TradeType
      /\ tr.hwm >= trades[s].hwm /\ tr.entry = trades[s].entry
  BY WatchedFacts, OpenIsTyped DEF TypeOK, SamePosition
<1> HIDE DEF tr
<1>2. CASE HasLeaf("stop_loss") /\ StopLossHit(trades[s], c.close)
  <2>1. PICK k \in DOMAIN ExitLeaves : ExitLeaves[k] = "stop_loss"
    BY <1>2 DEF HasLeaf
  <2>2. ShorthandHit(ExitLeaves[k], tr, c.close)
    BY <1>1, <1>2, <2>1 DEF ShorthandHit, StopLossHit
  <2>3. ExitVerdict(tr, c.close, signal) = "true"
    BY <2>1, <2>2, StopDecides DEF StopLeaves
  <2> QED
    BY <2>3, ReasonIsNamed DEF ExitReason, tr
<1>3. CASE HasLeaf("trailing_sl") /\ TrailingSLHit(trades[s], c.close)
  <2>1. PICK k \in DOMAIN ExitLeaves : ExitLeaves[k] = "trailing_sl"
    BY <1>3 DEF HasLeaf
  <2>2. TrailingSLHit(tr, c.close)
    <3> DEFINE keep == 100 - TrailPct
    <3>1. /\ c.close \in Nat \ {0} /\ keep \in Int /\ c.close * 100 <= trades[s].hwm * keep
          /\ tr.hwm \in Nat /\ trades[s].hwm \in Nat
      BY <1>1, <1>3, ConstantsAssumption, SMTT(40) DEF TrailingSLHit, CandleType, TradeType
    <3> HIDE DEF keep
    <3>2. keep > 0
      BY <3>1
    <3>3. trades[s].hwm * keep <= tr.hwm * keep
      BY <1>1, <3>1, <3>2
    <3> QED
      BY <3>1, <3>3 DEF TrailingSLHit, keep
  <2>3. ShorthandHit(ExitLeaves[k], tr, c.close)
    BY <2>1, <2>2 DEF ShorthandHit
  <2>4. ExitVerdict(tr, c.close, signal) = "true"
    BY <2>1, <2>3, StopDecides DEF StopLeaves
  <2> QED
    BY <2>4, ReasonIsNamed DEF ExitReason, tr
<1> QED
  BY <1>2, <1>3

(* Every candle that closes at or under a stop closes the trade, for every *)
(* number of symbols, timeframe, fill model and run state, provided that   *)
(* no circuit hook is wired (nothing in the engine wires one) and that no  *)
(* leaf that may still be warming up stands before the stop in exit.any:   *)
(* the tree stops at an error (condition.go), and such a leaf would mask   *)
(* the stop.                                                               *)
THEOREM StopsFire ==
    ASSUME ~CircuitWired, StopsComeFirst
    PROVE  Spec => StopHonoured
<1> DEFINE Hit(s) == \/ HasLeaf("stop_loss") /\ StopLossHit(trades[s], HandedClose(s))
                     \/ HasLeaf("trailing_sl") /\ TrailingSLHit(trades[s], HandedClose(s))
           Fires == \A s \in Symbols :
                        (/\ Open(s) /\ state # "stopped"
                         /\ minute'[s] # minute[s] /\ barIndex' # barIndex
                         /\ Hit(s)) => ~Open(s)'
<1>1. TypeOK /\ Priced /\ Covered /\ [Next]_vars => Fires
  <2> SUFFICES ASSUME TypeOK, Priced, Covered, [Next]_vars, NEW s \in Symbols,
                      Open(s), state # "stopped",
                      minute'[s] # minute[s], barIndex' # barIndex, Hit(s)
               PROVE  ~Open(s)'
    OBVIOUS
  <2>1. PICK x \in Symbols : MinuteClose(x)
    BY DEF Next, AdvanceClock, FirstTick, SetState, vars, feedVars
  <2>2. x = s
    <3>1. minute' = [minute EXCEPT ![x] = now]
      BY <2>1, MinuteCloseCases
    <3> QED
      BY <3>1 DEF TypeOK, FeedTypeOK
  <2>3. PICK c, quote : Hands(s, c, quote)
    BY <2>1, <2>2, MinuteCloseCases DEF Collects
  <2>4. c \in CandleType /\ (EntersAt(s, c) \/ ExitsAt(s, c) \/ StaysAt(s, c, SellsFill(s, quote)))
    BY <2>3, HandedOutcome
  <2>5. SellsFill(s, quote)
    BY <2>3 DEF SellsFill, Hands, Priced, Covered
  <2>6. c.close = HandedClose(s)
    BY <2>3 DEF Hands
  <2>7. \A signal \in SignalValues : ExitReason(Watched(s, c), c, signal) # "none"
    BY <2>4, <2>6, StopIsAReason
  <2>8. ExitsAt(s, c)
    BY <2>4, <2>5, <2>7 DEF StaysAt, EntersAt
  <2> QED
    BY <2>4, <2>8, SymbolOutcome
<1>2. Spec => [][Fires]_vars
  BY <1>1, Typed, HeldIsPriced, HoldingsCover, PTL DEF Spec
<1> QED
  BY <1>2 DEF StopHonoured
-----------------------------------------------------------------------------
(* Days and slots.                                                         *)

(* The clock goes from one slot of a day to the next, or into a new day.   *)
LEMMA NextSlot ==
    ASSUME NEW t \in Nat
    PROVE  /\ Day(t) \in Nat /\ SlotOf(t) \in 0 .. SlotsPerDay - 1
           /\ SlotOf(t) < SlotsPerDay - 1 => Day(t + 1) = Day(t) /\ SlotOf(t + 1) = SlotOf(t) + 1
           /\ SlotOf(t) = SlotsPerDay - 1 => Day(t + 1) = Day(t) + 1 /\ SlotOf(t + 1) = 0
<1> USE ConstantsAssumption
<1> DEFINE q == Day(t)
           r == SlotOf(t)
<1>1. q \in Nat /\ r \in 0 .. SlotsPerDay - 1 /\ t = q * SlotsPerDay + r
  BY Quotient DEF Day, SlotOf
<1> HIDE DEF q, r
<1>2. CASE r < SlotsPerDay - 1
  <2>0. SlotsPerDay \in Nat \ {0} /\ t + 1 \in Nat /\ q \in Int
    BY <1>1
  <2>1. t + 1 = q * SlotsPerDay + (r + 1) /\ r + 1 \in 0 .. SlotsPerDay - 1
    BY <1>1, <1>2
  <2>2. (t + 1) \div SlotsPerDay = q /\ (t + 1) % SlotsPerDay = r + 1
    BY <1>1, <2>0, <2>1, QuotientUnique
  <2> QED
    BY <1>1, <1>2, <2>2 DEF Day, SlotOf, q, r
<1>3. CASE r = SlotsPerDay - 1
  <2>0. SlotsPerDay \in Nat \ {0} /\ t + 1 \in Nat /\ q + 1 \in Int
    BY <1>1
  <2>1. t + 1 = (q + 1) * SlotsPerDay + 0 /\ 0 \in 0 .. SlotsPerDay - 1
    BY <1>1, <1>3
  <2>2. (t + 1) \div SlotsPerDay = q + 1 /\ (t + 1) % SlotsPerDay = 0
    BY <1>1, <2>0, <2>1, QuotientUnique
  <2> QED
    BY <1>1, <1>3, <2>2 DEF Day, SlotOf, q, r
<1> QED
  BY <1>1, <1>2, <1>3 DEF q, r

LEMMA SlotRange ==
    ASSUME NEW t \in Nat
    PROVE  /\ Day(t) \in Nat /\ SlotOf(t) \in Nat /\ SlotOf(t) <= SlotsPerDay - 1
           /\ SlotsPerDay \in Nat /\ SlotsPerDay >= 1
<1>1. SlotsPerDay \in Nat /\ SlotsPerDay >= 1
  BY ConstantsAssumption
<1> QED
  BY <1>1, NextSlot

(* Multiples of the timeframe separate its intervals.                      *)
LEMMA IntervalBelow ==
    ASSUME NEW n \in Nat \ {0}, NEW a \in Nat, NEW b \in Nat, a \div n = b \div n,
           NEW cut \in Nat, cut % n = 0, a < cut
    PROVE  b < cut
<1> SUFFICES ASSUME cut <= b PROVE FALSE
  OBVIOUS
<1> DEFINE q == cut \div n
           p == a \div n
<1>1. q \in Nat /\ cut = q * n
  <2>1. cut = q * n + (cut % n) /\ q \in Nat
    BY Quotient
  <2> QED
    BY <2>1
<1>2. q <= b \div n
  BY QuotientMonotone
<1>3. p \in Nat /\ a >= p * n
  <2>1. a = p * n + (a % n) /\ p \in Nat /\ a % n \in 0 .. n - 1
    BY Quotient
  <2> QED
    BY <2>1
<1>4. q <= p
  BY <1>2
<1> HIDE DEF p, q
<1>5. q * n <= p * n
  BY <1>1, <1>3, <1>4
<1> QED
  BY <1>1, <1>3, <1>5

LEMMA IntervalEnds ==
    ASSUME NEW n \in Nat \ {0}, NEW cut \in Nat, cut % n = 0
    PROVE  (cut + n) \div n # (cut + n - 1) \div n
<1> DEFINE q == cut \div n
           a == cut + n
<1>1. q \in Nat /\ cut = q * n
  <2>1. cut = q * n + (cut % n) /\ q \in Nat
    BY Quotient
  <2> QED
    BY <2>1
<1> HIDE DEF q
<1>2. a = (q + 1) * n + 0 /\ a - 1 = q * n + (n - 1) /\ a \in Nat /\ a - 1 \in Nat
  BY <1>1
<1> HIDE DEF a
<1>3. q \in Int /\ q + 1 \in Int /\ 0 \in 0 .. n - 1 /\ n - 1 \in 0 .. n - 1
  BY <1>1
<1>4. a \div n = q + 1
  BY <1>2, <1>3, QuotientUnique
<1>5. (a - 1) \div n = q
  BY <1>2, <1>3, QuotientUnique
<1>6. a - 1 = cut + n - 1
  BY DEF a
<1> QED
  BY <1>1, <1>4, <1>5, <1>6 DEF a
-----------------------------------------------------------------------------
(* The candles under construction.                                         *)

(* A bucket holds minutes that are already closed.  If every symbol ticks  *)
(* in every minute, no candle is more than a minute behind the clock, and  *)
(* a bucket is the one of the last closed minute, from its first minute.   *)
FeedInv ==
    /\ \A s \in Symbols : minute[s] <= now /\ (Liquid => minute[s] >= now - 1)
    /\ TfSlots # 1 => \A s \in Symbols :
          IF bucket[s].time = NoTime
          THEN Liquid => minute[s] <= 0
          ELSE /\ bucket[s].time < minute[s]
               /\ Liquid => /\ Bucket(bucket[s].time) = Bucket(minute[s] - 1)
                            /\ SlotOf(bucket[s].time) % TfSlots = 0

LEMMA BucketTime ==
    ASSUME TypeOK, NEW s \in Symbols
    PROVE  /\ minute[s] \in TimeType /\ bucket[s].time \in TimeType
           /\ now \in 0 .. Horizon
           /\ bucket[s] # NoBucket => bucket[s].time # NoTime
  BY DEF TypeOK, FeedTypeOK, CandleType, NoBucket, TimeType, NoTime

(* A new bucket starts at the first minute of its interval.                *)
LEMMA BucketStart ==
    ASSUME NEW t \in Nat, Bucket(t) # Bucket(t + 1)
    PROVE  SlotOf(t + 1) % TfSlots = 0
<1> USE ConstantsAssumption
<1> DEFINE a == SlotOf(t)
           q == a \div TfSlots
           r == a % TfSlots
<1>1. CASE a = SlotsPerDay - 1
  <2>1. SlotOf(t + 1) = 0
    BY <1>1, NextSlot
  <2>2. 0 % TfSlots = 0
    OBVIOUS
  <2> QED
    BY <2>1, <2>2
<1>2. CASE a < SlotsPerDay - 1
  <2>1. Day(t + 1) = Day(t) /\ SlotOf(t + 1) = a + 1 /\ a \in Nat
    BY <1>2, NextSlot
  <2>2. q \in Nat /\ r \in 0 .. TfSlots - 1 /\ a = q * TfSlots + r
    BY <2>1, Quotient
  <2>3. (a + 1) \div TfSlots # q
    BY <2>1 DEF Bucket
  <2> HIDE DEF a, q, r
  <2>4. r = TfSlots - 1
    <3> SUFFICES ASSUME r # TfSlots - 1 PROVE FALSE
      OBVIOUS
    <3>1. TfSlots \in Nat \ {0} /\ a + 1 \in Nat /\ q \in Int /\ r + 1 \in 0 .. TfSlots - 1
      BY <2>1, <2>2
    <3>2. a + 1 = q * TfSlots + (r + 1)
      BY <2>1, <2>2
    <3>3. (a + 1) \div TfSlots = q
      BY <3>1, <3>2, QuotientUnique
    <3> QED
      BY <2>3, <3>3
  <2>5. a + 1 = (q + 1) * TfSlots + 0
    BY <2>2, <2>4
  <2>6. TfSlots \in Nat \ {0} /\ a + 1 \in Nat /\ q + 1 \in Int /\ 0 \in 0 .. TfSlots - 1
    BY <2>1, <2>2
  <2>7. (a + 1) % TfSlots = 0
    BY <2>5, <2>6, QuotientUnique
  <2> QED
    BY <2>1, <2>7
<1>3. a \in 0 .. SlotsPerDay - 1 /\ SlotsPerDay \in Nat
  BY NextSlot
<1> HIDE DEF a
<1> QED
  BY <1>1, <1>2, <1>3

LEMMA FeedInStep == Spec => []FeedInv
<1> USE ConstantsAssumption
<1>1. Init => FeedInv
  BY DEF Init, FeedInv, NoTime, NoBucket
<1>2. TypeOK /\ FeedInv /\ [Next]_vars => FeedInv'
  <2> SUFFICES ASSUME TypeOK, FeedInv, [Next]_vars
               PROVE  FeedInv'
    OBVIOUS
  <2>t. /\ now \in Nat
        /\ \A x \in Symbols : /\ minute[x] \in Nat \/ minute[x] = -1
                              /\ bucket[x].time \in Nat \/ bucket[x].time = -1
    <3>1. now \in 0 .. Horizon
      BY BucketTime DEF TypeOK, FeedTypeOK
    <3>2. \A x \in Symbols : minute[x] \in TimeType /\ bucket[x].time \in TimeType
      BY BucketTime
    <3>3. \A t \in TimeType : t \in Nat \/ t = -1
      BY DEF TimeType, NoTime
    <3> QED
      BY <3>1, <3>2, <3>3
  <2>m. minute \in [Symbols -> TimeType]
    BY DEF TypeOK, FeedTypeOK
  <2>1. CASE AdvanceClock
    BY <2>1, <2>t, SMTT(40) DEF AdvanceClock, FeedInv, NoTime
  <2>2. ASSUME NEW s \in Symbols, FirstTick(s)
        PROVE  FeedInv'
    <3>1. /\ minute[s] = -1 /\ minute' = [minute EXCEPT ![s] = now]
          /\ now' = now /\ bucket' = bucket
      BY <2>2 DEF FirstTick, NoTime
    <3>2. TfSlots # 1 => bucket[s].time = NoTime
      BY <2>t, <3>1 DEF FeedInv, NoTime
    <3> QED
      BY <2>t, <2>m, <3>1, <3>2 DEF FeedInv, NoTime
  <2>3. ASSUME NEW s \in Symbols, MinuteClose(s)
        PROVE  FeedInv'
    <3>1. /\ minute[s] # NoTime /\ minute[s] < now /\ minute' = [minute EXCEPT ![s] = now]
          /\ now' = now
          /\ Collects(s) \/ \E c, quote : Hands(s, c, quote)
      BY <2>3, MinuteCloseCases
    <3>2. minute[s] \in Nat /\ (Liquid => minute[s] = now - 1) /\ minute'[s] = now
      BY <2>t, <2>m, <3>1 DEF FeedInv, NoTime
    <3>3. \A x \in Symbols : minute'[x] <= now' /\ (Liquid => minute'[x] >= now' - 1)
      BY <2>t, <2>m, <3>1 DEF FeedInv
    <3>4. SUFFICES ASSUME TfSlots # 1, NEW x \in Symbols
                   PROVE  /\ bucket'[x].time = NoTime => (Liquid => minute'[x] <= 0)
                          /\ bucket'[x].time # NoTime =>
                               /\ bucket'[x].time < minute'[x]
                               /\ Liquid => /\ Bucket(bucket'[x].time) = Bucket(minute'[x] - 1)
                                            /\ SlotOf(bucket'[x].time) % TfSlots = 0
      BY <3>3 DEF FeedInv
    <3>5. CASE x # s
      <4>1. bucket'[x] = bucket[x] /\ minute'[x] = minute[x]
        BY <2>m, <3>1, <3>4, <3>5 DEF Collects, Hands
      <4> QED
        BY <3>4, <4>1 DEF FeedInv
    <3>6. CASE x = s /\ Collects(s)
      <4>1. bucket'[s].time = IF bucket[s].time = NoTime THEN minute[s] ELSE bucket[s].time
        BY <3>6 DEF Collects
      <4>2. CASE bucket[s].time = NoTime
        <5>1. Liquid => minute[s] = 0
          BY <3>2, <3>4, <4>2 DEF FeedInv
        <5>2. SlotOf(0) % TfSlots = 0
          <6>1. 0 % SlotsPerDay = 0 /\ 0 % TfSlots = 0
            OBVIOUS
          <6> QED
            BY <6>1 DEF SlotOf
        <5> QED
          BY <3>1, <3>2, <3>6, <4>1, <4>2, <5>1, <5>2 DEF NoTime
      <4>3. CASE bucket[s].time # NoTime
        <5>1. Bucket(bucket[s].time) = Bucket(minute[s])
          BY <3>6, <4>3 DEF Collects
        <5>2. bucket[s].time < minute[s] /\ (Liquid => SlotOf(bucket[s].time) % TfSlots = 0)
          BY <3>4, <4>3 DEF FeedInv
        <5> QED
          BY <2>t, <3>1, <3>2, <3>6, <4>1, <4>3, <5>1, <5>2
      <4> QED
        BY <4>2, <4>3
    <3>7. ASSUME x = s, NEW c, NEW quote, Hands(s, c, quote)
          PROVE  /\ bucket'[s].time # NoTime
                 /\ bucket'[s].time < minute'[s]
                 /\ Liquid => /\ Bucket(bucket'[s].time) = Bucket(minute'[s] - 1)
                              /\ SlotOf(bucket'[s].time) % TfSlots = 0
      <4>1. /\ bucket'[s].time = minute[s] /\ Bucket(bucket[s].time) # Bucket(minute[s])
            /\ bucket[s].time \in 0 .. Horizon
        BY <3>4, <3>7 DEF Hands, Pending, CandleType
      <4>2. bucket[s].time # NoTime
        BY <4>1 DEF NoTime
      <4>3. ASSUME Liquid PROVE SlotOf(minute[s]) % TfSlots = 0
        <5>1. /\ Bucket(bucket[s].time) = Bucket(minute[s] - 1)
              /\ bucket[s].time < minute[s]
          BY <3>4, <4>2, <4>3 DEF FeedInv
        <5>2. minute[s] - 1 \in Nat /\ (minute[s] - 1) + 1 = minute[s]
          BY <3>2, <4>1, <5>1
        <5> QED
          BY <4>1, <5>1, <5>2, BucketStart
      <4> QED
        BY <3>1, <3>2, <4>1, <4>3 DEF NoTime
    <3> QED
      BY <3>1, <3>5, <3>6, <3>7
  <2>4. CASE UNCHANGED vars \/ \E st \in {"running", "paused", "stopped"} : SetState(st)
    BY <2>4 DEF vars, feedVars, SetState, FeedInv
  <2> QED
    BY <2>1, <2>2, <2>3, <2>4 DEF Next
<1> QED
  BY <1>1, <1>2, Typed, PTL DEF Spec
-----------------------------------------------------------------------------
(* Square-off.                                                             *)

(* The square-off and every later slot of the day have no entries, and the *)
(* first candle from cut on is delivered before the day is over: a minute  *)
(* one slot after it opened, a bucket with the minute that follows it.     *)
SquaresOffFrom(cut) ==
    /\ cut % TfSlots = 0
    /\ ForceSquareOff <= cut
    /\ EntryEnd < cut \/ MarketClose < cut

LastOpen(cut) == IF TfSlots = 1 THEN cut ELSE cut + TfSlots

(* An open trade is of today, and so is the minute its symbol builds; the  *)
(* candle that squares it off has not been delivered yet.                  *)
BeforeSquareOff(s, cut) ==
    /\ Day(trades[s].time) = Day(now)
    /\ minute[s] # NoTime /\ Day(minute[s]) = Day(now)
    /\ SlotOf(minute[s]) <= LastOpen(cut)
    /\ TfSlots # 1 => bucket[s].time # NoTime

FlatInv(cut) ==
    Intraday /\ state # "stopped" =>
        \A s \in Symbols : Open(s) => BeforeSquareOff(s, cut)

(* The pending candle opens on the day of the minute that closes, and only *)
(* before cut if it opens in an earlier slot than the one that squares off. *)
LEMMA PendingDay ==
    ASSUME TypeOK, FeedInv, Liquid, NEW s \in Symbols, minute[s] \in Nat, minute[s] = now - 1,
           NEW c, NEW quote, Hands(s, c, quote),
           NEW cut \in Nat, cut % TfSlots = 0, LastOpen(cut) <= SlotsPerDay - 2, SlotOf(c.time) < cut
    PROVE  /\ Day(c.time) = Day(now)
           /\ SlotOf(now) <= LastOpen(cut)
<1>0. TfSlots \in Nat \ {0} /\ SlotsPerDay \in Nat
  BY ConstantsAssumption
<1>n. now \in Nat /\ minute[s] + 1 = now
  BY BucketTime
<1>1. CASE TfSlots = 1
  <2>1. c.time = minute[s] /\ LastOpen(cut) = cut
    BY <1>1 DEF Hands, Pending, LastOpen
  <2>2. SlotOf(minute[s]) \in Nat
    BY SlotRange
  <2>3. SlotOf(minute[s]) < SlotsPerDay - 1
    BY <1>0, <2>1, <2>2
  <2>4. Day(minute[s] + 1) = Day(minute[s]) /\ SlotOf(minute[s] + 1) = SlotOf(minute[s]) + 1
    BY <2>3, NextSlot
  <2> QED
    BY <1>n, <2>1, <2>2, <2>4
<1>2. CASE TfSlots # 1
  <2>1. c.time = bucket[s].time /\ c.time \in 0 .. Horizon
    BY <1>2 DEF Hands, Pending, CandleType
  <2>2. c.time \in Nat /\ c.time # NoTime
    BY <2>1 DEF NoTime
  <2>3. bucket[s].time < minute[s] /\ Bucket(bucket[s].time) = Bucket(minute[s] - 1)
    BY <1>2, <2>1, <2>2 DEF FeedInv
  <2> DEFINE t == minute[s] - 1
  <2>4. t \in Nat /\ t + 1 = minute[s]
    BY <2>1, <2>2, <2>3
  <2>5. Day(t) = Day(c.time) /\ SlotOf(t) \div TfSlots = SlotOf(c.time) \div TfSlots
    BY <2>1, <2>3 DEF Bucket
  <2> HIDE DEF t
  <2>6. SlotOf(c.time) \in Nat /\ SlotOf(t) \in Nat
    BY <2>2, <2>4, SlotRange
  <2>7. SlotOf(t) < cut
    BY <1>0, <2>5, <2>6, IntervalBelow
  <2>8. LastOpen(cut) = cut + TfSlots /\ TfSlots >= 2
    BY <1>0, <1>2 DEF LastOpen
  <2>9. SlotOf(t) < SlotsPerDay - 1 /\ SlotOf(t) + 1 < SlotsPerDay - 1
    BY <1>0, <2>6, <2>7, <2>8
  <2>10. Day(t + 1) = Day(t) /\ SlotOf(t + 1) = SlotOf(t) + 1
    BY <2>4, <2>9, NextSlot
  <2>11. SlotOf(minute[s]) < SlotsPerDay - 1
    BY <2>4, <2>9, <2>10
  <2>12. Day(minute[s] + 1) = Day(minute[s]) /\ SlotOf(minute[s] + 1) = SlotOf(minute[s]) + 1
    BY <2>11, NextSlot
  <2>13. Day(now) = Day(c.time) /\ SlotOf(now) = SlotOf(t) + 2
    BY <1>n, <2>4, <2>5, <2>6, <2>10, <2>12
  <2> QED
    BY <1>0, <2>6, <2>7, <2>8, <2>13
<1> QED
  BY <1>1, <1>2

(* A minute that goes into the bucket is not the one after the bucket that *)
(* squares off.                                                            *)
LEMMA CollectedInTime ==
    ASSUME TypeOK, FeedInv, Liquid, NEW s \in Symbols, minute[s] \in Nat, minute[s] = now - 1,
           Collects(s), bucket[s].time # NoTime,
           NEW cut \in Nat, cut % TfSlots = 0, LastOpen(cut) <= SlotsPerDay - 2,
           SlotOf(minute[s]) <= LastOpen(cut)
    PROVE  Day(now) = Day(minute[s]) /\ SlotOf(now) <= LastOpen(cut)
<1>0. TfSlots \in Nat \ {0} /\ SlotsPerDay \in Nat
  BY ConstantsAssumption
<1> DEFINE m == minute[s]
           t == m - 1
<1>1. TfSlots # 1 /\ LastOpen(cut) = cut + TfSlots
  BY DEF Collects, LastOpen
<1>2. m \in Nat /\ m + 1 = now
  BY BucketTime
<1>3. /\ Bucket(bucket[s].time) = Bucket(t) /\ Bucket(bucket[s].time) = Bucket(m)
      /\ bucket[s].time < m
  BY <1>1 DEF Collects, FeedInv
<1>4. bucket[s].time \in Nat
  BY BucketTime DEF TimeType
<1>5. t \in Nat /\ t + 1 = m
  BY <1>2, <1>3, <1>4
<1>6. Day(t) = Day(m) /\ SlotOf(t) \div TfSlots = SlotOf(m) \div TfSlots
  BY <1>3 DEF Bucket
<1>h. SlotOf(m) <= LastOpen(cut)
  OBVIOUS
<1> HIDE DEF t, m
<1>7. /\ SlotOf(m) \in Nat /\ SlotOf(t) \in Nat /\ SlotOf(t) <= SlotsPerDay - 1 /\ Day(t) \in Nat
  BY <1>2, <1>5, SlotRange
<1>8. SlotOf(m) = SlotOf(t) + 1
  <2>1. SlotOf(t) # SlotsPerDay - 1
    <3> SUFFICES ASSUME SlotOf(t) = SlotsPerDay - 1 PROVE FALSE
      OBVIOUS
    <3>1. Day(t + 1) = Day(t) + 1
      BY <1>5, NextSlot
    <3> QED
      BY <1>5, <1>6, <1>7, <3>1
  <2>2. SlotOf(t) < SlotsPerDay - 1
    BY <1>0, <1>7, <2>1
  <2>3. SlotOf(t + 1) = SlotOf(t) + 1
    BY <1>5, <2>2, NextSlot
  <2> QED
    BY <1>5, <2>3
<1>9. SlotOf(m) # cut + TfSlots
  <2> SUFFICES ASSUME SlotOf(m) = cut + TfSlots PROVE FALSE
    OBVIOUS
  <2>1. SlotOf(t) = cut + TfSlots - 1
    BY <1>0, <1>7, <1>8
  <2> QED
    BY <1>0, <1>6, <2>1, IntervalEnds
<1>10. SlotOf(m) + 1 <= cut + TfSlots /\ SlotOf(m) < SlotsPerDay - 1
  BY <1>0, <1>1, <1>7, <1>9, <1>h
<1>11. Day(m + 1) = Day(m) /\ SlotOf(m + 1) = SlotOf(m) + 1
  BY <1>2, <1>10, NextSlot
<1> QED
  BY <1>1, <1>2, <1>10, <1>11 DEF m

(* A trade that survives a candle, or is opened by it, comes from a candle *)
(* that opened before cut.                                                 *)
LEMMA SurvivesBeforeCut ==
    ASSUME TypeOK, Intraday, NEW cut \in Nat, SquaresOffFrom(cut),
           NEW s \in Symbols, NEW c \in CandleType,
           \/ EntersAt(s, c)
           \/ Open(s) /\ \E signal \in SignalValues : ExitReason(Watched(s, c), c, signal) = "none"
    PROVE  SlotOf(c.time) < cut
<1>1. SlotOf(c.time) \in Nat
  BY SlotRange DEF CandleType
<1>2. CASE EntersAt(s, c)
  <2>1. SlotOf(c.time) <= MarketClose /\ SlotOf(c.time) <= EntryEnd
    BY <1>2 DEF EntersAt, WantsEntry
  <2> QED
    BY <1>1, <2>1, ConstantsAssumption DEF SquaresOffFrom
<1>3. ASSUME NEW signal, ExitReason(Watched(s, c), c, signal) = "none"
      PROVE  SlotOf(c.time) < cut
  <2>1. ~SquareOffDue(c)
    BY <1>3 DEF ExitReason
  <2> QED
    BY <1>1, <2>1, ConstantsAssumption DEF SquareOffDue, SquaresOffFrom
<1> QED
  BY <1>2, <1>3

LEMMA StepKeepsFlat ==
    ASSUME TypeOK, FeedInv, Priced, Covered, [Next]_vars,
           Liquid, ~CircuitWired, Intraday,
           NEW cut \in Nat, SquaresOffFrom(cut), LastOpen(cut) <= SlotsPerDay - 2, FlatInv(cut)
    PROVE  FlatInv(cut)'
<1> SUFFICES ASSUME state' # "stopped", NEW x \in Symbols, Open(x)'
             PROVE  BeforeSquareOff(x, cut)'
  BY DEF FlatInv
<1>0. state # "stopped"
  <2>1. ASSUME NEW s \in Symbols, MinuteClose(s) PROVE state' = state
    BY <2>1, MinuteCloseCases
  <2> QED
    BY <2>1 DEF Next, AdvanceClock, FirstTick, SetState, vars
<1>i. Open(x) => BeforeSquareOff(x, cut)
  BY <1>0 DEF FlatInv
<1>t. minute \in [Symbols -> TimeType] /\ now \in Nat
  BY DEF TypeOK, FeedTypeOK
<1>1. CASE AdvanceClock
  <2>1. /\ minute[x] = now /\ now' = now + 1 /\ minute' = minute /\ bucket' = bucket
        /\ trades' = trades /\ Open(x)
    BY <1>1 DEF AdvanceClock, bookVars, Open
  <2>2. SlotOf(now) \in Nat /\ SlotsPerDay \in Nat /\ LastOpen(cut) \in Nat
    <3>1. TfSlots \in Nat
      BY ConstantsAssumption
    <3> QED
      BY <1>t, <3>1, SlotRange DEF LastOpen
  <2>3. SlotOf(now) < SlotsPerDay - 1
    BY <1>i, <2>1, <2>2 DEF BeforeSquareOff
  <2>4. Day(now + 1) = Day(now)
    BY <1>t, <2>3, NextSlot
  <2> QED
    BY <1>i, <2>1, <2>4 DEF BeforeSquareOff
<1>2. ASSUME NEW s \in Symbols, FirstTick(s)
      PROVE  BeforeSquareOff(x, cut)'
  <2>1. /\ minute[s] = NoTime /\ minute' = [minute EXCEPT ![s] = now]
        /\ now' = now /\ bucket' = bucket /\ trades' = trades /\ Open(x)
    BY <1>2 DEF FirstTick, bookVars, Open
  <2>2. x # s
    BY <1>i, <2>1 DEF BeforeSquareOff
  <2>3. minute'[x] = minute[x]
    BY <1>t, <2>1, <2>2
  <2> QED
    BY <1>i, <2>1, <2>3 DEF BeforeSquareOff
<1>3. ASSUME NEW s \in Symbols, MinuteClose(s)
      PROVE  BeforeSquareOff(x, cut)'
  <2>1. /\ minute[s] # NoTime /\ minute[s] < now /\ minute' = [minute EXCEPT ![s] = now]
        /\ now' = now
        /\ Collects(s) \/ \E c, quote : Hands(s, c, quote)
    BY <1>3, MinuteCloseCases
  <2>2. minute[s] \in Nat /\ minute[s] = now - 1 /\ minute'[s] = now
    <3>1. minute[s] \in Nat
      BY <1>t, <2>1 DEF TimeType
    <3>2. minute[s] >= now - 1
      BY DEF FeedInv
    <3> QED
      BY <1>t, <2>1, <3>1, <3>2
  <2>n. now # NoTime
    BY <1>t DEF NoTime
  <2>3. CASE Collects(s)
    <3>1. trades' = trades /\ Open(x)
      BY <2>3 DEF Collects, bookVars, Open
    <3>2. CASE x # s
      <4>1. bucket'[x] = bucket[x] /\ minute'[x] = minute[x]
        BY <1>t, <2>1, <2>3, <3>2 DEF Collects
      <4> QED
        BY <1>i, <2>1, <3>1, <4>1 DEF BeforeSquareOff
    <3>3. CASE x = s
      <4>1. /\ bucket[s].time # NoTime /\ bucket'[s].time = bucket[s].time
            /\ SlotOf(minute[s]) <= LastOpen(cut)
        BY <1>i, <2>3, <3>1, <3>3 DEF BeforeSquareOff, Collects
      <4>2. Day(now) = Day(minute[s]) /\ SlotOf(now) <= LastOpen(cut)
        BY <2>2, <2>3, <4>1, CollectedInTime DEF SquaresOffFrom
      <4> QED
        BY <1>i, <2>1, <2>2, <2>n, <3>1, <3>3, <4>1, <4>2 DEF BeforeSquareOff
    <3> QED
      BY <3>2, <3>3
  <2>4. ASSUME NEW c, NEW quote, Hands(s, c, quote)
        PROVE  BeforeSquareOff(x, cut)'
    <3>1. /\ c \in CandleType
          /\ EntersAt(s, c) \/ ExitsAt(s, c) \/ StaysAt(s, c, SellsFill(s, quote))
      BY <1>0, <2>4, HandedOutcome
    <3>2. CASE x # s
      <4>1. trades'[x].time = trades[x].time /\ Open(x)
        BY <3>1, <3>2, OthersStay DEF Open
      <4>2. minute'[x] = minute[x] /\ (TfSlots # 1 => bucket'[x] = bucket[x])
        BY <1>t, <2>1, <2>4, <3>2 DEF Hands
      <4> QED
        BY <1>i, <2>1, <4>1, <4>2 DEF BeforeSquareOff
    <3>3. CASE x = s
      <4>1. ~ExitsAt(s, c)
        BY <3>1, <3>3, SymbolOutcome
      <4>2. SlotOf(c.time) < cut
        <5>1. CASE EntersAt(s, c)
          BY <3>1, <5>1, SurvivesBeforeCut
        <5>2. CASE StaysAt(s, c, SellsFill(s, quote))
          <6>1. Open(s)
            BY <3>1, <3>3, <5>2, SymbolOutcome
          <6>2. SellsFill(s, quote)
            BY <2>4, <6>1 DEF SellsFill, Hands, Priced, Covered
          <6> QED
            BY <3>1, <5>2, <6>1, <6>2, SurvivesBeforeCut DEF StaysAt
        <5> QED
          BY <3>1, <4>1, <5>1, <5>2
      <4>3. Day(c.time) = Day(now) /\ SlotOf(now) <= LastOpen(cut)
        BY <2>2, <2>4, <4>2, PendingDay DEF SquaresOffFrom
      <4>4. Day(trades'[s].time) = Day(now)
        <5>1. CASE EntersAt(s, c)
          BY <3>1, <4>3, <5>1, SymbolOutcome
        <5>2. CASE StaysAt(s, c, SellsFill(s, quote))
          <6>1. Open(s) /\ trades'[s].time = trades[s].time
            BY <3>1, <3>3, <5>2, SymbolOutcome
          <6> QED
            BY <1>i, <3>3, <6>1 DEF BeforeSquareOff
        <5> QED
          BY <3>1, <4>1, <5>1, <5>2
      <4>5. TfSlots # 1 => bucket'[s].time # NoTime
        BY <2>1, <2>4 DEF Hands
      <4> QED
        BY <2>1, <2>2, <2>n, <3>3, <4>3, <4>4, <4>5 DEF BeforeSquareOff
    <3> QED
      BY <3>2, <3>3
  <2> QED
    BY <2>1, <2>3, <2>4
<1>4. CASE UNCHANGED vars \/ \E st \in {"running", "paused", "stopped"} : SetState(st)
  <2>1. /\ trades' = trades /\ Open(x)
        /\ minute' = minute /\ now' = now /\ bucket' = bucket
    BY <1>4 DEF SetState, vars, feedVars, bookVars, Open
  <2> QED
    BY <1>i, <2>1 DEF BeforeSquareOff
<1> QED
  BY <1>1, <1>2, <1>3, <1>4 DEF Next

(* No intraday trade is carried over night, for any number of symbols, any *)
(* sizes of fills and any timeframe: if every symbol ticks in every minute, *)
(* no circuit hook is wired, and force_square_off leaves one whole candle  *)
(* before the end of the day that no entry follows.  On a coarse timeframe *)
(* the square-off of the last candle would be delivered in the next day    *)
(* only (builder.go), which is what the second condition excludes.         *)
THEOREM NeverOvernight ==
    ASSUME Liquid, ~CircuitWired,
           NEW cut \in Nat, SquaresOffFrom(cut), LastOpen(cut) <= SlotsPerDay - 2
    PROVE  Spec => []FlatOvernight
<1>1. Init => FlatInv(cut)
  BY NoTradeNotHeld DEF Init, FlatInv, Open
<1>2. TypeOK /\ FeedInv /\ Priced /\ Covered /\ FlatInv(cut) /\ [Next]_vars => FlatInv(cut)'
  BY StepKeepsFlat DEF FlatInv
<1>3. FlatInv(cut) => FlatOvernight
  BY DEF FlatInv, FlatOvernight, BeforeSquareOff
<1> QED
  BY <1>1, <1>2, <1>3, Typed, FeedInStep, HeldIsPriced, HoldingsCover, PTL DEF Spec
-----------------------------------------------------------------------------
(* The daily loss.                                                         *)

(* The symbols' candles arrive in the order of their days: there is only   *)
(* one symbol, or all of them tick in every minute.                        *)
DaysInOrder == Liquid \/ \A s, x \in Symbols : s = x

(* The runtime never sees a candle of a day before the one it is in.       *)
OrderInv ==
    /\ tradingDay = NoTime \/ tradingDay \in 0 .. Day(now)
    /\ \A s \in Symbols : minute[s] # NoTime => tradingDay <= Day(minute[s])
    /\ TfSlots # 1 => \A s \in Symbols : bucket[s].time # NoTime => tradingDay <= Day(bucket[s].time)

(* The loss counter of the risk block is the loss of its trading day, and  *)
(* no later day has a loss yet.                                            *)
LossInv ==
    /\ risk.startingCapital = StartingCash
    /\ tradingDay # NoTime => risk.dailyLoss = lossOn[tradingDay]
    /\ \A d \in 0 .. Day(Horizon) : d > tradingDay => lossOn[d] = 0

LEMMA DayInRange ==
    ASSUME NEW t \in 0 .. Horizon
    PROVE  Day(t) \in 0 .. Day(Horizon)
<1>1. Horizon \in Nat /\ SlotsPerDay \in Nat \ {0}
  BY ConstantsAssumption
<1>2. t \in Nat /\ t <= Horizon
  BY <1>1
<1>3. Day(t) \in Nat /\ Day(Horizon) \in Nat
  BY <1>1, <1>2, SlotRange
<1>4. Day(t) <= Day(Horizon)
  BY <1>1, <1>2, QuotientMonotone DEF Day
<1> QED
  BY <1>3, <1>4

LEMMA DayMonotone ==
    ASSUME NEW t \in Nat, NEW u \in Nat, t <= u
    PROVE  Day(t) \in Nat /\ Day(u) \in Nat /\ Day(t) <= Day(u)
<1>1. SlotsPerDay \in Nat \ {0}
  BY ConstantsAssumption
<1> QED
  BY <1>1, SlotRange, QuotientMonotone DEF Day

LEMMA StepKeepsOrder ==
    ASSUME TypeOK, FeedInv, OrderInv, [Next]_vars, DaysInOrder
    PROVE  OrderInv'
<1>t. /\ minute \in [Symbols -> TimeType] /\ now \in Nat
      /\ \A x \in Symbols : minute[x] # NoTime => minute[x] \in Nat
      /\ \A x \in Symbols : bucket[x].time # NoTime => bucket[x].time \in Nat
  BY BucketTime DEF TypeOK, FeedTypeOK, TimeType
<1>d. tradingDay \in Int /\ tradingDay <= Day(now) /\ Day(now) \in Nat
  <2>1. Day(now) \in Nat
    BY <1>t, SlotRange
  <2> QED
    BY <2>1 DEF OrderInv, NoTime
<1>1. CASE AdvanceClock
  <2>1. /\ now' = now + 1 /\ minute' = minute /\ bucket' = bucket /\ tradingDay' = tradingDay
    BY <1>1 DEF AdvanceClock
  <2>2. now + 1 \in Nat /\ now <= now + 1
    BY <1>t
  <2>3. Day(now) <= Day(now + 1) /\ Day(now + 1) \in Nat
    BY <1>t, <2>2, DayMonotone
  <2> QED
    BY <1>d, <2>1, <2>3 DEF OrderInv
<1>2. ASSUME NEW s \in Symbols, FirstTick(s)
      PROVE  OrderInv'
  <2>1. /\ minute' = [minute EXCEPT ![s] = now]
        /\ now' = now /\ bucket' = bucket /\ tradingDay' = tradingDay
    BY <1>2 DEF FirstTick
  <2> QED
    BY <1>t, <1>d, <2>1 DEF OrderInv
<1>3. ASSUME NEW s \in Symbols, MinuteClose(s)
      PROVE  OrderInv'
  <2>1. /\ minute[s] # NoTime /\ minute[s] < now /\ minute' = [minute EXCEPT ![s] = now]
        /\ now' = now
        /\ Collects(s) \/ \E c, quote : Hands(s, c, quote)
    BY <1>3, MinuteCloseCases
  <2>2. minute[s] \in Nat /\ minute'[s] = now
    BY <1>t, <2>1
  <2>3. CASE Collects(s)
    <3>1. tradingDay' = tradingDay /\ TfSlots # 1
      BY <2>3 DEF Collects
    <3>2. \A x \in Symbols : minute'[x] # NoTime => tradingDay' <= Day(minute'[x])
      BY <1>t, <1>d, <2>1, <3>1 DEF OrderInv
    <3>3. \A x \in Symbols : bucket'[x].time # NoTime => tradingDay' <= Day(bucket'[x].time)
      BY <2>1, <2>3, <3>1 DEF OrderInv, Collects
    <3> QED
      BY <2>1, <3>1, <3>2, <3>3 DEF OrderInv
  <2>4. ASSUME NEW c, NEW quote, Hands(s, c, quote)
        PROVE  OrderInv'
    <3>1. /\ c \in CandleType /\ c.time = Pending(s) /\ c.time \in 0 .. Horizon
          /\ tradingDay' = tradingDay \/ tradingDay' = Day(c.time)
      BY <2>4, HandedOutcome DEF Hands, CandleType, bookVars
    <3>2. c.time \in Nat /\ c.time # NoTime /\ c.time <= minute[s]
      <4>1. c.time \in Nat /\ c.time # NoTime
        BY <3>1 DEF NoTime
      <4>2. CASE TfSlots = 1
        BY <2>2, <3>1, <4>1, <4>2 DEF Pending
      <4>3. CASE TfSlots # 1
        BY <2>2, <3>1, <4>1, <4>3 DEF Pending, FeedInv
      <4> QED
        BY <4>1, <4>2, <4>3
    <3>3. /\ Day(c.time) \in Nat /\ Day(c.time) <= Day(minute[s]) /\ Day(minute[s]) <= Day(now)
          /\ Day(minute[s]) \in Nat
      BY <1>t, <2>1, <2>2, <3>2, DayMonotone
    <3>4. tradingDay <= Day(c.time)
      BY <2>1, <3>1, <3>2 DEF OrderInv, Pending
    <3>5. tradingDay' \in Int /\ tradingDay' <= Day(c.time) /\ (tradingDay' = NoTime \/ tradingDay' \in 0 .. Day(now))
      BY <1>d, <3>1, <3>3, <3>4 DEF OrderInv
    <3>6. ASSUME NEW x \in Symbols, minute'[x] # NoTime
          PROVE  tradingDay' <= Day(minute'[x])
      <4>1. CASE x = s
        BY <1>d, <2>2, <3>3, <3>5, <4>1
      <4>2. CASE x # s
        <5>1. Liquid /\ minute'[x] = minute[x] /\ minute[x] \in Nat
          BY <1>t, <2>1, <3>6, <4>2 DEF DaysInOrder
        <5>2. minute[s] <= minute[x]
          <6>1. minute[x] >= now - 1
            BY <5>1 DEF FeedInv
          <6> QED
            BY <1>t, <2>1, <2>2, <5>1, <6>1
        <5>3. Day(minute[s]) <= Day(minute[x]) /\ Day(minute[x]) \in Nat
          BY <2>2, <5>1, <5>2, DayMonotone
        <5> QED
          BY <3>3, <3>5, <5>1, <5>3
      <4> QED
        BY <4>1, <4>2
    <3>7. ASSUME TfSlots # 1, NEW x \in Symbols, bucket'[x].time # NoTime
          PROVE  tradingDay' <= Day(bucket'[x].time)
      <4>1. CASE x = s
        BY <2>4, <3>3, <3>5, <3>7, <4>1 DEF Hands
      <4>2. CASE x # s
        <5>1. Liquid /\ bucket'[x] = bucket[x] /\ bucket[x].time \in Nat /\ bucket[x].time # NoTime
          BY <1>t, <2>4, <3>7, <4>2 DEF Hands, DaysInOrder
        <5>2. /\ bucket[x].time < minute[x] /\ Bucket(bucket[x].time) = Bucket(minute[x] - 1)
          BY <3>7, <5>1 DEF FeedInv
        <5>3. minute[x] \in Nat
          BY <1>t, <5>1, <5>2, BucketTime DEF TimeType, NoTime
        <5>4. bucket[s].time < minute[s] /\ Bucket(bucket[s].time) = Bucket(minute[s] - 1)
              /\ c.time = bucket[s].time
          BY <3>1, <3>2, <3>7, <5>1 DEF FeedInv, Pending
        <5>5. /\ minute[s] - 1 \in Nat /\ minute[x] - 1 \in Nat /\ minute[s] - 1 <= minute[x] - 1
          <6>1. minute[x] >= now - 1
            BY <5>1 DEF FeedInv
          <6> QED
            BY <1>t, <2>1, <2>2, <3>2, <5>1, <5>2, <5>3, <5>4, <6>1
        <5>6. Day(c.time) = Day(minute[s] - 1) /\ Day(bucket[x].time) = Day(minute[x] - 1)
          BY <5>2, <5>4 DEF Bucket
        <5>7. Day(minute[s] - 1) <= Day(minute[x] - 1) /\ Day(minute[x] - 1) \in Nat
          BY <5>5, DayMonotone
        <5> QED
          BY <3>3, <3>5, <5>1, <5>6, <5>7
      <4> QED
        BY <4>1, <4>2
    <3> QED
      BY <2>1, <3>5, <3>6, <3>7 DEF OrderInv
  <2> QED
    BY <2>1, <2>3, <2>4
<1>4. CASE UNCHANGED vars \/ \E st \in {"running", "paused", "stopped"} : SetState(st)
  BY <1>4 DEF SetState, vars, feedVars, OrderInv
<1> QED
  BY <1>1, <1>2, <1>3, <1>4 DEF Next

LEMMA CandleKeepsLoss ==
    ASSUME TypeOK, LossInv, NEW s \in Symbols, NEW c \in CandleType, NEW fills,
           tradingDay <= Day(c.time), tradingDay' = Day(c.time),
           EntersAt(s, c) \/ ExitsAt(s, c) \/ StaysAt(s, c, fills)
    PROVE  LossInv'
<1> DEFINE today == Day(c.time)
<1>1. today \in 0 .. Day(Horizon) /\ today # NoTime
  BY DayInRange DEF CandleType, NoTime
<1>2. /\ tradingDay \in Int /\ lossOn \in [0 .. Day(Horizon) -> Nat] /\ risk \in RiskType
      /\ risk.startingCapital = StartingCash
  BY DEF TypeOK, BooksTypeOK, LossInv
<1>3. /\ RiskAt(c) \in RiskType
      /\ RiskAt(c).dailyLoss = lossOn[today]
      /\ RiskAt(c).startingCapital = StartingCash
  <2>1. RiskAt(c) \in RiskType
    BY TradesAtFacts DEF TypeOK
  <2>2. RiskAt(c).startingCapital = StartingCash
    BY <1>2 DEF RiskAt, RollDay, RiskType
  <2>3. CASE today # tradingDay
    <3>1. RiskAt(c).dailyLoss = 0
      BY <2>3, TradesAtFacts DEF TypeOK
    <3>2. lossOn[today] = 0
      BY <1>1, <1>2, <2>3 DEF LossInv
    <3> QED
      BY <2>1, <2>2, <3>1, <3>2
  <2>4. CASE today = tradingDay
    <3>1. RiskAt(c).dailyLoss = risk.dailyLoss
      BY <2>4, TradesAtFacts DEF TypeOK
    <3> QED
      BY <1>1, <2>1, <2>2, <2>4, <3>1 DEF LossInv
  <2> QED
    BY <2>3, <2>4
<1> HIDE DEF today
<1>4. \A d \in 0 .. Day(Horizon) : d > today => lossOn[d] = 0
  <2>1. today \in Int /\ tradingDay <= today
    BY <1>1 DEF today
  <2> QED
    BY <1>2, <2>1 DEF LossInv
<1>5. SUFFICES /\ risk'.startingCapital = StartingCash
               /\ risk'.dailyLoss = lossOn'[today]
               /\ \A d \in 0 .. Day(Horizon) : d > today => lossOn'[d] = 0
  BY DEF LossInv, today
<1>6. CASE EntersAt(s, c) \/ StaysAt(s, c, fills)
  <2>1. lossOn' = lossOn /\ risk' \in {RecordEntry(RiskAt(c), s), RiskAt(c)}
    BY <1>6 DEF EntersAt, StaysAt
  <2> QED
    BY <1>3, <1>4, <2>1 DEF RecordEntry, RiskType
<1>7. CASE ExitsAt(s, c)
  <2>1. PICK realized \in Int :
          /\ risk' = RecordExit(RiskAt(c), s, barIndex + 1, realized)
          /\ lossOn' = [lossOn EXCEPT ![today] = IF realized < 0 THEN @ - realized ELSE @]
    BY <1>7 DEF ExitsAt, today
  <2>2. lossOn'[today] = IF realized < 0 THEN lossOn[today] - realized ELSE lossOn[today]
    BY <1>1, <1>2, <2>1
  <2>3. risk'.dailyLoss = IF realized < 0 THEN lossOn[today] - realized ELSE lossOn[today]
    BY <1>3, <2>1 DEF RecordExit, RiskType
  <2>4. risk'.startingCapital = StartingCash
    BY <1>3, <2>1 DEF RecordExit, RiskType
  <2>5. ASSUME NEW d \in 0 .. Day(Horizon), d > today PROVE lossOn'[d] = 0
    BY <1>1, <1>2, <1>4, <2>1, <2>5
  <2> QED
    BY <2>2, <2>3, <2>4, <2>5
<1> QED
  BY <1>6, <1>7

(* What the runtime does in any step: nothing, or a candle of no earlier day. *)
LEMMA StepIsCandle ==
    ASSUME TypeOK, FeedInv, OrderInv, [Next]_vars
    PROVE  \/ UNCHANGED <<barIndex, tradingDay, bookVars>>
           \/ \E s \in Symbols, c \in CandleType, quote \in Nat :
                 /\ MinuteClose(s) /\ Hands(s, c, quote)
                 /\ state # "stopped"
                 /\ barIndex' = barIndex + 1
                 /\ tradingDay <= Day(c.time) /\ tradingDay' = Day(c.time)
                 /\ EntersAt(s, c) \/ ExitsAt(s, c) \/ StaysAt(s, c, SellsFill(s, quote))
<1>1. ASSUME NEW s \in Symbols, MinuteClose(s), NEW c, NEW quote, Hands(s, c, quote),
             state # "stopped"
      PROVE  \E x \in Symbols, d \in CandleType, q \in Nat :
                 /\ MinuteClose(x) /\ Hands(x, d, q)
                 /\ state # "stopped"
                 /\ barIndex' = barIndex + 1
                 /\ tradingDay <= Day(d.time) /\ tradingDay' = Day(d.time)
                 /\ EntersAt(x, d) \/ ExitsAt(x, d) \/ StaysAt(x, d, SellsFill(x, q))
  <2>1. /\ c \in CandleType /\ quote \in Nat /\ c.time = Pending(s)
        /\ barIndex' = barIndex + 1 /\ tradingDay' = Day(c.time)
        /\ EntersAt(s, c) \/ ExitsAt(s, c) \/ StaysAt(s, c, SellsFill(s, quote))
    BY <1>1, HandedOutcome DEF Hands
  <2>2. c.time # NoTime
    BY <2>1 DEF CandleType, NoTime
  <2>3. tradingDay <= Day(c.time)
    BY <1>1, <2>1, <2>2 DEF OrderInv, Pending
  <2> QED
    BY <1>1, <2>1, <2>3
<1>2. ASSUME NEW s \in Symbols, MinuteClose(s)
      PROVE  \/ UNCHANGED <<barIndex, tradingDay, bookVars>>
             \/ state # "stopped" /\ \E c, quote : Hands(s, c, quote)
  BY <1>2, MinuteCloseCases, HandedOutcome DEF Collects
<1>3. CASE \E s \in Symbols : MinuteClose(s)
  BY <1>1, <1>2, <1>3
<1>4. CASE ~\E s \in Symbols : MinuteClose(s)
  BY <1>4 DEF Next, AdvanceClock, FirstTick, SetState, vars
<1> QED
  BY <1>3, <1>4

LEMMA DaysFollow ==
    ASSUME DaysInOrder
    PROVE  Spec => [](OrderInv /\ LossInv)
<1>1. Init => OrderInv /\ LossInv
  <2> SUFFICES ASSUME Init PROVE OrderInv /\ LossInv
    OBVIOUS
  <2>1. OrderInv
    BY DEF Init, OrderInv, NoTime, NoBucket
  <2>2. LossInv
    BY DEF Init, LossInv, NewRisk
  <2> QED
    BY <2>1, <2>2
<1>2. TypeOK /\ FeedInv /\ OrderInv /\ LossInv /\ [Next]_vars => LossInv'
  <2> SUFFICES ASSUME TypeOK, FeedInv, OrderInv, LossInv, [Next]_vars
               PROVE  LossInv'
    OBVIOUS
  <2>1. CASE UNCHANGED <<barIndex, tradingDay, bookVars>>
    BY <2>1 DEF bookVars, LossInv
  <2> QED
    BY <2>1, StepIsCandle, CandleKeepsLoss
<1>3. TypeOK /\ FeedInv /\ OrderInv /\ [Next]_vars => OrderInv'
  BY StepKeepsOrder
<1> QED
  BY <1>1, <1>2, <1>3, Typed, FeedInStep, PTL DEF Spec

(* Once the realised losses of a calendar day reach the limit, no trade is *)
(* opened on a candle of that day, however many trades were closed, at any *)
(* loss, on any symbols and any timeframe.  It needs a limit to be set and *)
(* the candles to arrive in the order of their days: a symbol that did not *)
(* tick delivers its last candle of a day after the others rolled it, and  *)
(* the counter of the risk block forgets the day's loss.                   *)
THEOREM LossHalts ==
    ASSUME DaysInOrder, MaxDailyLossPct > 0, StartingCash > 0
    PROVE  Spec => DailyLossHaltsEntries
<1> DEFINE Halts == \A s \in Symbols :
                        ~Open(s) /\ Open(s)' =>
                            lossOn[Day(trades'[s].time)] * 100 < MaxDailyLossPct * StartingCash
<1>1. TypeOK /\ FeedInv /\ OrderInv /\ LossInv /\ [Next]_vars => Halts
  <2> SUFFICES ASSUME TypeOK, FeedInv, OrderInv, LossInv, [Next]_vars,
                      NEW x \in Symbols, ~Open(x), Open(x)'
               PROVE  lossOn[Day(trades'[x].time)] * 100 < MaxDailyLossPct * StartingCash
    OBVIOUS
  <2>1. PICK s \in Symbols, c \in CandleType, quote \in Nat :
           /\ tradingDay <= Day(c.time) /\ tradingDay' = Day(c.time)
           /\ EntersAt(s, c) \/ ExitsAt(s, c) \/ StaysAt(s, c, SellsFill(s, quote))
    BY StepIsCandle DEF bookVars, Open
  <2>2. x = s /\ EntersAt(s, c)
    BY <2>1, OthersStay, SymbolOutcome DEF Open
  <2>3. trades'[x].time = c.time
    BY <2>1, <2>2, SymbolOutcome
  <2>4. ~DailyLossBreached(RiskAt(c))
    BY <2>2 DEF EntersAt, WantsEntry, CanEnter
  <2>5. LossInv'
    BY <2>1, CandleKeepsLoss
  <2>6. /\ risk' = RecordEntry(RiskAt(c), s) /\ lossOn' = lossOn /\ RiskAt(c) \in RiskType
    BY <2>2, TradesAtFacts DEF EntersAt, TypeOK
  <2>7. /\ RiskAt(c).startingCapital = StartingCash
        /\ RiskAt(c).dailyLoss = lossOn[Day(c.time)]
    <3>1. Day(c.time) # NoTime
      BY DayInRange DEF CandleType, NoTime
    <3>2. /\ risk'.startingCapital = StartingCash
          /\ risk'.dailyLoss = lossOn'[Day(c.time)]
      BY <2>1, <2>5, <3>1 DEF LossInv
    <3> QED
      BY <2>6, <3>2 DEF RecordEntry, RiskType
  <2>8. ~(lossOn[Day(c.time)] * 100 >= MaxDailyLossPct * StartingCash)
    BY <2>4, <2>7, ConstantsAssumption DEF DailyLossBreached
  <2>9. lossOn[Day(c.time)] * 100 \in Nat /\ MaxDailyLossPct * StartingCash \in Nat
    <3>1. lossOn[Day(c.time)] \in Nat
      BY DayInRange DEF CandleType, TypeOK, BooksTypeOK
    <3> QED
      BY <3>1, ProductNat, ConstantsAssumption
  <2> QED
    BY <2>3, <2>8, <2>9
<1>2. Spec => [][Halts]_vars
  BY <1>1, Typed, FeedInStep, DaysFollow, PTL DEF Spec
<1> QED
  BY <1>2 DEF DailyLossHaltsEntries
-----------------------------------------------------------------------------
(* The cooldown.                                                           *)

(* Candles of the strategy are at least a timeframe apart: minutes, or     *)
(* buckets without gaps that fill the day.                                 *)
EvenCandles == TfSlots = 1 \/ (Liquid /\ SlotsPerDay % TfSlots = 0)

(* Since the exit, every bar took at least a timeframe.                    *)
BarsSince(s) == barIndex + 1 - (risk.cooldownUntil[s] - CooldownBars)

CooldownInv ==
    \A s \in Symbols :
        ~Open(s) /\ rows[s].exitTime # NoTime =>
            /\ Pending(s) # NoTime
            /\ Pending(s) - rows[s].exitTime >= BarsSince(s) * TfSlots

LEMMA MultiplesApart ==
    ASSUME NEW n \in Nat \ {0}, NEW p \in Int, NEW q \in Int, p * n < q * n
    PROVE  q * n - p * n >= n
<1>1. q - p >= 1
  <2> SUFFICES ASSUME q <= p PROVE FALSE
    OBVIOUS
  <2>1. q * n <= p * n
    OBVIOUS
  <2> QED
    BY <2>1
<1>2. (q - p) * n >= n
  BY <1>1
<1>3. (q - p) * n = q * n - p * n
  OBVIOUS
<1> QED
  BY <1>2, <1>3

LEMMA AlignedTime ==
    ASSUME SlotsPerDay % TfSlots = 0, NEW t \in Nat, SlotOf(t) % TfSlots = 0
    PROVE  \E p \in Nat : t = p * TfSlots
<1>0. TfSlots \in Nat \ {0} /\ SlotsPerDay \in Nat \ {0}
  BY ConstantsAssumption
<1> DEFINE k == SlotsPerDay \div TfSlots
           d == Day(t)
           j == SlotOf(t) \div TfSlots
<1>1. k \in Nat /\ SlotsPerDay = k * TfSlots
  <2>1. k \in Nat /\ SlotsPerDay = k * TfSlots + (SlotsPerDay % TfSlots)
    BY <1>0, Quotient
  <2> QED
    BY <1>0, <2>1
<1>2. d \in Nat /\ SlotOf(t) \in Nat /\ t = d * SlotsPerDay + SlotOf(t)
  BY <1>0, Quotient, SlotRange DEF Day, SlotOf
<1>3. j \in Nat /\ SlotOf(t) = j * TfSlots
  <2>1. j \in Nat /\ SlotOf(t) = j * TfSlots + (SlotOf(t) % TfSlots)
    BY <1>0, <1>2, Quotient
  <2> QED
    BY <1>0, <2>1
<1> HIDE DEF k, d, j
<1>4. t = d * (k * TfSlots) + j * TfSlots
  BY <1>1, <1>2, <1>3
<1>5. d * (k * TfSlots) + j * TfSlots = (d * k + j) * TfSlots
  BY <1>0, <1>1, <1>2, <1>3
<1>6. d * k + j \in Nat
  BY <1>1, <1>2, <1>3, ProductNat
<1> QED
  BY <1>4, <1>5, <1>6

LEMMA NextCandle ==
    ASSUME TypeOK, FeedInv, FeedInv', EvenCandles, NEW s \in Symbols, MinuteClose(s),
           NEW c, NEW quote, Hands(s, c, quote)
    PROVE  /\ c.time \in Nat /\ c.time = Pending(s) /\ Pending(s)' \in Nat
           /\ Pending(s)' - c.time >= TfSlots
<1>0. TfSlots \in Nat \ {0}
  BY ConstantsAssumption
<1>1. c.time \in Nat /\ c.time = Pending(s) /\ c.time # NoTime
  BY DEF Hands, CandleType, NoTime
<1>2. /\ minute[s] < now /\ minute'[s] = now /\ now \in Nat
      /\ minute[s] \in Nat
  BY MinuteCloseCases DEF TypeOK, FeedTypeOK, TimeType
<1>3. CASE TfSlots = 1
  BY <1>1, <1>2, <1>3 DEF Pending
<1>4. CASE TfSlots # 1
  <2>1. /\ bucket'[s].time = minute[s] /\ c.time = bucket[s].time
        /\ Pending(s)' = minute[s] /\ bucket'[s].time # NoTime
    BY <1>1, <1>2, <1>4 DEF Hands, Pending, NoTime
  <2>2. c.time < minute[s] /\ SlotOf(c.time) % TfSlots = 0 /\ SlotOf(minute[s]) % TfSlots = 0
    BY <1>1, <1>4, <2>1 DEF FeedInv, EvenCandles
  <2>3. PICK p \in Nat : c.time = p * TfSlots
    BY <1>1, <1>4, <2>2, AlignedTime DEF EvenCandles
  <2>4. PICK q \in Nat : minute[s] = q * TfSlots
    BY <1>2, <1>4, <2>2, AlignedTime DEF EvenCandles
  <2>5. p * TfSlots < q * TfSlots
    BY <2>2, <2>3, <2>4
  <2>6. q * TfSlots - p * TfSlots >= TfSlots
    BY <1>0, <2>5, MultiplesApart
  <2> QED
    BY <1>1, <1>2, <2>1, <2>3, <2>4, <2>6
<1> QED
  BY <1>3, <1>4

LEMMA StepKeepsCooldown ==
    ASSUME TypeOK, FeedInv, FeedInv', CooldownInv, [Next]_vars,
           EvenCandles, \A s, x \in Symbols : s = x
    PROVE  CooldownInv'
<1> SUFFICES ASSUME NEW s \in Symbols, ~Open(s)', rows'[s].exitTime # NoTime
             PROVE  /\ Pending(s)' # NoTime
                    /\ Pending(s)' - rows'[s].exitTime >= BarsSince(s)' * TfSlots
  BY DEF CooldownInv
<1>0. /\ TfSlots \in Nat \ {0} /\ CooldownBars \in Nat
      /\ barIndex \in Nat /\ risk \in RiskType /\ risk.cooldownUntil[s] \in Nat
      /\ rows[s].exitTime \in TimeType /\ rows \in [Symbols -> RowType]
  BY ConstantsAssumption DEF TypeOK, BooksTypeOK, RiskType, RowType
<1>b. BarsSince(s) \in Int
  BY <1>0 DEF BarsSince
<1>n. \A t \in Nat : t # NoTime
  BY DEF NoTime
<1>i. ~Open(s) /\ rows[s].exitTime # NoTime =>
            /\ Pending(s) # NoTime
            /\ Pending(s) - rows[s].exitTime >= BarsSince(s) * TfSlots
  BY DEF CooldownInv
<1>1. ASSUME UNCHANGED <<barIndex, bookVars>>, Pending(s) # NoTime => Pending(s)' = Pending(s)
      PROVE  /\ Pending(s)' # NoTime
             /\ Pending(s)' - rows'[s].exitTime >= BarsSince(s)' * TfSlots
  <2>1. rows'[s] = rows[s] /\ BarsSince(s)' = BarsSince(s) /\ ~Open(s)
    BY <1>1 DEF bookVars, BarsSince, Open
  <2> QED
    BY <1>1, <1>i, <2>1
<1>2. ASSUME MinuteClose(s), NEW c, NEW quote, Hands(s, c, quote)
      PROVE  /\ Pending(s)' # NoTime
             /\ Pending(s)' - rows'[s].exitTime >= BarsSince(s)' * TfSlots
  <2>1. /\ c.time \in Nat /\ c.time = Pending(s) /\ Pending(s)' \in Nat
        /\ Pending(s)' - c.time >= TfSlots
    BY <1>2, NextCandle
  <2>2. CASE ~Open(s) /\ rows' = rows /\ risk'.cooldownUntil = risk.cooldownUntil
              /\ barIndex' \in {barIndex, barIndex + 1}
    <3>1. /\ BarsSince(s)' \in Int /\ BarsSince(s)' <= BarsSince(s) + 1
      BY <1>0, <2>2 DEF BarsSince
    <3>2. BarsSince(s)' * TfSlots <= (BarsSince(s) + 1) * TfSlots
      BY <1>0, <1>b, <3>1
    <3>3. (BarsSince(s) + 1) * TfSlots = BarsSince(s) * TfSlots + TfSlots
      BY <1>0, <1>b
    <3>4. Pending(s) - rows[s].exitTime >= BarsSince(s) * TfSlots
      BY <1>i, <2>2
    <3>5. rows[s].exitTime \in Int /\ BarsSince(s) * TfSlots \in Int /\ BarsSince(s)' * TfSlots \in Int
      BY <1>0, <1>b, <3>1 DEF TimeType, NoTime
    <3> QED
      BY <1>0, <1>n, <2>1, <2>2, <3>2, <3>3, <3>4, <3>5
  <2>3. CASE state = "stopped"
    <3>1. UNCHANGED <<barIndex, tradingDay, bookVars>>
      BY <1>2, <2>3, HandedOutcome
    <3> QED
      BY <2>2, <3>1 DEF bookVars, Open
  <2>4. CASE state # "stopped"
    <3>1. /\ c \in CandleType /\ barIndex' = barIndex + 1
          /\ EntersAt(s, c) \/ ExitsAt(s, c) \/ StaysAt(s, c, SellsFill(s, quote))
      BY <1>2, <2>4, HandedOutcome
    <3>2. ~EntersAt(s, c)
      BY <3>1, SymbolOutcome
    <3>3. CASE StaysAt(s, c, SellsFill(s, quote))
      <4>1. ~Open(s)
        BY <3>1, <3>3, SymbolOutcome
      <4>2. risk'.cooldownUntil = risk.cooldownUntil /\ rows' = rows
        BY <3>1, <3>3, <4>1, TradesAtFacts DEF StaysAt, TypeOK
      <4> QED
        BY <2>2, <3>1, <4>1, <4>2
    <3>4. CASE ExitsAt(s, c)
      <4>1. rows'[s].exitTime = c.time
        BY <3>1, <3>4, SymbolOutcome
      <4>2. risk'.cooldownUntil[s] = barIndex + 1 + CooldownBars
        <5>1. PICK realized \in Int : risk' = RecordExit(RiskAt(c), s, barIndex + 1, realized)
          BY <3>4 DEF ExitsAt
        <5>2. RiskAt(c) \in RiskType
          BY <3>1, TradesAtFacts DEF TypeOK
        <5> QED
          BY <5>1, <5>2 DEF RecordExit, RiskType
      <4>3. BarsSince(s)' = 1
        BY <1>0, <3>1, <4>2 DEF BarsSince
      <4> QED
        BY <1>0, <1>n, <2>1, <4>1, <4>3
    <3> QED
      BY <3>1, <3>2, <3>3, <3>4
  <2> QED
    BY <2>3, <2>4
<1>3. ASSUME MinuteClose(s), Collects(s)
      PROVE  UNCHANGED <<barIndex, bookVars>> /\ (Pending(s) # NoTime => Pending(s)' = Pending(s))
  BY <1>3 DEF Collects, Pending
<1>4. ASSUME FirstTick(s)
      PROVE  UNCHANGED <<barIndex, bookVars>> /\ (Pending(s) # NoTime => Pending(s)' = Pending(s))
  BY <1>4 DEF FirstTick, Pending
<1>5. ASSUME UNCHANGED vars \/ AdvanceClock \/ \E st \in {"running", "paused", "stopped"} : SetState(st)
      PROVE  UNCHANGED <<barIndex, bookVars>> /\ (Pending(s) # NoTime => Pending(s)' = Pending(s))
  BY <1>5 DEF AdvanceClock, SetState, vars, feedVars, Pending
<1>6. CASE MinuteClose(s)
  BY <1>1, <1>2, <1>3, <1>6, MinuteCloseCases
<1> QED
  BY <1>1, <1>4, <1>5, <1>6 DEF Next

(* After a trade closes, cooldown.bars candles of the strategy's timeframe *)
(* pass before the symbol is entered again, for a strategy with one symbol *)
(* on minutes, or on a timeframe that divides the day and whose feed has   *)
(* no gaps.  The bar counter is the runtime's, so with several symbols the *)
(* candles of the others shorten the wait.                                 *)
THEOREM CooldownHolds ==
    ASSUME EvenCandles, \A s, x \in Symbols : s = x
    PROVE  Spec => CooldownRespected
<1> DEFINE Waits == \A s \in Symbols :
                        ~Open(s) /\ Open(s)' /\ rows[s].exitTime # NoTime =>
                            trades'[s].time - rows[s].exitTime >= CooldownBars * TfSlots
<1>1. Init => CooldownInv
  BY DEF Init, CooldownInv, NoRow
<1>2. TypeOK /\ FeedInv /\ FeedInv' /\ CooldownInv /\ [Next]_vars => CooldownInv'
  BY StepKeepsCooldown
<1>3. TypeOK /\ FeedInv /\ OrderInv /\ CooldownInv /\ [Next]_vars => Waits
  <2> SUFFICES ASSUME TypeOK, FeedInv, OrderInv, CooldownInv, [Next]_vars,
                      NEW s \in Symbols, ~Open(s), Open(s)', rows[s].exitTime # NoTime
               PROVE  trades'[s].time - rows[s].exitTime >= CooldownBars * TfSlots
    OBVIOUS
  <2>1. PICK c \in CandleType, quote \in Nat :
           /\ Hands(s, c, quote)
           /\ EntersAt(s, c) \/ ExitsAt(s, c) \/ StaysAt(s, c, SellsFill(s, quote))
    BY StepIsCandle DEF bookVars, Open
  <2>2. EntersAt(s, c) /\ trades'[s].time = c.time
    BY <2>1, SymbolOutcome
  <2>3. ~(barIndex + 1 < risk.cooldownUntil[s])
    <3>1. ~InCooldown(RiskAt(c), s, barIndex + 1)
      BY <2>2 DEF EntersAt, WantsEntry, CanEnter
    <3>2. RiskAt(c).cooldownUntil = risk.cooldownUntil
      BY TradesAtFacts DEF TypeOK
    <3> QED
      BY <3>1, <3>2 DEF InCooldown
  <2>4. /\ TfSlots \in Nat /\ CooldownBars \in Nat /\ barIndex \in Nat
        /\ risk.cooldownUntil[s] \in Nat
    BY ConstantsAssumption DEF TypeOK, BooksTypeOK, RiskType
  <2>5. BarsSince(s) \in Int /\ BarsSince(s) >= CooldownBars
    BY <2>3, <2>4 DEF BarsSince
  <2>6. BarsSince(s) * TfSlots >= CooldownBars * TfSlots
    BY <2>4, <2>5
  <2>7. c.time - rows[s].exitTime >= BarsSince(s) * TfSlots
    BY <2>1 DEF CooldownInv, Hands
  <2>8. c.time \in Int /\ rows[s].exitTime \in Int
    BY DEF CandleType, TypeOK, BooksTypeOK, RowType, TimeType, NoTime
  <2>9. BarsSince(s) * TfSlots \in Int /\ CooldownBars * TfSlots \in Int
    BY <2>4, <2>5
  <2> QED
    BY <2>2, <2>6, <2>7, <2>8, <2>9
<1>4. Spec => [](OrderInv /\ LossInv)
  BY DaysFollow DEF DaysInOrder
<1>5. Spec => [][Waits]_vars
  BY <1>1, <1>2, <1>3, <1>4, Typed, FeedInStep, PTL DEF Spec
<1> QED
  BY <1>5 DEF CooldownRespected
=============================================================================
