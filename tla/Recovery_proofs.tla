---------------------------- MODULE Recovery_proofs ----------------------------
(***************************************************************************)
(* Proofs about Recovery.  The inductive invariant says how the ledger and *)
(* the trades table move together: at every moment the ledger accounts for *)
(* the older rows that were replayed, for every younger row, for what is   *)
(* counted twice, and for the row that is bought and not yet sold.  That a *)
(* restart cannot double or drop another trade then is a fact about sums   *)
(* over the rows, from Sums.                                               *)
(***************************************************************************)
EXTENDS Recovery, Sums, TLAPS, FiniteSetTheorems, SequenceTheorems

RowType ==
    [symbol : Symbols, state : {"ACTIVE", "EXPIRED", "CLOSED"},
     entry : Nat, exit : Nat, costs : Nat]

(* A trade and the row it belongs to.                                      *)
HeldType == [row : Nat \ {0}, trade : RowType]

LedgerType ==
    [cash : Int, realizedPnL : Int, totalCosts : Int,
     holdings : [Symbols -> [qty : Nat, avg : Nat]]]

StartType ==
    [at : {"idle", "ledger", "registered", "replaying", "selling"}, fresh : BOOLEAN, todo : Seq(HeldType)]

IsTable(table) == IsFiniteSet(DOMAIN table) /\ \A i \in DOMAIN table : table[i] \in RowType

TypeOK ==
    /\ rows \in Seq(RowType)
    /\ ledger = NoLedger \/ ledger \in LedgerType
    /\ running \in BOOLEAN
    /\ mine \in [Symbols -> HeldType \cup {NoTrade}]
    /\ start \in StartType
    /\ before \in 0 .. Len(rows) /\ replayed \in 0 .. before
    /\ DOMAIN surplus \subseteq (before + 1) .. Len(rows) /\ IsTable(surplus)

(* What a trade takes out of the cash, and what it leaves in the holding.  *)
Cost(t) == t.entry + t.costs - t.exit
Unit(t, s) == IF t.symbol = s /\ Open(t) THEN 1 ELSE 0

(* The same for the trades of done in a table.                             *)
Costs(table) == [i \in DOMAIN table |-> Cost(table[i])]
Paid(table, done) == SumOf(Costs(table), done)
HeldIn(table, s, done) == {i \in done : table[i].symbol = s /\ Open(table[i])}
Units(table, s, done) == Cardinality(HeldIn(table, s, done))

(* The rows the ledger has traded: the older ones that were replayed, and  *)
(* the ones it has seen entered.                                           *)
Traded == (1 .. replayed) \cup ((before + 1) .. Len(rows))

HalfCost ==
    IF start.at = "selling" THEN Head(start.todo).trade.entry + Head(start.todo).trade.costs ELSE 0

(* What the trades of done and those beside the table come to.             *)
Balance(table, beside, done) == Paid(table, done) + Paid(beside, DOMAIN beside)
Quantity(table, beside, done, s) == Units(table, s, done) + Units(beside, s, DOMAIN beside)

AccountInv ==
    ledger # NoLedger =>
        /\ ledger.cash = StartingCash - Balance(rows, surplus, Traded) - HalfCost
        /\ \A s \in Symbols :
              ledger.holdings[s].qty = Quantity(rows, surplus, Traded, s) + HalfReplayed(s)

(* The runtime's trade is what its row shows or what the ledger counts     *)
(* beside it.                                                              *)
Shown(h, table, beside, done) ==
    /\ h.row \in done
    /\ \/ table[h.row] = h.trade
       \/ h.row \in DOMAIN beside /\ beside[h.row] = h.trade

(* A trade that is open has no exit yet.                                   *)
Sound(t) == Open(t) => t.exit = 0

RowInv ==
    /\ \A i \in DOMAIN rows : Sound(rows[i])
    /\ \A i \in DOMAIN surplus : Sound(surplus[i]) /\ surplus[i].symbol = rows[i].symbol
    /\ \A s \in Symbols : mine[s] # NoTrade =>
          /\ Shown(mine[s], rows, surplus, Traded)
          /\ mine[s].trade.symbol = s /\ Open(mine[s].trade)

(* A start that made the ledger replays the rows it has read, in order;    *)
(* the older of them are as they were read.                                *)
TodoInv(first, n) ==
    /\ n \in Nat \ {0} /\ n = Len(start.todo)
    /\ first + n - 1 \in DOMAIN rows /\ before <= first + n - 1
    /\ \A j \in 1 .. n :
          LET h == start.todo[j]
          IN  /\ h.row = first + j - 1
              /\ Sound(h.trade) /\ h.trade.symbol = rows[h.row].symbol
              /\ h.row <= before => h.trade = rows[h.row]
    /\ replayed = IF first <= before THEN first - 1 ELSE before
    /\ DOMAIN surplus = (before + 1) .. (first - 1)
    /\ start.at = "selling" => ~Open(start.todo[1].trade)

StartInv ==
    /\ running \/ start.at # "idle" => ledger # NoLedger
    /\ start.at = "idle" => start = NoStart
    /\ start.at = "ledger" => ~running /\ (start.fresh => before = Len(rows))
    /\ start.at \in {"ledger", "registered"} /\ start.fresh => replayed = 0 /\ DOMAIN surplus = {}
    /\ start.at \in {"registered", "replaying", "selling"} => start.fresh /\ running
    /\ running \/ \A s \in Symbols : mine[s] = NoTrade
    /\ start.at \in {"replaying", "selling"} => TodoInv(start.todo[1].row, Len(start.todo))

RecoveryInv == TypeOK /\ RowInv /\ StartInv /\ AccountInv
-----------------------------------------------------------------------------
(* The ledger.                                                             *)

LEMMA LedgerIsThere ==
    ASSUME NEW l \in LedgerType
    PROVE  l # NoLedger
<1>1. "holdings" \in DOMAIN l
  BY DEF LedgerType
<1>2. "holdings" \notin DOMAIN NoLedger
  BY DEF NoLedger
<1> QED
  BY <1>1, <1>2

LEMMA AverageNat ==
    ASSUME NEW pos \in [qty : Nat, avg : Nat], NEW price \in Nat
    PROVE  Bought(pos, 1, price) \in [qty : Nat, avg : Nat] /\ Bought(pos, 1, price).qty = pos.qty + 1
<1> DEFINE amount == pos.avg * pos.qty + price * 1
           n == pos.qty + 1
<1>1. pos.avg \in Nat /\ pos.qty \in Nat /\ n \in Nat \ {0}
  OBVIOUS
<1>2. amount \in Nat
  BY <1>1
<1> HIDE DEF amount, n
<1>3. 2 * amount + n \in Nat /\ 2 * n \in Nat \ {0}
  BY <1>1, <1>2
<1>4. (2 * amount + n) \div (2 * n) \in Nat
  BY <1>3
<1>5. Bought(pos, 1, price) =
        IF pos.qty = 0 THEN [qty |-> 1, avg |-> price] ELSE [qty |-> n, avg |-> Rounded(amount, n)]
  BY DEF Bought, n, amount
<1>6. Rounded(amount, n) \in Nat
  BY <1>4 DEF Rounded
<1> QED
  BY <1>1, <1>5, <1>6 DEF n

LEMMA BuyOne ==
    ASSUME NEW l \in LedgerType, NEW s \in Symbols, NEW price \in Nat, NEW costs \in Nat
    PROVE  /\ AfterBuy(l, s, 1, price, costs) \in LedgerType
           /\ AfterBuy(l, s, 1, price, costs).cash = l.cash - (price + costs)
           /\ AfterBuy(l, s, 1, price, costs).holdings[s].qty = l.holdings[s].qty + 1
           /\ \A x \in Symbols \ {s} :
                 AfterBuy(l, s, 1, price, costs).holdings[x] = l.holdings[x]
<1> DEFINE new == AfterBuy(l, s, 1, price, costs)
           pos == Bought(l.holdings[s], 1, price)
<1>1. l.holdings \in [Symbols -> [qty : Nat, avg : Nat]] /\ l.cash \in Int /\ l.totalCosts \in Int
  BY DEF LedgerType
<1>2. pos \in [qty : Nat, avg : Nat] /\ pos.qty = l.holdings[s].qty + 1
  BY <1>1, AverageNat
<1> HIDE DEF pos
<1> DEFINE hold == [l.holdings EXCEPT ![s] = pos]
           cash == l.cash - (price * 1 + costs)
           spent == l.totalCosts + costs
           made == l.realizedPnL
<1>3. new = [l EXCEPT !.cash = cash, !.realizedPnL = made, !.totalCosts = spent, !.holdings = hold]
  BY DEF AfterBuy, LedgerType, pos
<1>4. cash = l.cash - (price + costs) /\ cash \in Int /\ spent \in Int
  BY <1>1
<1>5. /\ hold \in [Symbols -> [qty : Nat, avg : Nat]] /\ hold[s] = pos
      /\ \A x \in Symbols \ {s} : hold[x] = l.holdings[x]
  BY <1>1, <1>2
<1>6. made \in Int
  BY DEF LedgerType
<1> HIDE DEF hold, cash, spent, made, new
<1>7. new \in LedgerType /\ new.cash = cash /\ new.holdings = hold
  <2>1. new.cash = cash /\ new.holdings = hold
    BY <1>3 DEF LedgerType
  <2>2. new \in LedgerType
    BY <1>3, <1>4, <1>5, <1>6 DEF LedgerType
  <2> QED
    BY <2>1, <2>2
<1> QED
  BY <1>2, <1>4, <1>5, <1>7 DEF new

LEMMA SellOne ==
    ASSUME NEW l \in LedgerType, NEW s \in Symbols, NEW price \in Nat, NEW costs \in Nat,
           l.holdings[s].qty >= 1
    PROVE  /\ AfterSell(l, s, 1, price, costs) \in LedgerType
           /\ AfterSell(l, s, 1, price, costs).cash = l.cash + price - costs
           /\ AfterSell(l, s, 1, price, costs).holdings[s].qty = l.holdings[s].qty - 1
           /\ \A x \in Symbols \ {s} :
                 AfterSell(l, s, 1, price, costs).holdings[x] = l.holdings[x]
<1> DEFINE new == AfterSell(l, s, 1, price, costs)
           pos == Sold(l.holdings[s], 1)
           gain == Realized(l, s, 1, price)
<1>1. /\ l.holdings \in [Symbols -> [qty : Nat, avg : Nat]]
      /\ l.cash \in Int /\ l.totalCosts \in Int /\ l.realizedPnL \in Int
  BY DEF LedgerType
<1>2. pos \in [qty : Nat, avg : Nat] /\ pos.qty = l.holdings[s].qty - 1
  BY <1>1 DEF Sold, Flat
<1>3. gain \in Int
  BY <1>1 DEF Realized
<1> HIDE DEF pos, gain
<1> DEFINE hold == [l.holdings EXCEPT ![s] = pos]
           cash == l.cash + price * 1 - costs
           spent == l.totalCosts + costs
           made == l.realizedPnL + gain
<1>4. new = [l EXCEPT !.cash = cash, !.realizedPnL = made, !.totalCosts = spent, !.holdings = hold]
  BY DEF AfterSell, LedgerType, pos, gain
<1>5. cash = l.cash + price - costs /\ cash \in Int /\ spent \in Int /\ made \in Int
  BY <1>1, <1>3
<1>6. /\ hold \in [Symbols -> [qty : Nat, avg : Nat]] /\ hold[s] = pos
      /\ \A x \in Symbols \ {s} : hold[x] = l.holdings[x]
  BY <1>1, <1>2
<1> HIDE DEF hold, cash, spent, made, new
<1>7. new \in LedgerType /\ new.cash = cash /\ new.holdings = hold
  <2>1. new.cash = cash /\ new.holdings = hold
    BY <1>4 DEF LedgerType
  <2>2. new \in LedgerType
    BY <1>4, <1>5, <1>6 DEF LedgerType
  <2> QED
    BY <2>1, <2>2
<1> QED
  BY <1>2, <1>5, <1>6, <1>7 DEF new

-----------------------------------------------------------------------------
(* Tables.                                                                 *)

LEMMA CostInt ==
    ASSUME NEW t \in RowType
    PROVE  Cost(t) \in Int /\ (Sound(t) /\ Open(t) => Cost(t) = t.entry + t.costs)
  BY DEF Cost, RowType, Sound

LEMMA TotalsType ==
    ASSUME NEW f, IsTable(f), NEW done, done \subseteq DOMAIN f
    PROVE  /\ IsFiniteSet(done)
           /\ \A i \in DOMAIN f : Costs(f)[i] = Cost(f[i]) /\ Costs(f)[i] \in Int
           /\ Paid(f, done) \in Int
           /\ \A s : IsFiniteSet(HeldIn(f, s, done)) /\ Units(f, s, done) \in Nat
<1>1. IsFiniteSet(done)
  BY FS_Subset DEF IsTable
<1>2. \A i \in DOMAIN f : Costs(f)[i] = Cost(f[i]) /\ Costs(f)[i] \in Int
  BY CostInt DEF Costs, IsTable
<1>3. Paid(f, done) \in Int
  BY <1>1, <1>2, SumInt DEF Paid
<1>4. \A s : IsFiniteSet(HeldIn(f, s, done)) /\ Units(f, s, done) \in Nat
  BY <1>1, FS_Subset, FS_CardinalityType DEF HeldIn, Units
<1> QED
  BY <1>1, <1>2, <1>3, <1>4

LEMMA TotalsEmpty ==
    ASSUME NEW f
    PROVE  Paid(f, {}) = 0 /\ \A s : Units(f, s, {}) = 0
<1>1. \A s : HeldIn(f, s, {}) = {}
  BY DEF HeldIn
<1> QED
  BY <1>1, SumEmpty, FS_EmptySet DEF Paid, Units

(* Two tables that agree on done.                                          *)
LEMMA TotalsEqual ==
    ASSUME NEW f, NEW g, IsTable(f), IsTable(g), NEW done,
           done \subseteq DOMAIN f, done \subseteq DOMAIN g, \A i \in done : f[i] = g[i]
    PROVE  Paid(f, done) = Paid(g, done) /\ \A s : Units(f, s, done) = Units(g, s, done)
<1>1. IsFiniteSet(done) /\ \A i \in done : Costs(f)[i] = Costs(g)[i]
  BY TotalsType
<1>2. Paid(f, done) = Paid(g, done)
  BY <1>1, SumEqual DEF Paid
<1>3. \A s : HeldIn(f, s, done) = HeldIn(g, s, done)
  BY DEF HeldIn
<1> QED
  BY <1>2, <1>3 DEF Units

(* One trade more.                                                         *)
LEMMA TotalsAdd ==
    ASSUME NEW f, IsTable(f), NEW done, done \subseteq DOMAIN f, NEW i \in DOMAIN f, i \notin done
    PROVE  /\ Paid(f, done \cup {i}) = Paid(f, done) + Cost(f[i])
           /\ \A s : Units(f, s, done \cup {i}) = Units(f, s, done) + Unit(f[i], s)
<1>1. Paid(f, done \cup {i}) = Paid(f, done) + Cost(f[i])
  <2> DEFINE g == Costs(f)
  <2>1. IsFiniteSet(done) /\ g[i] = Cost(f[i]) /\ \A x \in done \cup {i} : g[x] \in Int
    BY TotalsType
  <2>2. i \notin done
    OBVIOUS
  <2> HIDE DEF g
  <2>3. SumOf(g, done \cup {i}) = SumOf(g, done) + g[i]
    BY ONLY <2>1, <2>2, SumAdd
  <2> QED
    BY <2>1, <2>3 DEF g, Paid
<1>2. ASSUME NEW s PROVE Units(f, s, done \cup {i}) = Units(f, s, done) + Unit(f[i], s)
  <2> DEFINE H == HeldIn(f, s, done)
  <2>1. IsFiniteSet(H) /\ Cardinality(H) \in Nat
    BY TotalsType DEF Units
  <2>0. i \notin H
    BY DEF HeldIn
  <2>2. CASE f[i].symbol = s /\ Open(f[i])
    <3>1. HeldIn(f, s, done \cup {i}) = H \cup {i}
      BY <2>2 DEF HeldIn
    <3> QED
      BY <2>0, <2>1, <2>2, <3>1, FS_AddElement DEF Units, Unit
  <2>3. CASE ~(f[i].symbol = s /\ Open(f[i]))
    <3>1. HeldIn(f, s, done \cup {i}) = H
      BY <2>3 DEF HeldIn
    <3> QED
      BY <2>1, <2>3, <3>1 DEF Units, Unit
  <2> QED
    BY <2>2, <2>3
<1> QED
  BY <1>1, <1>2

(* One trade of done is another one now.                                   *)
LEMMA TotalsChange ==
    ASSUME NEW f, NEW g, IsTable(f), IsTable(g), DOMAIN g = DOMAIN f,
           NEW done, done \subseteq DOMAIN f, NEW i \in done, \A j \in done \ {i} : f[j] = g[j]
    PROVE  /\ Paid(g, done) = Paid(f, done) - Cost(f[i]) + Cost(g[i])
           /\ \A s : Units(g, s, done) = Units(f, s, done) - Unit(f[i], s) + Unit(g[i], s)
<1> DEFINE rest == done \ {i}
<1>1. rest \subseteq DOMAIN f /\ i \in DOMAIN f /\ i \notin rest /\ rest \cup {i} = done
  OBVIOUS
<1> HIDE DEF rest
<1>2. /\ Paid(f, done) = Paid(f, rest) + Cost(f[i])
      /\ \A s : Units(f, s, done) = Units(f, s, rest) + Unit(f[i], s)
  BY <1>1, TotalsAdd
<1>3. /\ Paid(g, done) = Paid(g, rest) + Cost(g[i])
      /\ \A s : Units(g, s, done) = Units(g, s, rest) + Unit(g[i], s)
  BY <1>1, TotalsAdd
<1>4. Paid(f, rest) = Paid(g, rest) /\ \A s : Units(f, s, rest) = Units(g, s, rest)
  BY <1>1, TotalsEqual DEF rest
<1>5. /\ Paid(f, rest) \in Int /\ \A s : Units(f, s, rest) \in Nat
      /\ Cost(f[i]) \in Int /\ Cost(g[i]) \in Int
      /\ \A s : Unit(f[i], s) \in Nat /\ Unit(g[i], s) \in Nat
  BY <1>1, TotalsType, CostInt DEF IsTable, Unit
<1>6. Paid(g, done) = Paid(f, done) - Cost(f[i]) + Cost(g[i])
  BY <1>2, <1>3, <1>4, <1>5
<1>7. ASSUME NEW s PROVE Units(g, s, done) = Units(f, s, done) - Unit(f[i], s) + Unit(g[i], s)
  BY <1>2, <1>3, <1>4, <1>5
<1> QED
  BY <1>6, <1>7

LEMMA TotalsChangeAll ==
    ASSUME NEW f, NEW g, IsTable(f), IsTable(g), DOMAIN g = DOMAIN f,
           NEW i \in DOMAIN f, \A j \in DOMAIN f \ {i} : f[j] = g[j]
    PROVE  /\ Paid(g, DOMAIN f) = Paid(f, DOMAIN f) - Cost(f[i]) + Cost(g[i])
           /\ \A s : Units(g, s, DOMAIN f) = Units(f, s, DOMAIN f) - Unit(f[i], s) + Unit(g[i], s)
<1>1. PICK done : done = DOMAIN f
  OBVIOUS
<1>2. done \subseteq DOMAIN f /\ i \in done /\ \A j \in done \ {i} : f[j] = g[j]
  BY <1>1
<1>3. /\ Paid(g, done) = Paid(f, done) - Cost(f[i]) + Cost(g[i])
      /\ \A s : Units(g, s, done) = Units(f, s, done) - Unit(f[i], s) + Unit(g[i], s)
  BY <1>2, TotalsChange
<1> QED
  BY <1>1, <1>3

LEMMA RowsAreTable ==
    ASSUME NEW rs \in Seq(RowType)
    PROVE  IsTable(rs) /\ DOMAIN rs = 1 .. Len(rs) /\ Len(rs) \in Nat
<1>1. DOMAIN rs = 1 .. Len(rs) /\ Len(rs) \in Nat /\ \A i \in DOMAIN rs : rs[i] \in RowType
  OBVIOUS
<1> QED
  BY <1>1, FS_Interval DEF IsTable

(* The sum the property is stated with, as the sum the lemmas speak of.    *)
LEMMA SpentIsPaid ==
    ASSUME NEW f, IsTable(f)
    PROVE  SpentIn(f) = Paid(f, DOMAIN f)
<1> DEFINE g == Costs(f)
           D == DOMAIN f
           Solves(q) == q = [T \in SUBSET D |->
                IF T = {} THEN 0
                ELSE (f[First(T)].entry + f[First(T)].costs - f[First(T)].exit) + q[T \ {First(T)}]]
           h == CHOOSE q : Solves(q)
<1>1. IsFiniteSet(D)
  BY DEF IsTable
<1>2. PICK k : IsSumOver(k, g, D) /\ SumOf(g, D) = k[D]
  BY <1>1, SumOfIsSum
<1>3. \A T \in SUBSET D : T # {} =>
         g[First(T)] = f[First(T)].entry + f[First(T)].costs - f[First(T)].exit
  BY FirstIn DEF Costs, Cost
<1>4. h[D] = SpentIn(f)
  BY DEF SpentIn, MapThenSumSet, MapThenFoldSet, First
<1> HIDE DEF g, D
<1>5. Solves(k)
  BY <1>2, <1>3 DEF IsSumOver
<1>6. Solves(h)
  <2> HIDE DEF Solves
  <2> QED
    BY <1>5
<1> HIDE DEF h
<1>7. IsSumOver(h, g, D)
  BY <1>3, <1>6 DEF IsSumOver
<1>8. k[D] = h[D]
  BY <1>1, <1>2, <1>7, SumAgree
<1> QED
  BY <1>2, <1>4, <1>8 DEF g, D, Paid

LEMMA EmptyLedger ==
    /\ NewLedger(Symbols, StartingCash) \in LedgerType
    /\ NewLedger(Symbols, StartingCash).cash = StartingCash
    /\ \A s \in Symbols : NewLedger(Symbols, StartingCash).holdings[s].qty = 0
  BY RecoveryAssumption DEF NewLedger, LedgerType, Flat
-----------------------------------------------------------------------------
(* The balance of a table and of what is counted beside it.                *)

LEMMA BalanceType ==
    ASSUME NEW f, IsTable(f), NEW g, IsTable(g), NEW done, done \subseteq DOMAIN f
    PROVE  Balance(f, g, done) \in Int /\ \A s : Quantity(f, g, done, s) \in Nat
<1>1. /\ Paid(f, done) \in Int /\ Paid(g, DOMAIN g) \in Int
      /\ \A s : Units(f, s, done) \in Nat /\ Units(g, s, DOMAIN g) \in Nat
  BY TotalsType
<1> QED
  BY <1>1 DEF Balance, Quantity

(* A row is counted.                                                       *)
LEMMA BalanceRow ==
    ASSUME NEW f, IsTable(f), NEW g, IsTable(g), NEW done, done \subseteq DOMAIN f,
           NEW i \in DOMAIN f, i \notin done
    PROVE  /\ Balance(f, g, done \cup {i}) = Balance(f, g, done) + Cost(f[i])
           /\ \A s : Quantity(f, g, done \cup {i}, s) = Quantity(f, g, done, s) + Unit(f[i], s)
<1>1. /\ Paid(f, done) \in Int /\ Paid(g, DOMAIN g) \in Int
      /\ \A s : Units(f, s, done) \in Nat /\ Units(g, s, DOMAIN g) \in Nat
  BY TotalsType
<1>2. Cost(f[i]) \in Int /\ \A s : Unit(f[i], s) \in Nat
  BY CostInt DEF IsTable, Unit
<1>3. /\ Paid(f, done \cup {i}) = Paid(f, done) + Cost(f[i])
      /\ \A s : Units(f, s, done \cup {i}) = Units(f, s, done) + Unit(f[i], s)
  BY TotalsAdd
<1> QED
  BY <1>1, <1>2, <1>3 DEF Balance, Quantity

(* A trade is counted beside the table.                                    *)
LEMMA BalanceBeside ==
    ASSUME NEW f, IsTable(f), NEW g, IsTable(g), NEW k, IsTable(k), NEW done, done \subseteq DOMAIN f,
           NEW i, i \notin DOMAIN g, DOMAIN k = DOMAIN g \cup {i}, \A j \in DOMAIN g : k[j] = g[j]
    PROVE  /\ Balance(f, k, done) = Balance(f, g, done) + Cost(k[i])
           /\ \A s : Quantity(f, k, done, s) = Quantity(f, g, done, s) + Unit(k[i], s)
<1> DEFINE D == DOMAIN g
<1>0. D \subseteq DOMAIN k /\ D \subseteq DOMAIN g /\ i \in DOMAIN k /\ i \notin D /\ DOMAIN k = D \cup {i}
  OBVIOUS
<1> HIDE DEF D
<1>1. /\ Paid(f, done) \in Int /\ Paid(g, D) \in Int
      /\ \A s : Units(f, s, done) \in Nat /\ Units(g, s, D) \in Nat
  BY <1>0, TotalsType
<1>2. Cost(k[i]) \in Int /\ \A s : Unit(k[i], s) \in Nat
  BY <1>0, CostInt DEF IsTable, Unit
<1>3. \A j \in D : g[j] = k[j]
  BY <1>0
<1>4. Paid(g, D) = Paid(k, D) /\ \A s : Units(g, s, D) = Units(k, s, D)
  BY <1>0, <1>3, TotalsEqual
<1>5. /\ Paid(k, D \cup {i}) = Paid(k, D) + Cost(k[i])
      /\ \A s : Units(k, s, D \cup {i}) = Units(k, s, D) + Unit(k[i], s)
  BY <1>0, TotalsAdd
<1>6. Balance(f, k, done) = Balance(f, g, done) + Cost(k[i])
  BY <1>0, <1>1, <1>2, <1>4, <1>5 DEF Balance, D
<1>7. ASSUME NEW s PROVE Quantity(f, k, done, s) = Quantity(f, g, done, s) + Unit(k[i], s)
  <2>1. /\ Units(k, s, DOMAIN k) = Units(g, s, D) + Unit(k[i], s)
        /\ Units(f, s, done) \in Nat /\ Units(g, s, D) \in Nat /\ Unit(k[i], s) \in Nat
    BY <1>0, <1>1, <1>2, <1>4, <1>5
  <2> QED
    BY <2>1 DEF Quantity, D
<1> QED
  BY <1>6, <1>7

(* Two tables that agree on done.                                          *)
LEMMA BalanceEqual ==
    ASSUME NEW f, IsTable(f), NEW k, IsTable(k), NEW g, NEW done,
           done \subseteq DOMAIN f, done \subseteq DOMAIN k, \A i \in done : f[i] = k[i]
    PROVE  /\ Balance(k, g, done) = Balance(f, g, done)
           /\ \A s : Quantity(k, g, done, s) = Quantity(f, g, done, s)
<1>1. Paid(f, done) = Paid(k, done) /\ \A s : Units(f, s, done) = Units(k, s, done)
  BY TotalsEqual
<1> QED
  BY <1>1 DEF Balance, Quantity

(* A trade that was old is t now: its row shows t, and if the row had      *)
(* shown another trade that one is counted in the place of old.            *)
LEMMA BalanceChange ==
    ASSUME NEW f, IsTable(f), NEW g, IsTable(g), NEW done, done \subseteq DOMAIN f, NEW i \in done,
           NEW old \in RowType, NEW t \in RowType,
           f[i] = old \/ (i \in DOMAIN g /\ g[i] = old),
           NEW f2, DOMAIN f2 = DOMAIN f, f2[i] = t, \A j \in DOMAIN f \ {i} : f2[j] = f[j],
           NEW g2, g2 = [j \in DOMAIN g |-> IF j = i /\ g[j] = old THEN f[j] ELSE g[j]]
    PROVE  /\ IsTable(f2) /\ IsTable(g2)
           /\ Balance(f2, g2, done) = Balance(f, g, done) - Cost(old) + Cost(t)
           /\ \A s : Quantity(f2, g2, done, s) = Quantity(f, g, done, s) - Unit(old, s) + Unit(t, s)
<1>1. /\ IsTable(f2) /\ IsTable(g2) /\ DOMAIN g2 = DOMAIN g
      /\ \A j \in DOMAIN g \ {i} : g2[j] = g[j]
  BY DEF IsTable
<1>2. /\ Paid(f2, done) = Paid(f, done) - Cost(f[i]) + Cost(t)
      /\ \A s : Units(f2, s, done) = Units(f, s, done) - Unit(f[i], s) + Unit(t, s)
  <2>1. /\ IsTable(f) /\ done \subseteq DOMAIN f /\ i \in done /\ DOMAIN f2 = DOMAIN f /\ f2[i] = t
        /\ \A j \in done \ {i} : f[j] = f2[j]
    OBVIOUS
  <2>2. IsTable(f2)
    BY <1>1
  <2> QED
    BY ONLY <2>1, <2>2, TotalsChange
<1>3. /\ Paid(f, done) \in Int /\ Paid(g, DOMAIN g) \in Int
      /\ \A s : Units(f, s, done) \in Nat /\ Units(g, s, DOMAIN g) \in Nat
  BY TotalsType
<1>4. /\ Cost(f[i]) \in Int /\ Cost(t) \in Int /\ Cost(old) \in Int
      /\ \A s : Unit(f[i], s) \in Nat /\ Unit(t, s) \in Nat /\ Unit(old, s) \in Nat
  BY CostInt DEF IsTable, Unit
<1>5. /\ Paid(g2, DOMAIN g2) = Paid(g, DOMAIN g) - Cost(old) + Cost(f[i])
      /\ \A s : Units(g2, s, DOMAIN g2) = Units(g, s, DOMAIN g) - Unit(old, s) + Unit(f[i], s)
  <2>1. CASE i \in DOMAIN g /\ g[i] = old
    <3>1. \A j \in DOMAIN g \ {i} : g[j] = g2[j]
      BY <1>1
    <3>2. /\ Paid(g2, DOMAIN g) = Paid(g, DOMAIN g) - Cost(g[i]) + Cost(g2[i])
          /\ \A s : Units(g2, s, DOMAIN g) = Units(g, s, DOMAIN g) - Unit(g[i], s) + Unit(g2[i], s)
      BY <1>1, <2>1, <3>1, TotalsChangeAll
    <3>3. g2[i] = f[i] /\ g[i] = old
      BY <2>1
    <3> QED
      BY <1>1, <3>2, <3>3
  <2>2. CASE ~(i \in DOMAIN g /\ g[i] = old)
    <3>1. f[i] = old /\ \A j \in DOMAIN g : g[j] = g2[j]
      BY <2>2
    <3>2. Paid(g, DOMAIN g) = Paid(g2, DOMAIN g) /\ \A s : Units(g, s, DOMAIN g) = Units(g2, s, DOMAIN g)
      BY <1>1, <3>1, TotalsEqual
    <3> QED
      BY <1>1, <1>3, <1>4, <3>1, <3>2
  <2> QED
    BY <2>1, <2>2
<1>6. Balance(f2, g2, done) = Balance(f, g, done) - Cost(old) + Cost(t)
  BY <1>2, <1>3, <1>4, <1>5 DEF Balance
<1>7. ASSUME NEW s PROVE Quantity(f2, g2, done, s) = Quantity(f, g, done, s) - Unit(old, s) + Unit(t, s)
  BY <1>2, <1>3, <1>4, <1>5 DEF Quantity
<1> QED
  BY <1>1, <1>6, <1>7
-----------------------------------------------------------------------------
(* A row is replayed: the balance grows by its trade, which is counted     *)
(* among the rows or beside them.                                          *)

LEMMA TypesOf ==
    ASSUME TypeOK
    PROVE  /\ rows \in Seq(RowType) /\ DOMAIN rows = 1 .. Len(rows) /\ Len(rows) \in Nat
           /\ before \in Nat /\ replayed \in Nat /\ before <= Len(rows) /\ replayed <= before
           /\ IsTable(rows) /\ IsTable(surplus) /\ Traded \subseteq DOMAIN rows
           /\ DOMAIN surplus \subseteq Traded
           /\ start \in StartType /\ start.todo \in Seq(HeldType)
           /\ Balance(rows, surplus, Traded) \in Int
           /\ \A s : Quantity(rows, surplus, Traded, s) \in Nat
<1>1. /\ rows \in Seq(RowType) /\ DOMAIN rows = 1 .. Len(rows) /\ Len(rows) \in Nat
      /\ IsTable(rows) /\ IsTable(surplus)
  BY RowsAreTable DEF TypeOK
<1>2. before \in Nat /\ replayed \in Nat /\ before <= Len(rows) /\ replayed <= before
  BY <1>1 DEF TypeOK
<1>3. Traded \subseteq DOMAIN rows /\ DOMAIN surplus \subseteq Traded
  BY <1>1, <1>2 DEF TypeOK, Traded
<1>4. start \in StartType /\ start.todo \in Seq(HeldType)
  BY DEF TypeOK, StartType
<1> QED
  BY <1>1, <1>2, <1>3, <1>4, BalanceType

(* What the next row to replay is.                                         *)
LEMMA NextRow ==
    ASSUME TypeOK, RowInv, StartInv, start.at \in {"replaying", "selling"}, NEW h, h = Head(start.todo)
    PROVE  /\ h = start.todo[1] /\ h \in HeldType /\ h.row \in Nat \ {0} /\ h.trade \in RowType
           /\ h.row \in DOMAIN rows
           /\ Sound(h.trade) /\ h.trade.symbol = rows[h.row].symbol
           /\ h.row <= before => h.trade = rows[h.row]
           /\ replayed = IF h.row <= before THEN h.row - 1 ELSE before
           /\ DOMAIN surplus = (before + 1) .. (h.row - 1)
           /\ TodoInv(h.row, Len(start.todo)) /\ start.fresh /\ Len(start.todo) \in Nat \ {0}
           /\ start.at = "selling" => ~Open(h.trade)
<1> DEFINE first == start.todo[1].row
           n == Len(start.todo)
<1>1. TodoInv(first, n) /\ start.fresh /\ start.todo \in Seq(HeldType) /\ before \in Nat
  BY TypesOf DEF StartInv
<1>2. n \in Nat \ {0} /\ 1 \in 1 .. n
  BY <1>1 DEF TodoInv
<1>3. h = start.todo[1] /\ h \in HeldType
  BY <1>1, <1>2
<1>4. h.row \in Nat \ {0} /\ h.trade \in RowType
  BY <1>3 DEF HeldType
<1>5. first = h.row
  BY <1>3
<1> HIDE DEF first, n
<1>6. TodoInv(h.row, n)
  BY <1>1, <1>5
<1>7. /\ Sound(h.trade) /\ h.trade.symbol = rows[h.row].symbol
      /\ h.row <= before => h.trade = rows[h.row]
      /\ replayed = IF h.row <= before THEN h.row - 1 ELSE before
      /\ DOMAIN surplus = (before + 1) .. (h.row - 1)
      /\ start.at = "selling" => ~Open(h.trade)
      /\ h.row + n - 1 \in DOMAIN rows
  BY <1>2, <1>3, <1>6 DEF TodoInv
<1>8. h.row \in DOMAIN rows
  <2>1. DOMAIN rows = 1 .. Len(rows) /\ Len(rows) \in Nat
    BY TypesOf
  <2> QED
    BY <1>2, <1>4, <1>7, <2>1
<1> QED
  BY <1>1, <1>2, <1>3, <1>4, <1>6, <1>7, <1>8 DEF n

LEMMA RowDoneBalance ==
    ASSUME TypeOK, RowInv, StartInv, start.at \in {"replaying", "selling"}, RowDone, UNCHANGED rows,
           NEW h, h = Head(start.todo)
    PROVE  /\ Balance(rows, surplus, Traded)' = Balance(rows, surplus, Traded) + Cost(h.trade)
           /\ \A s : Quantity(rows, surplus, Traded, s)' =
                        Quantity(rows, surplus, Traded, s) + Unit(h.trade, s)
           /\ before' \in 0 .. Len(rows) /\ replayed' \in 0 .. before'
           /\ DOMAIN surplus' \subseteq (before' + 1) .. Len(rows) /\ IsTable(surplus')
           /\ \A i \in DOMAIN surplus' : Sound(surplus'[i]) /\ surplus'[i].symbol = rows[i].symbol
           /\ Shown(h, rows', surplus', Traded')
           /\ \A x : Shown(x, rows, surplus, Traded) => Shown(x, rows', surplus', Traded')
<1> DEFINE first == h.row
           t == h.trade
<1>1. /\ before \in Nat /\ replayed \in Nat /\ before <= Len(rows) /\ replayed <= before
      /\ DOMAIN rows = 1 .. Len(rows) /\ Len(rows) \in Nat /\ start.todo \in Seq(HeldType)
      /\ IsTable(rows) /\ IsTable(surplus) /\ Traded \subseteq DOMAIN rows
  BY TypesOf
<1>2. /\ t \in RowType /\ first \in Nat \ {0} /\ first \in DOMAIN rows
      /\ Sound(t) /\ t.symbol = rows[first].symbol /\ (first <= before => t = rows[first])
      /\ replayed = (IF first <= before THEN first - 1 ELSE before)
      /\ DOMAIN surplus = (before + 1) .. (first - 1)
  BY NextRow
<1>3. /\ before' = before /\ rows' = rows
      /\ first <= before => replayed' = replayed + 1 /\ surplus' = surplus
      /\ ~(first <= before) =>
            /\ replayed' = replayed
            /\ surplus' = [i \in DOMAIN surplus \cup {first} |-> IF i = first THEN t ELSE surplus[i]]
  BY DEF RowDone
<1>4. h.row = first /\ h.trade = t
  OBVIOUS
<1>t. IsTable(rows) /\ IsTable(surplus) /\ Traded \subseteq DOMAIN rows
  BY <1>1
<1> HIDE DEF first, t
<1>5. ASSUME first <= before
      PROVE  /\ Balance(rows, surplus, Traded)' = Balance(rows, surplus, Traded) + Cost(t)
             /\ \A s : Quantity(rows, surplus, Traded, s)' = Quantity(rows, surplus, Traded, s) + Unit(t, s)
             /\ before' \in 0 .. Len(rows) /\ replayed' \in 0 .. before'
             /\ DOMAIN surplus' \subseteq (before' + 1) .. Len(rows) /\ IsTable(surplus')
             /\ \A i \in DOMAIN surplus' : Sound(surplus'[i]) /\ surplus'[i].symbol = rows[i].symbol
             /\ Shown(h, rows', surplus', Traded') /\ \A x : Shown(x, rows, surplus, Traded) => Shown(x, rows', surplus', Traded')
  <2>1. /\ Traded' = Traded \cup {first} /\ first \notin Traded
        /\ surplus' = surplus /\ rows' = rows /\ t = rows[first] /\ replayed' = first
        /\ replayed = first - 1 /\ DOMAIN surplus = {}
    BY <1>1, <1>2, <1>3, <1>5 DEF Traded
  <2>2. /\ Balance(rows, surplus, Traded \cup {first}) = Balance(rows, surplus, Traded) + Cost(rows[first])
        /\ \A s : Quantity(rows, surplus, Traded \cup {first}, s) =
                     Quantity(rows, surplus, Traded, s) + Unit(rows[first], s)
    <3>1. first \in DOMAIN rows /\ first \notin Traded
      BY <1>2, <2>1
    <3> QED
      BY ONLY <1>t, <3>1, BalanceRow
  <2>3. /\ Balance(rows, surplus, Traded)' = Balance(rows, surplus, Traded) + Cost(t)
        /\ \A s : Quantity(rows, surplus, Traded, s)' = Quantity(rows, surplus, Traded, s) + Unit(t, s)
    BY <2>1, <2>2
  <2>4. Shown(h, rows', surplus', Traded') /\ \A x : Shown(x, rows, surplus, Traded) => Shown(x, rows', surplus', Traded')
    BY <1>4, <2>1 DEF Shown
  <2>5. /\ before' \in 0 .. Len(rows) /\ replayed' \in 0 .. before'
        /\ DOMAIN surplus' \subseteq (before' + 1) .. Len(rows) /\ IsTable(surplus')
        /\ \A i \in DOMAIN surplus' : Sound(surplus'[i]) /\ surplus'[i].symbol = rows[i].symbol
    BY <1>1, <1>2, <1>3, <1>5, <2>1
  <2> QED
    BY <2>3, <2>4, <2>5
<1>6. ASSUME ~(first <= before)
      PROVE  /\ Balance(rows, surplus, Traded)' = Balance(rows, surplus, Traded) + Cost(t)
             /\ \A s : Quantity(rows, surplus, Traded, s)' = Quantity(rows, surplus, Traded, s) + Unit(t, s)
             /\ before' \in 0 .. Len(rows) /\ replayed' \in 0 .. before'
             /\ DOMAIN surplus' \subseteq (before' + 1) .. Len(rows) /\ IsTable(surplus')
             /\ \A i \in DOMAIN surplus' : Sound(surplus'[i]) /\ surplus'[i].symbol = rows[i].symbol
             /\ Shown(h, rows', surplus', Traded') /\ \A x : Shown(x, rows, surplus, Traded) => Shown(x, rows', surplus', Traded')
  <2>1. /\ Traded' = Traded /\ first \in Traded /\ first \notin DOMAIN surplus
        /\ DOMAIN surplus' = DOMAIN surplus \cup {first} /\ surplus'[first] = t
        /\ \A i \in DOMAIN surplus : surplus'[i] = surplus[i]
        /\ rows' = rows /\ replayed' = replayed
    BY <1>1, <1>2, <1>3, <1>6 DEF Traded
  <2>2. IsTable(surplus')
    <3>1. IsFiniteSet(DOMAIN surplus)
      BY <1>t DEF IsTable
    <3>2. IsFiniteSet(DOMAIN surplus \cup {first})
      BY <3>1, FS_AddElement
    <3>3. \A i \in DOMAIN surplus' : surplus'[i] \in RowType
      BY <1>2, <1>t, <2>1 DEF IsTable
    <3> QED
      BY <2>1, <3>2, <3>3 DEF IsTable
  <2>3. /\ Balance(rows, surplus', Traded) = Balance(rows, surplus, Traded) + Cost(surplus'[first])
        /\ \A s : Quantity(rows, surplus', Traded, s) =
                     Quantity(rows, surplus, Traded, s) + Unit(surplus'[first], s)
    <3>1. PICK new : new = surplus'
      OBVIOUS
    <3>2. /\ IsTable(new) /\ first \notin DOMAIN surplus /\ DOMAIN new = DOMAIN surplus \cup {first}
          /\ \A j \in DOMAIN surplus : new[j] = surplus[j]
      BY <2>1, <2>2, <3>1
    <3>3. /\ Balance(rows, new, Traded) = Balance(rows, surplus, Traded) + Cost(new[first])
          /\ \A s : Quantity(rows, new, Traded, s) = Quantity(rows, surplus, Traded, s) + Unit(new[first], s)
      BY ONLY <1>t, <3>2, BalanceBeside
    <3> QED
      BY <3>1, <3>3
  <2>4. /\ Balance(rows, surplus, Traded)' = Balance(rows, surplus, Traded) + Cost(t)
        /\ \A s : Quantity(rows, surplus, Traded, s)' = Quantity(rows, surplus, Traded, s) + Unit(t, s)
    BY <2>1, <2>3
  <2>5. Shown(h, rows', surplus', Traded') /\ \A x : Shown(x, rows, surplus, Traded) => Shown(x, rows', surplus', Traded')
    BY <1>4, <2>1 DEF Shown
  <2>6. /\ before' \in 0 .. Len(rows) /\ replayed' \in 0 .. before'
        /\ DOMAIN surplus' \subseteq (before' + 1) .. Len(rows)
    BY <1>1, <1>2, <1>3, <1>6, <2>1
  <2>7. \A i \in DOMAIN surplus' : Sound(surplus'[i]) /\ surplus'[i].symbol = rows[i].symbol
    BY <1>2, <2>1 DEF RowInv
  <2> QED
    BY <2>2, <2>4, <2>5, <2>6, <2>7
<1> QED
  BY <1>4, <1>5, <1>6

LEMMA RowDoneStart ==
    ASSUME TypeOK, RowInv, StartInv, start.at \in {"replaying", "selling"}, RowDone, UNCHANGED rows
    PROVE  /\ start' \in StartType
           /\ \/ start' = NoStart
              \/ /\ start'.at = "replaying" /\ start'.fresh
                 /\ TodoInv(start.todo[1].row, Len(start.todo))'
<1> DEFINE h == Head(start.todo)
           q == start.todo
           first == h.row
           n == Len(q)
           r == Tail(q)
<1>1. /\ before \in Nat /\ replayed \in Nat /\ before <= Len(rows) /\ replayed <= before
      /\ DOMAIN rows = 1 .. Len(rows) /\ Len(rows) \in Nat /\ start \in StartType /\ q \in Seq(HeldType)
  BY TypesOf
<1>2. /\ first \in Nat \ {0} /\ n \in Nat \ {0} /\ TodoInv(first, n) /\ start.fresh
      /\ replayed = (IF first <= before THEN first - 1 ELSE before)
      /\ DOMAIN surplus = (before + 1) .. (first - 1)
  BY NextRow
<1>3. /\ before' = before /\ rows' = rows
      /\ n = 1 => start' = NoStart
      /\ n # 1 => start' = [start EXCEPT !.at = "replaying", !.todo = r]
      /\ first <= before => replayed' = replayed + 1 /\ surplus' = surplus
      /\ ~(first <= before) =>
            replayed' = replayed /\ DOMAIN surplus' = DOMAIN surplus \cup {first}
  BY DEF RowDone
<1>4. \A j \in 1 .. n : /\ q[j].row = first + j - 1
                        /\ Sound(q[j].trade) /\ q[j].trade.symbol = rows[q[j].row].symbol
                        /\ q[j].row <= before => q[j].trade = rows[q[j].row]
  BY <1>2 DEF TodoInv
<1>5. first + n - 1 \in DOMAIN rows /\ before <= first + n - 1
  BY <1>2 DEF TodoInv
<1> HIDE DEF h, q, first, n, r
<1>6. CASE n = 1
  <2>1. NoStart \in StartType
    BY DEF NoStart, StartType
  <2> QED
    BY <1>3, <1>6, <2>1
<1>7. CASE n # 1
  <2>1. q # <<>> /\ Len(q) = n /\ n - 1 \in Nat \ {0}
    BY <1>1, <1>2, <1>7 DEF n
  <2>2. r \in Seq(HeldType) /\ Len(r) = n - 1 /\ \A j \in 1 .. n - 1 : r[j] = q[j + 1]
    BY <1>1, <2>1 DEF r
  <2> HIDE DEF r
  <2>3. start'.at = "replaying" /\ start'.fresh /\ start'.todo = r /\ start' \in StartType
    <3>1. start' = [start EXCEPT !.at = "replaying", !.todo = r]
      BY <1>3, <1>7
    <3> QED
      BY <1>1, <1>2, <2>2, <3>1 DEF StartType
  <2>4. \A j \in 1 .. n - 1 : /\ r[j].row = (first + 1) + j - 1
                              /\ Sound(r[j].trade) /\ r[j].trade.symbol = rows[r[j].row].symbol
                              /\ r[j].row <= before => r[j].trade = rows[r[j].row]
    <3> SUFFICES ASSUME NEW j \in 1 .. n - 1
                 PROVE  /\ r[j].row = (first + 1) + j - 1
                        /\ Sound(r[j].trade) /\ r[j].trade.symbol = rows[r[j].row].symbol
                        /\ r[j].row <= before => r[j].trade = rows[r[j].row]
      OBVIOUS
    <3>1. j + 1 \in 1 .. n /\ r[j] = q[j + 1] /\ first + (j + 1) - 1 = (first + 1) + j - 1
      BY <1>2, <2>1, <2>2
    <3> QED
      BY <1>4, <3>1
  <2>5. r[1].row = first + 1
    BY <1>2, <2>1, <2>4
  <2>6. replayed' = (IF first + 1 <= before THEN (first + 1) - 1 ELSE before)
    BY <1>1, <1>2, <1>3
  <2>7. DOMAIN surplus' = (before + 1) .. ((first + 1) - 1)
    <3>1. CASE first <= before
      BY <1>1, <1>2, <1>3, <3>1
    <3>2. CASE ~(first <= before)
      BY <1>1, <1>2, <1>3, <3>2
    <3> QED
      BY <3>1, <3>2
  <2>8. first + 1 + (n - 1) - 1 \in DOMAIN rows /\ before <= first + 1 + (n - 1) - 1
    BY <1>2, <1>5
  <2> DEFINE f2 == first + 1
             n2 == n - 1
  <2>9. n2 \in Nat \ {0} /\ n2 = Len(start'.todo) /\ f2 = start'.todo[1].row /\ start'.todo = r
    BY <2>1, <2>2, <2>3, <2>5
  <2>10. /\ n2 \in Nat \ {0} /\ n2 = Len(start'.todo)
         /\ f2 + n2 - 1 \in DOMAIN rows' /\ before' <= f2 + n2 - 1
         /\ \A j \in 1 .. n2 :
               /\ start'.todo[j].row = f2 + j - 1
               /\ Sound(start'.todo[j].trade)
               /\ start'.todo[j].trade.symbol = rows'[start'.todo[j].row].symbol
               /\ start'.todo[j].row <= before' =>
                     start'.todo[j].trade = rows'[start'.todo[j].row]
         /\ replayed' = (IF f2 <= before' THEN f2 - 1 ELSE before')
         /\ DOMAIN surplus' = (before' + 1) .. (f2 - 1)
         /\ start'.at # "selling"
    <3>1. before' = before /\ rows' = rows /\ start'.at # "selling"
      BY <1>3, <2>3
    <3>2. f2 + n2 - 1 \in DOMAIN rows /\ before <= f2 + n2 - 1
      BY <2>8
    <3>3. \A j \in 1 .. n2 : /\ r[j].row = f2 + j - 1
                             /\ Sound(r[j].trade) /\ r[j].trade.symbol = rows[r[j].row].symbol
                             /\ r[j].row <= before => r[j].trade = rows[r[j].row]
      BY <2>4
    <3>4. replayed' = (IF f2 <= before THEN f2 - 1 ELSE before)
      BY <2>6
    <3>5. DOMAIN surplus' = (before + 1) .. (f2 - 1)
      BY <2>7
    <3> HIDE DEF f2, n2
    <3> QED
      BY <2>9, <3>1, <3>2, <3>3, <3>4, <3>5
  <2> HIDE DEF f2, n2
  <2>11. TodoInv(start.todo[1].row, Len(start.todo))'
    BY <2>9, <2>10 DEF TodoInv
  <2> QED
    BY <2>3, <2>11
<1> QED
  BY <1>6, <1>7
-----------------------------------------------------------------------------
(* The steps of a replay.                                                  *)

LEMMA NotHalf ==
    ASSUME start.at # "selling"
    PROVE  HalfCost = 0 /\ \A s : HalfReplayed(s) = 0
  BY DEF HalfCost, HalfReplayed

LEMMA ReplayBuySound ==
    ASSUME RecoveryInv, ReplayBuy
    PROVE  RecoveryInv'
<1>h. PICK h : h = Head(start.todo)
  OBVIOUS
<1>t. PICK t : t = h.trade
  OBVIOUS
<1>0. TypeOK /\ RowInv /\ StartInv /\ AccountInv
  BY DEF RecoveryInv
<1>1. /\ start.at = "replaying" /\ UNCHANGED <<rows, running>>
      /\ ledger' = AfterBuy(ledger, t.symbol, 1, t.entry, t.costs)
      /\ \/ /\ Open(t) /\ RowDone
            /\ mine' = [mine EXCEPT ![t.symbol] = h] \/ mine' = mine
         \/ ~Open(t) /\ mine' = mine /\ start' = [start EXCEPT !.at = "selling"] /\ UNCHANGED history
  BY <1>h, <1>t DEF ReplayBuy, StillOpen, Open
<1>2. /\ h = start.todo[1] /\ h \in HeldType /\ t \in RowType /\ h.row \in DOMAIN rows /\ Sound(t)
      /\ TodoInv(h.row, Len(start.todo)) /\ start.fresh
  BY <1>0, <1>1, <1>h, <1>t, NextRow
<1>3. t.symbol \in Symbols /\ t.entry \in Nat /\ t.costs \in Nat /\ Cost(t) \in Int
  BY <1>2, CostInt DEF RowType
<1>4. ledger \in LedgerType /\ ledger # NoLedger
  BY <1>0, <1>1 DEF StartInv, TypeOK
<1>r. running /\ running'
  BY <1>0, <1>1 DEF StartInv
<1>5. /\ ledger' \in LedgerType /\ ledger' # NoLedger
      /\ ledger'.cash = ledger.cash - (t.entry + t.costs)
      /\ ledger'.holdings[t.symbol].qty = ledger.holdings[t.symbol].qty + 1
      /\ \A x \in Symbols \ {t.symbol} : ledger'.holdings[x].qty = ledger.holdings[x].qty
  <2>1. /\ ledger' \in LedgerType /\ ledger'.cash = ledger.cash - (t.entry + t.costs)
        /\ ledger'.holdings[t.symbol].qty = ledger.holdings[t.symbol].qty + 1
        /\ \A x \in Symbols \ {t.symbol} : ledger'.holdings[x] = ledger.holdings[x]
    BY <1>1, <1>3, <1>4, BuyOne
  <2> QED
    BY <2>1, LedgerIsThere
<1>6. /\ ledger.cash = StartingCash - Balance(rows, surplus, Traded)
      /\ \A x \in Symbols : ledger.holdings[x].qty = Quantity(rows, surplus, Traded, x)
      /\ StartingCash \in Nat /\ Balance(rows, surplus, Traded) \in Int
      /\ \A x : Quantity(rows, surplus, Traded, x) \in Nat
  <2>1. HalfCost = 0 /\ \A x : HalfReplayed(x) = 0
    BY <1>1, NotHalf
  <2>2. Balance(rows, surplus, Traded) \in Int /\ \A x : Quantity(rows, surplus, Traded, x) \in Nat
    BY <1>0, TypesOf
  <2> QED
    BY <1>0, <1>4, <2>1, <2>2, RecoveryAssumption DEF AccountInv
<1>7. CASE Open(t)
  <2>1. RowDone /\ (mine' = [mine EXCEPT ![t.symbol] = h] \/ mine' = mine)
    BY <1>1, <1>7
  <2>2. /\ Balance(rows, surplus, Traded)' = Balance(rows, surplus, Traded) + Cost(t)
        /\ \A s : Quantity(rows, surplus, Traded, s)' = Quantity(rows, surplus, Traded, s) + Unit(t, s)
        /\ before' \in 0 .. Len(rows) /\ replayed' \in 0 .. before'
        /\ DOMAIN surplus' \subseteq (before' + 1) .. Len(rows) /\ IsTable(surplus')
        /\ \A i \in DOMAIN surplus' : Sound(surplus'[i]) /\ surplus'[i].symbol = rows[i].symbol
        /\ Shown(h, rows', surplus', Traded') /\ \A x : Shown(x, rows, surplus, Traded) => Shown(x, rows', surplus', Traded')
    BY <1>0, <1>1, <2>1, <1>h, <1>t, RowDoneBalance
  <2>3. /\ start' \in StartType
        /\ \/ start' = NoStart
           \/ start'.at = "replaying" /\ start'.fresh /\ TodoInv(start.todo[1].row, Len(start.todo))'
    BY <1>0, <1>1, <2>1, RowDoneStart
  <2>4. start'.at # "selling"
    BY <2>3 DEF NoStart
  <2>5. AccountInv'
    <3>1. HalfCost' = 0 /\ \A x : HalfReplayed(x)' = 0
      BY <2>4 DEF HalfCost, HalfReplayed
    <3>2. ledger'.cash = StartingCash - Balance(rows, surplus, Traded)' - HalfCost'
      <4>1. Cost(t) = t.entry + t.costs
        BY <1>2, <1>7, CostInt
      <4> QED
        BY <1>3, <1>5, <1>6, <2>2, <3>1, <4>1
    <3>3. ASSUME NEW x \in Symbols
          PROVE  ledger'.holdings[x].qty = Quantity(rows, surplus, Traded, x)' + HalfReplayed(x)'
      <4>1. Unit(t, x) = IF t.symbol = x THEN 1 ELSE 0
        BY <1>7 DEF Unit
      <4>2. ledger'.holdings[x].qty = ledger.holdings[x].qty + Unit(t, x)
        BY <1>5, <1>6, <4>1
      <4> QED
        BY <1>6, <2>2, <3>1, <4>1, <4>2
    <3> QED
      BY <3>2, <3>3 DEF AccountInv
  <2>6. TypeOK'
    <3>1. mine' \in [Symbols -> HeldType \cup {NoTrade}]
      BY <1>0, <1>2, <2>1 DEF TypeOK
    <3> QED
      BY <1>0, <1>1, <1>5, <2>2, <2>3, <3>1 DEF TypeOK
  <2>7. RowInv'
    <3>1. ASSUME NEW s \in Symbols, mine'[s] # NoTrade
          PROVE  Shown(mine'[s], rows', surplus', Traded') /\ mine'[s].trade.symbol = s /\ Open(mine'[s].trade)
      <4>1. mine'[s] = mine[s] \/ (mine'[s] = h /\ t.symbol = s)
        BY <1>0, <2>1 DEF TypeOK
      <4>2. CASE mine'[s] = mine[s]
        <5>1. Shown(mine[s], rows, surplus, Traded) /\ mine[s].trade.symbol = s /\ Open(mine[s].trade)
          BY <1>0, <3>1, <4>2 DEF RowInv
        <5>2. PICK m : m = mine[s]
          OBVIOUS
        <5>3. Shown(m, rows', surplus', Traded')
          BY <2>2, <5>1, <5>2
        <5> QED
          BY <4>2, <5>1, <5>2, <5>3
      <4>3. CASE mine'[s] = h /\ t.symbol = s
        BY <1>7, <1>t, <2>2, <4>3
      <4> QED
        BY <4>1, <4>2, <4>3
    <3>2. \A i \in DOMAIN rows' : Sound(rows'[i])
      BY <1>0, <1>1 DEF RowInv
    <3> QED
      BY <1>1, <2>2, <3>1, <3>2 DEF RowInv
  <2>8. StartInv'
    BY <1>5, <1>r, <2>3 DEF StartInv, NoStart
  <2> QED
    BY <2>5, <2>6, <2>7, <2>8 DEF RecoveryInv
<1>8. CASE ~Open(t)
  <2>1. mine' = mine /\ start' = [start EXCEPT !.at = "selling"] /\ UNCHANGED <<before, replayed, surplus>>
    BY <1>1, <1>8 DEF history
  <2>2. /\ start' \in StartType /\ start'.at = "selling" /\ start'.fresh /\ start'.todo = start.todo
    BY <1>0, <1>2, <2>1 DEF TypeOK, StartType
  <2>3. TypeOK'
    BY <1>0, <1>1, <1>5, <2>1, <2>2 DEF TypeOK
  <2>4. RowInv'
    BY <1>0, <1>1, <2>1 DEF RowInv, Shown, Traded
  <2>5. StartInv'
    <3>1. TodoInv(h.row, Len(start.todo))'
      <4>1. ~Open(start'.todo[1].trade) /\ start'.todo = start.todo /\ rows' = rows
        BY <1>1, <1>2, <1>8, <1>t, <2>2
      <4> QED
        BY <1>2, <2>1, <4>1 DEF TodoInv
    <3> QED
      BY <1>2, <1>5, <1>r, <2>2, <3>1 DEF StartInv
  <2>6. AccountInv'
    <3>1. HalfCost' = t.entry + t.costs /\ \A x : HalfReplayed(x)' = IF t.symbol = x THEN 1 ELSE 0
      BY <1>h, <1>t, <2>2 DEF HalfCost, HalfReplayed
    <3>2. /\ Balance(rows, surplus, Traded)' = Balance(rows, surplus, Traded)
          /\ \A x : Quantity(rows, surplus, Traded, x)' = Quantity(rows, surplus, Traded, x)
      <4>1. Traded' = Traded /\ rows' = rows /\ surplus' = surplus
        BY <1>1, <2>1 DEF Traded
      <4> QED
        BY <4>1
    <3>3. ledger'.cash = StartingCash - Balance(rows, surplus, Traded)' - HalfCost'
      BY <1>3, <1>5, <1>6, <3>1, <3>2
    <3>4. ASSUME NEW x \in Symbols
          PROVE  ledger'.holdings[x].qty = Quantity(rows, surplus, Traded, x)' + HalfReplayed(x)'
      BY <1>5, <1>6, <3>1, <3>2
    <3> QED
      BY <3>3, <3>4 DEF AccountInv
  <2> QED
    BY <2>3, <2>4, <2>5, <2>6 DEF RecoveryInv
<1> QED
  BY <1>7, <1>8

LEMMA ReplaySellSound ==
    ASSUME RecoveryInv, ReplaySell
    PROVE  RecoveryInv'
<1>h. PICK h : h = Head(start.todo)
  OBVIOUS
<1>t. PICK t : t = h.trade
  OBVIOUS
<1>0. TypeOK /\ RowInv /\ StartInv /\ AccountInv
  BY DEF RecoveryInv
<1>1. /\ start.at = "selling" /\ UNCHANGED <<rows, running, mine>> /\ RowDone
      /\ ledger' = AfterSell(ledger, t.symbol, 1, t.exit, 0) /\ ledger.holdings[t.symbol].qty >= 1
  BY <1>h, <1>t DEF ReplaySell, ReplayExitCosts, CanSell
<1>2. h \in HeldType /\ t \in RowType /\ h.row \in DOMAIN rows /\ ~Open(t)
  BY <1>0, <1>1, <1>h, <1>t, NextRow
<1>3. t.symbol \in Symbols /\ t.entry \in Nat /\ t.costs \in Nat /\ t.exit \in Nat
  BY <1>2 DEF RowType
<1>4. ledger \in LedgerType /\ ledger # NoLedger
  BY <1>0, <1>1 DEF StartInv, TypeOK
<1>r. running /\ running'
  BY <1>0, <1>1 DEF StartInv
<1>a. HalfCost = t.entry + t.costs /\ \A x : HalfReplayed(x) = IF t.symbol = x THEN 1 ELSE 0
  BY <1>1, <1>h, <1>t DEF HalfCost, HalfReplayed
<1>5. /\ ledger' \in LedgerType /\ ledger' # NoLedger
      /\ ledger'.cash = ledger.cash + t.exit - 0
      /\ ledger'.holdings[t.symbol].qty = ledger.holdings[t.symbol].qty - 1
      /\ \A x \in Symbols \ {t.symbol} : ledger'.holdings[x].qty = ledger.holdings[x].qty
  <2>1. /\ ledger' \in LedgerType /\ ledger'.cash = ledger.cash + t.exit - 0
        /\ ledger'.holdings[t.symbol].qty = ledger.holdings[t.symbol].qty - 1
        /\ \A x \in Symbols \ {t.symbol} : ledger'.holdings[x] = ledger.holdings[x]
    <3>1. PICK costs \in Nat : costs = 0
      OBVIOUS
    <3>2. PICK price \in Nat : price = t.exit
      BY <1>3
    <3>3. PICK x \in Symbols : x = t.symbol
      BY <1>3
    <3>4. PICK l \in LedgerType : l = ledger
      BY <1>4
    <3>5. l.holdings[x].qty >= 1 /\ ledger' = AfterSell(l, x, 1, price, costs)
      BY <1>1, <3>1, <3>2, <3>3, <3>4
    <3>6. /\ ledger' \in LedgerType /\ ledger'.cash = l.cash + price - costs
          /\ ledger'.holdings[x].qty = l.holdings[x].qty - 1
          /\ \A y \in Symbols \ {x} : ledger'.holdings[y] = l.holdings[y]
      BY <3>5, SellOne
    <3> QED
      BY <3>1, <3>2, <3>3, <3>4, <3>6
  <2> QED
    BY <2>1, LedgerIsThere
<1>6. /\ ledger.cash = StartingCash - Balance(rows, surplus, Traded) - (t.entry + t.costs)
      /\ \A x \in Symbols :
            ledger.holdings[x].qty = Quantity(rows, surplus, Traded, x) + (IF t.symbol = x THEN 1 ELSE 0)
      /\ StartingCash \in Nat /\ Balance(rows, surplus, Traded) \in Int
      /\ \A x : Quantity(rows, surplus, Traded, x) \in Nat
  <2>1. Balance(rows, surplus, Traded) \in Int /\ \A x : Quantity(rows, surplus, Traded, x) \in Nat
    BY <1>0, TypesOf
  <2> QED
    BY <1>0, <1>4, <1>a, <2>1, RecoveryAssumption DEF AccountInv
<1>7. /\ Balance(rows, surplus, Traded)' = Balance(rows, surplus, Traded) + Cost(t)
      /\ \A s : Quantity(rows, surplus, Traded, s)' = Quantity(rows, surplus, Traded, s) + Unit(t, s)
      /\ before' \in 0 .. Len(rows) /\ replayed' \in 0 .. before'
      /\ DOMAIN surplus' \subseteq (before' + 1) .. Len(rows) /\ IsTable(surplus')
      /\ \A i \in DOMAIN surplus' : Sound(surplus'[i]) /\ surplus'[i].symbol = rows[i].symbol
      /\ Shown(h, rows', surplus', Traded') /\ \A x : Shown(x, rows, surplus, Traded) => Shown(x, rows', surplus', Traded')
  BY <1>0, <1>1, <1>h, <1>t, RowDoneBalance
<1>8. /\ start' \in StartType
      /\ \/ start' = NoStart
         \/ start'.at = "replaying" /\ start'.fresh /\ TodoInv(start.todo[1].row, Len(start.todo))'
  BY <1>0, <1>1, RowDoneStart
<1>9. start'.at # "selling"
  BY <1>8 DEF NoStart
<1>10. AccountInv'
  <2>1. HalfCost' = 0 /\ \A x : HalfReplayed(x)' = 0
    BY <1>9 DEF HalfCost, HalfReplayed
  <2>2. ledger'.cash = StartingCash - Balance(rows, surplus, Traded)' - HalfCost'
    <3>1. Cost(t) = t.entry + t.costs - t.exit
      BY DEF Cost
    <3> QED
      BY <1>3, <1>5, <1>6, <1>7, <2>1, <3>1
  <2>3. ASSUME NEW x \in Symbols
        PROVE  ledger'.holdings[x].qty = Quantity(rows, surplus, Traded, x)' + HalfReplayed(x)'
    <3>1. Unit(t, x) = 0
      BY <1>2 DEF Unit
    <3> QED
      BY <1>5, <1>6, <1>7, <2>1, <3>1
  <2> QED
    BY <2>2, <2>3 DEF AccountInv
<1>11. TypeOK'
  BY <1>0, <1>1, <1>5, <1>7, <1>8 DEF TypeOK
<1>12. RowInv'
  <2>1. ASSUME NEW s \in Symbols, mine'[s] # NoTrade
        PROVE  Shown(mine'[s], rows', surplus', Traded') /\ mine'[s].trade.symbol = s /\ Open(mine'[s].trade)
    <3>1. PICK m : m = mine[s]
      OBVIOUS
    <3>2. m = mine'[s] /\ Shown(m, rows, surplus, Traded) /\ m.trade.symbol = s /\ Open(m.trade)
      BY <1>0, <1>1, <2>1, <3>1 DEF RowInv
    <3>3. Shown(m, rows', surplus', Traded')
      BY <1>7, <3>2
    <3> QED
      BY <3>2, <3>3
  <2> QED
    BY <1>0, <1>1, <1>7, <2>1 DEF RowInv
<1>13. StartInv'
  BY <1>5, <1>r, <1>8 DEF StartInv, NoStart
<1> QED
  BY <1>10, <1>11, <1>12, <1>13 DEF RecoveryInv
-----------------------------------------------------------------------------
(* The steps of a candle, which may come in the middle of a start.         *)

LEMMA StartKept ==
    ASSUME TypeOK, StartInv, running, UNCHANGED <<start, running, before, replayed>>, ledger' # NoLedger,
           DOMAIN surplus' = DOMAIN surplus,
           NEW size \in Nat, DOMAIN rows' = 1 .. size, Len(rows) <= size,
           \A i \in DOMAIN rows : rows'[i].symbol = rows[i].symbol,
           \A i \in DOMAIN rows : i <= before /\ i > replayed => rows'[i] = rows[i]
    PROVE  StartInv'
<1> DEFINE first == start.todo[1].row
           n == Len(start.todo)
           q == start.todo
<1>1. /\ DOMAIN rows = 1 .. Len(rows) /\ Len(rows) \in Nat /\ before \in Nat /\ replayed \in Nat
      /\ q \in Seq(HeldType)
  BY TypesOf
<1>2. ASSUME start.at \in {"replaying", "selling"}
      PROVE  TodoInv(start.todo[1].row, Len(start.todo))'
  <2>1. TodoInv(first, n)
    BY <1>2 DEF StartInv
  <2>2. /\ n \in Nat \ {0} /\ n = Len(q) /\ first + n - 1 \in DOMAIN rows /\ before <= first + n - 1
        /\ replayed = (IF first <= before THEN first - 1 ELSE before)
        /\ DOMAIN surplus = (before + 1) .. (first - 1)
        /\ (start.at = "selling" => ~Open(q[1].trade))
    BY <2>1 DEF TodoInv
  <2>3. \A j \in 1 .. n : /\ q[j].row = first + j - 1
                          /\ Sound(q[j].trade) /\ q[j].trade.symbol = rows[q[j].row].symbol
                          /\ q[j].row <= before => q[j].trade = rows[q[j].row]
    BY <2>1 DEF TodoInv
  <2>4. first \in Nat \ {0}
    <3>1. q[1] \in HeldType
      BY <1>1, <2>2
    <3> QED
      BY <3>1 DEF HeldType
  <2>5. first' = first /\ n' = n /\ q' = q /\ start'.at = start.at
    OBVIOUS
  <2> HIDE DEF first, n, q
  <2>6. first + n - 1 \in DOMAIN rows'
    BY <1>1, <2>2, <2>4
  <2>7. ASSUME NEW j \in 1 .. n
        PROVE  /\ q[j].trade.symbol = rows'[q[j].row].symbol
               /\ q[j].row <= before => q[j].trade = rows'[q[j].row]
    <3>1. first + j - 1 \in DOMAIN rows
      BY <1>1, <2>2, <2>4
    <3>2. first + j - 1 <= before => first + j - 1 > replayed
      BY <1>1, <2>2, <2>4
    <3>3. PICK i \in DOMAIN rows : i = q[j].row
      BY <2>3, <3>1
    <3>4. rows'[i].symbol = rows[i].symbol /\ (i <= before => rows'[i] = rows[i])
      BY <2>3, <3>2, <3>3
    <3> QED
      BY <2>3, <3>3, <3>4
  <2> QED
    BY <2>2, <2>3, <2>5, <2>6, <2>7 DEF TodoInv, first, n, q
<1> QED
  BY <1>2 DEF StartInv

LEMMA HalfType ==
    ASSUME TypeOK, RowInv, StartInv
    PROVE  HalfCost \in Int /\ \A x : HalfReplayed(x) \in Nat
<1>1. CASE start.at = "selling"
  <2>1. PICK h : h = Head(start.todo)
    OBVIOUS
  <2>2. h.trade \in RowType
    BY <1>1, <2>1, NextRow
  <2>3. h.trade.entry \in Nat /\ h.trade.costs \in Nat
    BY <2>2 DEF RowType
  <2> QED
    BY <1>1, <2>1, <2>3 DEF HalfCost, HalfReplayed
<1>2. CASE start.at # "selling"
  BY <1>2 DEF HalfCost, HalfReplayed
<1> QED
  BY <1>1, <1>2

LEMMA EnterSound ==
    ASSUME RecoveryInv, NEW s \in Symbols, NEW p \in Prices, Enter(s, p)
    PROVE  RecoveryInv'
<1>0. TypeOK /\ RowInv /\ StartInv /\ AccountInv
  BY DEF RecoveryInv
<1>t. PICK t : t = NewTrade(s, p)
  OBVIOUS
<1>1. /\ running /\ UNCHANGED <<running, start, before, replayed, surplus>>
      /\ ledger' = AfterBuy(ledger, s, 1, p, Fee)
      /\ rows' = Append(rows, t)
      /\ mine' = [mine EXCEPT ![s] = [row |-> Len(rows) + 1, trade |-> t]]
  BY <1>t DEF Enter, history
<1>2. ledger \in LedgerType /\ ledger # NoLedger
  BY <1>0, <1>1 DEF StartInv, TypeOK
<1>3. p \in Nat /\ Fee \in Nat /\ StartingCash \in Nat
  BY RecoveryAssumption
<1>4. /\ t \in RowType /\ t.symbol = s /\ Open(t) /\ Sound(t) /\ Cost(t) = p + Fee
      /\ \A x : Unit(t, x) = IF x = s THEN 1 ELSE 0
  BY <1>3, <1>t DEF NewTrade, RowType, Open, Sound, Cost, Unit
<1>5. /\ ledger' \in LedgerType /\ ledger'.cash = ledger.cash - (p + Fee)
      /\ ledger'.holdings[s].qty = ledger.holdings[s].qty + 1
      /\ \A x \in Symbols \ {s} : ledger'.holdings[x] = ledger.holdings[x]
  <2>1. PICK l \in LedgerType : l = ledger
    BY <1>2
  <2>2. PICK price \in Nat, costs \in Nat : price = p /\ costs = Fee
    BY <1>3
  <2>3. ledger' = AfterBuy(l, s, 1, price, costs)
    BY <1>1, <2>1, <2>2
  <2>4. /\ ledger' \in LedgerType /\ ledger'.cash = l.cash - (price + costs)
        /\ ledger'.holdings[s].qty = l.holdings[s].qty + 1
        /\ \A x \in Symbols \ {s} : ledger'.holdings[x] = l.holdings[x]
    <3>1. /\ AfterBuy(l, s, 1, price, costs) \in LedgerType
          /\ AfterBuy(l, s, 1, price, costs).cash = l.cash - (price + costs)
          /\ AfterBuy(l, s, 1, price, costs).holdings[s].qty = l.holdings[s].qty + 1
          /\ \A x \in Symbols \ {s} : AfterBuy(l, s, 1, price, costs).holdings[x] = l.holdings[x]
      BY ONLY BuyOne
    <3> QED
      BY <2>3, <3>1
  <2> QED
    BY <2>1, <2>2, <2>4
<1>6. ledger' # NoLedger
  BY <1>5, LedgerIsThere
<1>7. /\ rows \in Seq(RowType) /\ DOMAIN rows = 1 .. Len(rows) /\ Len(rows) \in Nat
      /\ before \in Nat /\ replayed \in Nat /\ before <= Len(rows) /\ replayed <= before
  BY <1>0, TypesOf
<1>b. /\ IsTable(rows) /\ IsTable(surplus) /\ Traded \subseteq DOMAIN rows
      /\ DOMAIN surplus \subseteq Traded
  BY <1>0, TypesOf
<1> DEFINE new == Len(rows) + 1
<1>8. /\ rows' \in Seq(RowType) /\ DOMAIN rows' = 1 .. new /\ Len(rows') = new /\ rows'[new] = t
      /\ \A i \in DOMAIN rows : rows'[i] = rows[i]
  BY <1>1, <1>4, <1>7
<1>9. new \in Nat \ {0} /\ new \notin DOMAIN rows /\ new \notin Traded /\ Traded' = Traded \cup {new}
  BY <1>1, <1>7, <1>8 DEF Traded
<1>10. IsTable(rows') /\ new \in DOMAIN rows' /\ Traded \subseteq DOMAIN rows'
  BY <1>7, <1>8, <1>b, RowsAreTable
<1> HIDE DEF new
<1>11. /\ Balance(rows, surplus, Traded)' = Balance(rows, surplus, Traded) + Cost(t)
       /\ \A x : Quantity(rows, surplus, Traded, x)' = Quantity(rows, surplus, Traded, x) + Unit(t, x)
  <2>1. PICK table : table = rows'
    OBVIOUS
  <2>2. PICK beside : beside = surplus
    OBVIOUS
  <2>3. PICK done : done = Traded
    OBVIOUS
  <2>4. /\ IsTable(table) /\ IsTable(beside) /\ done \subseteq DOMAIN table /\ done \subseteq DOMAIN rows
        /\ new \in DOMAIN table /\ new \notin done /\ IsTable(rows)
    BY <1>b, <1>9, <1>10, <2>1, <2>2, <2>3
  <2>5. \A i \in done : rows[i] = table[i]
    BY <1>8, <2>1, <2>4
  <2>6. /\ Balance(table, beside, done) = Balance(rows, beside, done)
        /\ \A x : Quantity(table, beside, done, x) = Quantity(rows, beside, done, x)
    BY ONLY <2>4, <2>5, BalanceEqual
  <2>7. /\ Balance(table, beside, done \cup {new}) = Balance(table, beside, done) + Cost(table[new])
        /\ \A x : Quantity(table, beside, done \cup {new}, x) =
                     Quantity(table, beside, done, x) + Unit(table[new], x)
    BY ONLY <2>4, BalanceRow
  <2>8. Traded' = done \cup {new} /\ rows' = table /\ surplus' = beside /\ surplus = beside /\ Traded = done /\ table[new] = t
    BY <1>1, <1>8, <1>9, <2>1, <2>2, <2>3
  <2> QED
    BY <2>6, <2>7, <2>8
<1>12. AccountInv'
  <2>1. HalfCost' = HalfCost /\ \A x : HalfReplayed(x)' = HalfReplayed(x)
    BY <1>1 DEF HalfCost, HalfReplayed
  <2>2. /\ ledger.cash = StartingCash - Balance(rows, surplus, Traded) - HalfCost
        /\ \A x \in Symbols : ledger.holdings[x].qty = Quantity(rows, surplus, Traded, x) + HalfReplayed(x)
        /\ Balance(rows, surplus, Traded) \in Int /\ \A x : Quantity(rows, surplus, Traded, x) \in Nat
        /\ \A x : HalfReplayed(x) \in Nat
    BY <1>0, <1>2, TypesOf DEF AccountInv, HalfReplayed
  <2>h. HalfCost \in Int
    BY <1>0, HalfType
  <2>3. ledger'.cash = StartingCash - Balance(rows, surplus, Traded)' - HalfCost'
    BY <1>3, <1>4, <1>5, <1>11, <2>1, <2>2, <2>h
  <2>4. ASSUME NEW x \in Symbols
        PROVE  ledger'.holdings[x].qty = Quantity(rows, surplus, Traded, x)' + HalfReplayed(x)'
    <3>1. ledger'.holdings[x].qty = ledger.holdings[x].qty + Unit(t, x)
      <4>1. ledger.holdings[x].qty \in Nat
        BY <1>2 DEF LedgerType
      <4> QED
        BY <1>4, <1>5, <4>1
    <3>2. Unit(t, x) \in Nat
      BY DEF Unit
    <3> QED
      BY <1>11, <2>1, <2>2, <3>1, <3>2
  <2> QED
    BY <2>3, <2>4 DEF AccountInv
<1>13. TypeOK'
  <2>1. mine' \in [Symbols -> HeldType \cup {NoTrade}]
    <3>1. [row |-> new, trade |-> t] \in HeldType
      BY <1>4, <1>9 DEF HeldType
    <3> QED
      BY <1>0, <1>1, <3>1 DEF TypeOK, new
  <2>2. before' \in 0 .. Len(rows') /\ replayed' \in 0 .. before' /\ DOMAIN surplus' \subseteq (before' + 1) .. Len(rows')
    BY <1>0, <1>1, <1>7, <1>8 DEF TypeOK, new
  <2> QED
    BY <1>0, <1>1, <1>5, <1>8, <1>b, <2>1, <2>2 DEF TypeOK
<1>14. RowInv'
  <2>1. \A i \in DOMAIN rows' : Sound(rows'[i])
    <3>1. \A i \in DOMAIN rows' : i = new \/ i \in DOMAIN rows
      BY <1>7, <1>8 DEF new
    <3> QED
      BY <1>0, <1>4, <1>8, <3>1 DEF RowInv
  <2>2. \A i \in DOMAIN surplus' : Sound(surplus'[i]) /\ surplus'[i].symbol = rows'[i].symbol
    BY <1>0, <1>1, <1>8, <1>b DEF RowInv
  <2>3. ASSUME NEW x \in Symbols, mine'[x] # NoTrade
        PROVE  /\ Shown(mine'[x], rows', surplus', Traded')
               /\ mine'[x].trade.symbol = x /\ Open(mine'[x].trade)
    <3>1. CASE x = s
      <4>1. mine'[x] = [row |-> new, trade |-> t]
        BY <1>0, <1>1, <3>1 DEF TypeOK, new
      <4>2. mine'[x].row = new /\ mine'[x].trade = t
        BY <4>1
      <4> QED
        BY <1>4, <1>8, <1>9, <3>1, <4>2 DEF Shown
    <3>2. CASE x # s
      <4>1. PICK m : m = mine[x]
        OBVIOUS
      <4>2. mine'[x] = m
        BY <1>0, <1>1, <3>2, <4>1 DEF TypeOK
      <4>3. Shown(m, rows, surplus, Traded) /\ m.trade.symbol = x /\ Open(m.trade)
        BY <1>0, <2>3, <4>1, <4>2 DEF RowInv
      <4>4. Shown(m, rows', surplus', Traded')
        BY <1>1, <1>8, <1>9, <1>b, <4>3 DEF Shown
      <4> QED
        BY <4>2, <4>3, <4>4
    <3> QED
      BY <3>1, <3>2
  <2> QED
    BY <2>1, <2>2, <2>3 DEF RowInv
<1>15. StartInv'
  <2>1. new \in Nat /\ Len(rows) <= new
    BY <1>7 DEF new
  <2> QED
    BY <1>0, <1>1, <1>6, <1>8, <2>1, StartKept
<1> QED
  BY <1>12, <1>13, <1>14, <1>15 DEF RecoveryInv

(* The trade of mine[s] is t from now on.                                  *)
LEMMA UpsertSound ==
    ASSUME RecoveryInv, running, UNCHANGED <<running, start>>,
           NEW s \in Symbols, mine[s] # NoTrade,
           NEW old, old = mine[s].trade, NEW i, i = mine[s].row,
           NEW t \in RowType, t.symbol = s, Sound(t), Upsert(mine[s], t),
           mine' \in [Symbols -> HeldType \cup {NoTrade}],
           \A x \in Symbols \ {s} : mine'[x] = mine[x],
           mine'[s] # NoTrade => mine'[s].row = i /\ mine'[s].trade = t /\ Open(t),
           ledger' \in LedgerType, ledger'.cash = ledger.cash + Cost(old) - Cost(t),
           \A x \in Symbols : ledger'.holdings[x].qty = ledger.holdings[x].qty - Unit(old, x) + Unit(t, x)
    PROVE  RecoveryInv'
<1>0. TypeOK /\ RowInv /\ StartInv /\ AccountInv
  BY DEF RecoveryInv
<1>1. /\ rows' = [rows EXCEPT ![i] = t] /\ UNCHANGED <<before, replayed>>
      /\ surplus' = [j \in DOMAIN surplus |-> IF j = i /\ surplus[j] = old THEN rows[j] ELSE surplus[j]]
  BY DEF Upsert
<1>2. ledger \in LedgerType /\ ledger # NoLedger /\ ledger' # NoLedger
  BY <1>0, LedgerIsThere DEF StartInv, TypeOK
<1>3. /\ rows \in Seq(RowType) /\ DOMAIN rows = 1 .. Len(rows) /\ Len(rows) \in Nat
      /\ before \in Nat /\ replayed \in Nat /\ before <= Len(rows) /\ replayed <= before
  BY <1>0, TypesOf
<1>b. /\ IsTable(rows) /\ IsTable(surplus) /\ Traded \subseteq DOMAIN rows
      /\ DOMAIN surplus \subseteq Traded
  BY <1>0, TypesOf
<1>4. /\ i \in Traded /\ old.symbol = s /\ Open(old) /\ mine[s] \in HeldType /\ old \in RowType
      /\ rows[i] = old \/ (i \in DOMAIN surplus /\ surplus[i] = old)
      /\ rows[i].symbol = s
  <2>1. Shown(mine[s], rows, surplus, Traded) /\ mine[s].trade.symbol = s /\ Open(mine[s].trade)
    BY <1>0 DEF RowInv
  <2>2. mine[s] \in HeldType
    BY <1>0 DEF TypeOK
  <2>3. old \in RowType
    BY <2>2 DEF HeldType
  <2>4. i \in Traded /\ (rows[i] = old \/ (i \in DOMAIN surplus /\ surplus[i] = old))
    BY <2>1 DEF Shown
  <2>5. rows[i].symbol = s
    BY <1>0, <2>1, <2>4 DEF RowInv
  <2> QED
    BY <2>1, <2>2, <2>3, <2>4, <2>5
<1>5. /\ rows' \in Seq(RowType) /\ DOMAIN rows' = DOMAIN rows /\ Len(rows') = Len(rows) /\ rows'[i] = t
      /\ \A j \in DOMAIN rows \ {i} : rows'[j] = rows[j]
      /\ i \in DOMAIN rows
  <2>1. i \in DOMAIN rows
    BY <1>4, <1>b
  <2> QED
    BY <1>1, <1>3, <2>1
<1>6. Traded' = Traded /\ DOMAIN surplus' = DOMAIN surplus
  BY <1>1, <1>5 DEF Traded
<1>7. /\ IsTable(rows') /\ IsTable(surplus')
      /\ Balance(rows, surplus, Traded)' = Balance(rows, surplus, Traded) - Cost(old) + Cost(t)
      /\ \A x : Quantity(rows, surplus, Traded, x)' =
                   Quantity(rows, surplus, Traded, x) - Unit(old, x) + Unit(t, x)
  <2>1. PICK f, g, done : f = rows /\ g = surplus /\ done = Traded
    OBVIOUS
  <2>2. PICK f2, g2 : f2 = rows' /\ g2 = surplus'
    OBVIOUS
  <2>3. /\ IsTable(f) /\ IsTable(g) /\ done \subseteq DOMAIN f /\ i \in done /\ old \in RowType /\ t \in RowType
        /\ f[i] = old \/ (i \in DOMAIN g /\ g[i] = old)
        /\ DOMAIN f2 = DOMAIN f /\ f2[i] = t
    BY <1>4, <1>5, <1>b, <2>1, <2>2
  <2>4. \A j \in DOMAIN f \ {i} : f2[j] = f[j]
    BY <1>5, <2>1, <2>2
  <2>5. g2 = [j \in DOMAIN g |-> IF j = i /\ g[j] = old THEN f[j] ELSE g[j]]
    BY <1>1, <2>1, <2>2
  <2>6. /\ IsTable(f2) /\ IsTable(g2)
        /\ Balance(f2, g2, done) = Balance(f, g, done) - Cost(old) + Cost(t)
        /\ \A x : Quantity(f2, g2, done, x) = Quantity(f, g, done, x) - Unit(old, x) + Unit(t, x)
    BY ONLY <2>3, <2>4, <2>5, BalanceChange
  <2>7. rows' = f2 /\ surplus' = g2 /\ Traded' = done
    BY <1>6, <2>1, <2>2
  <2> QED
    BY <2>1, <2>6, <2>7
<1>8. AccountInv'
  <2>1. HalfCost' = HalfCost /\ \A x : HalfReplayed(x)' = HalfReplayed(x)
    BY DEF HalfCost, HalfReplayed
  <2>2. /\ ledger.cash = StartingCash - Balance(rows, surplus, Traded) - HalfCost
        /\ \A x \in Symbols : ledger.holdings[x].qty = Quantity(rows, surplus, Traded, x) + HalfReplayed(x)
    BY <1>0, <1>2 DEF AccountInv
  <2>3. /\ Balance(rows, surplus, Traded) \in Int /\ \A x : Quantity(rows, surplus, Traded, x) \in Nat
        /\ HalfCost \in Int /\ \A x : HalfReplayed(x) \in Nat
        /\ \A x : Unit(old, x) \in Nat /\ Unit(t, x) \in Nat
        /\ StartingCash \in Nat /\ Cost(old) \in Int /\ Cost(t) \in Int
    BY <1>0, <1>4, TypesOf, HalfType, CostInt, RecoveryAssumption DEF Unit
  <2>4. ledger'.cash = StartingCash - Balance(rows, surplus, Traded)' - HalfCost'
    BY <1>7, <2>1, <2>2, <2>3
  <2>5. ASSUME NEW x \in Symbols
        PROVE  ledger'.holdings[x].qty = Quantity(rows, surplus, Traded, x)' + HalfReplayed(x)'
    BY <1>7, <2>1, <2>2, <2>3
  <2> QED
    BY <2>4, <2>5 DEF AccountInv
<1>9. TypeOK'
  BY <1>0, <1>1, <1>5, <1>6, <1>7 DEF TypeOK
<1>10. RowInv'
  <2>1. \A j \in DOMAIN rows' : Sound(rows'[j])
    BY <1>0, <1>5 DEF RowInv
  <2>2. \A j \in DOMAIN surplus' : Sound(surplus'[j]) /\ surplus'[j].symbol = rows'[j].symbol
    <3> SUFFICES ASSUME NEW j \in DOMAIN surplus PROVE Sound(surplus'[j]) /\ surplus'[j].symbol = rows'[j].symbol
      BY <1>6
    <3>1. /\ j \in DOMAIN rows /\ Sound(rows[j]) /\ Sound(surplus[j]) /\ surplus[j].symbol = rows[j].symbol
      BY <1>0, <1>b DEF RowInv
    <3>2. surplus'[j] = rows[j] \/ surplus'[j] = surplus[j]
      BY <1>1
    <3>3. rows'[j].symbol = rows[j].symbol
      BY <1>4, <1>5, <3>1
    <3> QED
      BY <3>1, <3>2, <3>3
  <2>3. ASSUME NEW x \in Symbols, mine'[x] # NoTrade
        PROVE  /\ Shown(mine'[x], rows', surplus', Traded')
               /\ mine'[x].trade.symbol = x /\ Open(mine'[x].trade)
    <3>1. CASE x = s
      BY <1>4, <1>5, <1>6, <2>3, <3>1 DEF Shown
    <3>2. CASE x # s
      <4>1. PICK m : m = mine[x]
        OBVIOUS
      <4>2. mine'[x] = m
        BY <3>2, <4>1
      <4>3. Shown(m, rows, surplus, Traded) /\ m.trade.symbol = x /\ Open(m.trade)
        BY <1>0, <2>3, <4>1, <4>2 DEF RowInv
      <4>4. m.row # i
        <5>1. rows[m.row].symbol = x
          BY <1>0, <4>3 DEF Shown, RowInv
        <5> QED
          BY <1>4, <3>2, <5>1
      <4>5. Shown(m, rows', surplus', Traded')
        BY <1>1, <1>5, <1>6, <1>b, <4>3, <4>4 DEF Shown
      <4> QED
        BY <4>2, <4>3, <4>5
    <3> QED
      BY <3>1, <3>2
  <2> QED
    BY <2>1, <2>2, <2>3 DEF RowInv
<1>11. StartInv'
  <2>1. \A j \in DOMAIN rows : rows'[j].symbol = rows[j].symbol
    BY <1>4, <1>5
  <2>2. \A j \in DOMAIN rows : j <= before /\ j > replayed => rows'[j] = rows[j]
    <3>1. i <= before => i <= replayed
      BY <1>3, <1>4 DEF Traded
    <3>2. i \in Nat
      BY <1>3, <1>5
    <3> QED
      BY <1>3, <1>5, <3>1, <3>2
  <2> QED
    BY <1>0, <1>1, <1>2, <1>3, <1>5, <1>6, <2>1, <2>2, StartKept
<1> QED
  BY <1>8, <1>9, <1>10, <1>11 DEF RecoveryInv

LEMMA ExitSound ==
    ASSUME RecoveryInv, NEW s \in Symbols, NEW p \in Prices, Exit(s, p)
    PROVE  RecoveryInv'
<1>0. TypeOK /\ RowInv /\ StartInv
  BY DEF RecoveryInv
<1>1. PICK old : old = mine[s].trade
  OBVIOUS
<1>2. PICK i : i = mine[s].row
  OBVIOUS
<1>3. PICK t : t = [old EXCEPT !.state = "CLOSED", !.exit = p, !.costs = old.costs + Fee]
  OBVIOUS
<1>4. /\ running /\ UNCHANGED <<running, start>> /\ mine[s] # NoTrade
      /\ ledger.holdings[s].qty >= 1 /\ ledger' = AfterSell(ledger, s, 1, p, Fee)
      /\ Upsert(mine[s], t)
      /\ mine' = [mine EXCEPT ![s] = NoTrade]
  BY <1>1, <1>3 DEF Exit, CanSell
<1>5. old \in RowType /\ old.symbol = s /\ Open(old) /\ Sound(old)
  <2>1. mine[s] \in HeldType
    BY <1>0, <1>4 DEF TypeOK
  <2>2. mine[s].trade.symbol = s /\ Open(mine[s].trade) /\ Shown(mine[s], rows, surplus, Traded)
    BY <1>0, <1>4 DEF RowInv
  <2>3. i \in DOMAIN rows /\ (rows[i] = old \/ (i \in DOMAIN surplus /\ surplus[i] = old))
    BY <1>0, <1>1, <1>2, <2>2, TypesOf DEF Shown
  <2>4. Sound(old)
    BY <1>0, <2>3 DEF RowInv
  <2> QED
    BY <1>1, <2>1, <2>2, <2>4 DEF HeldType
<1>6. p \in Nat /\ Fee \in Nat /\ old.entry \in Nat /\ old.costs \in Nat
  BY <1>5, RecoveryAssumption DEF RowType
<1>7. /\ t \in RowType /\ t.symbol = s /\ t.state = "CLOSED" /\ t.exit = p
      /\ t.entry = old.entry /\ t.costs = old.costs + Fee
  <2>1. PICK more \in Nat : more = old.costs + Fee
    BY <1>6
  <2>2. t = [old EXCEPT !.state = "CLOSED", !.exit = p, !.costs = more]
    BY <1>3, <2>1
  <2>3. t \in RowType
    BY <1>5, <1>6, <2>2 DEF RowType
  <2>4. /\ t.symbol = old.symbol /\ t.state = "CLOSED" /\ t.exit = p
        /\ t.entry = old.entry /\ t.costs = more
    BY <1>5, <2>2 DEF RowType
  <2> QED
    BY <1>5, <2>1, <2>3, <2>4
<1>8. ~Open(t) /\ Sound(t) /\ \A x : Unit(t, x) = 0
  BY <1>7 DEF Open, Sound, Unit
<1>9. \A x : Unit(old, x) = IF x = s THEN 1 ELSE 0
  BY <1>5 DEF Unit
<1>10. Cost(old) = old.entry + old.costs /\ Cost(t) = old.entry + (old.costs + Fee) - p
  BY <1>5, <1>7, CostInt DEF Cost
<1>11. ledger \in LedgerType
  BY <1>0, <1>4 DEF StartInv, TypeOK
<1>12. /\ ledger' \in LedgerType /\ ledger'.cash = ledger.cash + p - Fee
       /\ ledger'.holdings[s].qty = ledger.holdings[s].qty - 1
       /\ \A x \in Symbols \ {s} : ledger'.holdings[x] = ledger.holdings[x]
  <2>1. PICK l \in LedgerType : l = ledger
    BY <1>11
  <2>2. PICK price \in Nat, costs \in Nat : price = p /\ costs = Fee
    BY <1>6
  <2>3. ledger' = AfterSell(l, s, 1, price, costs) /\ l.holdings[s].qty >= 1
    BY <1>4, <2>1, <2>2
  <2>4. /\ AfterSell(l, s, 1, price, costs) \in LedgerType
        /\ AfterSell(l, s, 1, price, costs).cash = l.cash + price - costs
        /\ AfterSell(l, s, 1, price, costs).holdings[s].qty = l.holdings[s].qty - 1
        /\ \A x \in Symbols \ {s} : AfterSell(l, s, 1, price, costs).holdings[x] = l.holdings[x]
    BY ONLY <2>3, SellOne
  <2> QED
    BY <2>1, <2>2, <2>3, <2>4
<1>13. ledger.cash \in Int /\ \A x \in Symbols : ledger.holdings[x].qty \in Nat
  BY <1>11 DEF LedgerType
<1>14. ledger'.cash = ledger.cash + Cost(old) - Cost(t)
  BY <1>6, <1>10, <1>12, <1>13
<1>15. \A x \in Symbols : ledger'.holdings[x].qty = ledger.holdings[x].qty - Unit(old, x) + Unit(t, x)
  BY <1>8, <1>9, <1>12, <1>13
<1>16. /\ mine' \in [Symbols -> HeldType \cup {NoTrade}] /\ mine'[s] = NoTrade
       /\ \A x \in Symbols \ {s} : mine'[x] = mine[x]
  BY <1>0, <1>4 DEF TypeOK
<1> QED
  BY <1>1, <1>2, <1>4, <1>7, <1>8, <1>12, <1>14, <1>15, <1>16, UpsertSound

(* An expired trade is still held.                                         *)
LEMMA ExpireSound ==
    ASSUME RecoveryInv, NEW s \in Symbols, Expire(s)
    PROVE  RecoveryInv'
<1>0. TypeOK /\ RowInv /\ StartInv
  BY DEF RecoveryInv
<1>1. PICK old : old = mine[s].trade
  OBVIOUS
<1>2. PICK i : i = mine[s].row
  OBVIOUS
<1>3. PICK t : t = [old EXCEPT !.state = "EXPIRED"]
  OBVIOUS
<1>4. /\ running /\ UNCHANGED <<running, start, ledger>> /\ mine[s] # NoTrade
      /\ Upsert(mine[s], t)
      /\ mine' = [mine EXCEPT ![s] = [row |-> i, trade |-> t]]
  BY <1>1, <1>2, <1>3 DEF Expire
<1>5. old \in RowType /\ old.symbol = s /\ Open(old) /\ Sound(old) /\ i \in Nat \ {0}
  <2>1. mine[s] \in HeldType
    BY <1>0, <1>4 DEF TypeOK
  <2>2. mine[s].trade.symbol = s /\ Open(mine[s].trade) /\ Shown(mine[s], rows, surplus, Traded)
    BY <1>0, <1>4 DEF RowInv
  <2>3. i \in DOMAIN rows /\ (rows[i] = old \/ (i \in DOMAIN surplus /\ surplus[i] = old))
    BY <1>0, <1>1, <1>2, <2>2, TypesOf DEF Shown
  <2>4. Sound(old)
    BY <1>0, <2>3 DEF RowInv
  <2> QED
    BY <1>1, <1>2, <2>1, <2>2, <2>4 DEF HeldType
<1>6. /\ t \in RowType /\ t.symbol = s /\ Open(t) /\ Sound(t)
      /\ t.entry = old.entry /\ t.costs = old.costs /\ t.exit = old.exit
  <2>1. t \in RowType
    BY <1>3, <1>5 DEF RowType
  <2>2. /\ t.symbol = old.symbol /\ t.state = "EXPIRED" /\ t.exit = old.exit
        /\ t.entry = old.entry /\ t.costs = old.costs
    BY <1>3, <1>5 DEF RowType
  <2> QED
    BY <1>5, <2>1, <2>2 DEF Open, Sound
<1>7. Cost(t) = Cost(old) /\ Cost(t) \in Int /\ \A x : Unit(t, x) = Unit(old, x) /\ Unit(t, x) \in Nat
  BY <1>5, <1>6, CostInt DEF Cost, Unit
<1>8. ledger \in LedgerType
  BY <1>0, <1>4 DEF StartInv, TypeOK
<1>9. /\ ledger' \in LedgerType /\ ledger'.cash = ledger.cash + Cost(old) - Cost(t)
      /\ \A x \in Symbols : ledger'.holdings[x].qty = ledger.holdings[x].qty - Unit(old, x) + Unit(t, x)
  <2>1. ledger.cash \in Int /\ \A x \in Symbols : ledger.holdings[x].qty \in Nat
    BY <1>8 DEF LedgerType
  <2> QED
    BY <1>4, <1>7, <1>8, <2>1
<1>10. [row |-> i, trade |-> t] \in HeldType
  BY <1>5, <1>6 DEF HeldType
<1>11. /\ mine' \in [Symbols -> HeldType \cup {NoTrade}]
       /\ mine'[s].row = i /\ mine'[s].trade = t
       /\ \A x \in Symbols \ {s} : mine'[x] = mine[x]
  BY <1>0, <1>4, <1>10 DEF TypeOK
<1> QED
  BY <1>1, <1>2, <1>4, <1>6, <1>9, <1>11, UpsertSound
-----------------------------------------------------------------------------
(* The other steps.                                                        *)

LEMMA NothingType ==
    /\ NoStart \in StartType /\ NoStart.at = "idle"
    /\ NoTrades \in [Symbols -> HeldType \cup {NoTrade}] /\ \A s \in Symbols : NoTrades[s] = NoTrade
    /\ Nothing = <<>> /\ DOMAIN Nothing = {} /\ IsTable(Nothing)
<1>1. <<>> \in Seq(HeldType)
  OBVIOUS
<1>2. NoStart \in StartType /\ NoStart.at = "idle"
  BY <1>1 DEF NoStart, StartType
<1>3. NoTrades \in [Symbols -> HeldType \cup {NoTrade}] /\ \A s \in Symbols : NoTrades[s] = NoTrade
  BY DEF NoTrades
<1>4. Nothing = <<>> /\ DOMAIN Nothing = {}
  BY DEF Nothing
<1> QED
  BY <1>2, <1>3, <1>4, FS_EmptySet DEF IsTable

(* A step that trades nothing and leaves the books alone.                  *)
LEMMA QuietStep ==
    ASSUME RecoveryInv, UNCHANGED <<rows, ledger, history>>, start' \in StartType, running' \in BOOLEAN,
           start.at # "selling", start'.at # "selling",
           mine' = mine \/ mine' = NoTrades
    PROVE  TypeOK' /\ RowInv' /\ AccountInv'
<1>0. TypeOK /\ RowInv /\ AccountInv
  BY DEF RecoveryInv
<1>1. UNCHANGED <<rows, ledger, before, replayed, surplus>>
  BY DEF history
<1>2. TypeOK'
  BY <1>0, <1>1, NothingType DEF TypeOK
<1>3. RowInv'
  <2>1. Traded' = Traded
    BY <1>1 DEF Traded
  <2>2. CASE mine' = mine
    BY <1>0, <1>1, <2>1, <2>2 DEF RowInv
  <2>3. CASE mine' = NoTrades
    BY <1>0, <1>1, <2>3, NothingType DEF RowInv
  <2> QED
    BY <2>2, <2>3
<1>4. AccountInv'
  <2>1. Traded' = Traded
    BY <1>1 DEF Traded
  <2>2. HalfCost' = HalfCost /\ \A s : HalfReplayed(s)' = HalfReplayed(s)
    BY DEF HalfCost, HalfReplayed
  <2> QED
    BY <1>0, <1>1, <2>1, <2>2 DEF AccountInv
<1> QED
  BY <1>2, <1>3, <1>4

(* A ledger that is made now accounts for nothing yet.                     *)
LEMMA EnsureLedgerSound ==
    ASSUME RecoveryInv, EnsureLedger, start = NoStart, UNCHANGED <<rows, mine, running>>,
           start' \in StartType, start'.at # "selling"
    PROVE  /\ TypeOK' /\ RowInv' /\ AccountInv' /\ ledger' # NoLedger
           /\ ledger = NoLedger => before' = Len(rows) /\ replayed' = 0 /\ DOMAIN surplus' = {}
           /\ ledger # NoLedger => UNCHANGED history
<1>0. TypeOK /\ RowInv /\ StartInv /\ AccountInv
  BY DEF RecoveryInv
<1>1. CASE ledger # NoLedger
  <2>1. UNCHANGED <<ledger, history>>
    BY <1>1 DEF EnsureLedger
  <2>2. start.at # "selling" /\ running' \in BOOLEAN
    BY <1>0, NothingType DEF TypeOK
  <2>3. TypeOK' /\ RowInv' /\ AccountInv'
    BY <2>1, <2>2, QuietStep
  <2> QED
    BY <1>1, <2>1, <2>3
<1>2. CASE ledger = NoLedger
  <2>1. /\ ledger' = NewLedger(Symbols, StartingCash)
        /\ before' = Len(rows) /\ replayed' = 0 /\ surplus' = Nothing
    BY <1>2 DEF EnsureLedger
  <2>2. /\ ledger' \in LedgerType /\ ledger' # NoLedger /\ ledger'.cash = StartingCash
        /\ \A s \in Symbols : ledger'.holdings[s].qty = 0
    BY <2>1, EmptyLedger, LedgerIsThere
  <2>3. Len(rows) \in Nat
    BY <1>0, TypesOf
  <2>4. DOMAIN surplus' = {} /\ IsTable(surplus')
    BY <2>1, NothingType
  <2>5. TypeOK'
    BY <1>0, <2>1, <2>2, <2>3, <2>4 DEF TypeOK
  <2>6. Traded' = {}
    BY <2>1, <2>3 DEF Traded
  <2>8. AccountInv'
    <3>1. PICK f, g : f = rows' /\ g = surplus'
      OBVIOUS
    <3>2. /\ Paid(f, {}) = 0 /\ Paid(g, {}) = 0
          /\ \A s : Units(f, s, {}) = 0 /\ Units(g, s, {}) = 0
      BY TotalsEmpty
    <3>3. DOMAIN g = {}
      BY <2>4, <3>1
    <3>4. Balance(f, g, {}) = 0 /\ \A s : Quantity(f, g, {}, s) = 0
      BY <3>2, <3>3 DEF Balance, Quantity
    <3>5. Balance(rows, surplus, Traded)' = 0 /\ \A s : Quantity(rows, surplus, Traded, s)' = 0
      BY <2>6, <3>1, <3>4
    <3>6. HalfCost' = 0 /\ \A s : HalfReplayed(s)' = 0
      BY DEF HalfCost, HalfReplayed
    <3> QED
      BY <2>2, <3>5, <3>6, RecoveryAssumption DEF AccountInv
  <2>9. RowInv'
    <3>1. \A s \in Symbols : mine[s] = NoTrade
      BY <1>0, <1>2 DEF StartInv
    <3> QED
      BY <1>0, <2>4, <3>1 DEF RowInv
  <2> QED
    BY <1>2, <2>1, <2>2, <2>4, <2>5, <2>8, <2>9
<1> QED
  BY <1>1, <1>2

LEMMA RecoveryInit ==
    Init => RecoveryInv
<1> SUFFICES ASSUME Init PROVE RecoveryInv
  OBVIOUS
<1>1. /\ rows = <<>> /\ ledger = NoLedger /\ running = FALSE /\ mine = NoTrades
      /\ start = NoStart /\ before = 0 /\ replayed = 0 /\ surplus = Nothing
  BY DEF Init
<1>2. <<>> \in Seq(RowType) /\ Len(rows) = 0 /\ DOMAIN rows = {}
  BY <1>1
<1>3. TypeOK
  <2>1. before \in 0 .. Len(rows) /\ replayed \in 0 .. before
    BY <1>1, <1>2
  <2>2. DOMAIN surplus = {} /\ IsTable(surplus)
    BY <1>1, NothingType
  <2>3. rows \in Seq(RowType)
    BY <1>1, <1>2
  <2>4. mine \in [Symbols -> HeldType \cup {NoTrade}] /\ start \in StartType
    BY <1>1, NothingType
  <2> QED
    BY <1>1, <2>1, <2>2, <2>3, <2>4 DEF TypeOK
<1>4. RowInv /\ StartInv /\ AccountInv
  BY <1>1, <1>2, NothingType DEF RowInv, StartInv, AccountInv
<1> QED
  BY <1>3, <1>4 DEF RecoveryInv

LEMMA LedgerStep ==
    ASSUME RecoveryInv, ViewPortfolio \/ StartLedger
    PROVE  RecoveryInv'
<1>0. TypeOK /\ RowInv /\ StartInv /\ AccountInv
  BY DEF RecoveryInv
<1>1. PICK fresh : fresh = (ledger = NoLedger)
  OBVIOUS
<1>2. /\ EnsureLedger /\ UNCHANGED <<rows, running, mine>> /\ start = NoStart
      /\ start' = start \/ (~running /\ start' = [at |-> "ledger", fresh |-> fresh, todo |-> <<>>])
  BY <1>1 DEF ViewPortfolio, StartLedger
<1>3. fresh \in BOOLEAN /\ (fresh => ledger = NoLedger)
  BY <1>1
<1>4. /\ start' \in StartType
      /\ \/ start' = NoStart
         \/ ~running /\ start'.at = "ledger" /\ start'.fresh = fresh
  <2>1. CASE start' = start
    BY <1>2, <2>1, NothingType
  <2>2. CASE ~running /\ start' = [at |-> "ledger", fresh |-> fresh, todo |-> <<>>]
    <3>1. <<>> \in Seq(HeldType)
      OBVIOUS
    <3> QED
      BY <1>3, <2>2, <3>1 DEF StartType
  <2> QED
    BY <1>2, <2>1, <2>2
<1>5. start'.at # "selling"
  BY <1>4, NothingType
<1>6. /\ TypeOK' /\ RowInv' /\ AccountInv' /\ ledger' # NoLedger
      /\ ledger = NoLedger => before' = Len(rows) /\ replayed' = 0 /\ DOMAIN surplus' = {}
  BY <1>2, <1>4, <1>5, EnsureLedgerSound
<1>7. StartInv'
  <2>1. CASE start' = NoStart
    BY <1>0, <1>2, <1>6, <2>1, NothingType DEF StartInv
  <2>2. CASE ~running /\ start'.at = "ledger" /\ start'.fresh = fresh
    BY <1>0, <1>2, <1>3, <1>6, <2>2 DEF StartInv
  <2> QED
    BY <1>4, <2>1, <2>2
<1> QED
  BY <1>6, <1>7 DEF RecoveryInv

LEMMA ReadStep ==
    ASSUME RecoveryInv, ReplayRead
    PROVE  RecoveryInv'
<1>0. TypeOK /\ RowInv /\ StartInv /\ AccountInv
  BY DEF RecoveryInv
<1>1. PICK q : q = [i \in DOMAIN rows |-> [row |-> i, trade |-> rows[i]]]
  OBVIOUS
<1>2. /\ UNCHANGED <<rows, ledger, running, mine, history>> /\ start.at = "registered"
      /\ start' = IF rows = <<>> THEN NoStart ELSE [start EXCEPT !.at = "replaying", !.todo = q]
  BY <1>1 DEF ReplayRead
<1>3. UNCHANGED <<before, replayed, surplus>>
  BY <1>2 DEF history
<1>4. /\ rows \in Seq(RowType) /\ DOMAIN rows = 1 .. Len(rows) /\ Len(rows) \in Nat
      /\ before \in Nat /\ before <= Len(rows) /\ start \in StartType
      /\ \A i \in DOMAIN rows : rows[i] \in RowType
  BY <1>0, TypesOf
<1>5. ledger # NoLedger /\ start.fresh /\ running /\ replayed = 0 /\ DOMAIN surplus = {}
  BY <1>0, <1>2 DEF StartInv
<1>6. q \in Seq(HeldType) /\ Len(q) = Len(rows) /\ \A j \in 1 .. Len(rows) : q[j].row = j /\ q[j].trade = rows[j]
  <2>1. \A i \in DOMAIN rows : [row |-> i, trade |-> rows[i]] \in HeldType
    BY <1>4 DEF HeldType
  <2>2. q \in [1 .. Len(rows) -> HeldType]
    BY <1>1, <1>4, <2>1
  <2>3. q \in Seq(HeldType) /\ Len(q) = Len(rows)
    BY <1>4, <2>2
  <2> QED
    BY <1>1, <1>4, <2>3
<1>7. CASE rows = <<>>
  <2>1. start' = NoStart
    BY <1>2, <1>7
  <2>2. TypeOK' /\ RowInv' /\ AccountInv'
    BY <1>0, <1>2, <2>1, NothingType, QuietStep DEF TypeOK
  <2> QED
    BY <1>0, <1>2, <1>5, <2>1, <2>2, NothingType DEF StartInv, RecoveryInv
<1>8. CASE rows # <<>>
  <2>1. start' \in StartType /\ start'.at = "replaying" /\ start'.fresh /\ start'.todo = q
    <3>1. start' = [start EXCEPT !.at = "replaying", !.todo = q]
      BY <1>2, <1>8
    <3> QED
      BY <1>4, <1>5, <1>6, <3>1 DEF StartType
  <2>2. TypeOK' /\ RowInv' /\ AccountInv'
    BY <1>0, <1>2, <2>1, QuietStep DEF TypeOK
  <2>3. Len(rows) \in Nat \ {0}
    BY <1>4, <1>8
  <2>4. TodoInv(start.todo[1].row, Len(start.todo))'
    <3>1. q[1].row = 1
      BY <1>6, <2>3
    <3>2. \A j \in 1 .. Len(rows) : Sound(q[j].trade) /\ q[j].trade.symbol = rows[q[j].row].symbol
                                     /\ q[j].trade = rows[q[j].row] /\ q[j].row = 1 + j - 1
      BY <1>0, <1>4, <1>6 DEF RowInv
    <3>3. 1 + Len(rows) - 1 = Len(rows) /\ Len(rows) \in DOMAIN rows
      BY <1>4, <2>3
    <3>4. 0 = (IF 1 <= before THEN 1 - 1 ELSE before) /\ (before + 1) .. (1 - 1) = {}
      BY <1>4
    <3> DEFINE n == Len(rows)
    <3>5. n \in Nat \ {0} /\ n = Len(start'.todo)
      BY <1>6, <2>1, <2>3
    <3>6. n' = n
      BY <1>2
    <3> HIDE DEF n
    <3>7. TodoInv(1, n)'
      <4>1. /\ n \in Nat \ {0} /\ n = Len(start'.todo) /\ 1 + n - 1 \in DOMAIN rows' /\ before' <= 1 + n - 1
            /\ replayed' = (IF 1 <= before' THEN 1 - 1 ELSE before')
            /\ DOMAIN surplus' = (before' + 1) .. (1 - 1) /\ start'.at # "selling"
        BY <1>2, <1>3, <1>4, <1>5, <2>1, <3>3, <3>4, <3>5 DEF n
      <4>2. \A j \in 1 .. n : /\ start'.todo[j].row = 1 + j - 1
                              /\ Sound(start'.todo[j].trade)
                              /\ start'.todo[j].trade.symbol = rows'[start'.todo[j].row].symbol
                              /\ start'.todo[j].trade = rows'[start'.todo[j].row]
        BY <1>2, <2>1, <3>2 DEF n
      <4> QED
        BY <3>6, <4>1, <4>2 DEF TodoInv
    <3> QED
      BY <2>1, <3>1, <3>5, <3>6, <3>7
  <2>5. StartInv'
    BY <1>0, <1>2, <1>5, <2>1, <2>4 DEF StartInv
  <2> QED
    BY <2>2, <2>5 DEF RecoveryInv
<1> QED
  BY <1>7, <1>8

LEMMA RecoveryStep ==
    RecoveryInv /\ [Next]_vars => RecoveryInv'
<1> SUFFICES ASSUME RecoveryInv, [Next]_vars PROVE RecoveryInv'
  OBVIOUS
<1>0. TypeOK /\ RowInv /\ StartInv /\ AccountInv
  BY DEF RecoveryInv
<1>1. ASSUME StartFails \/ ReplayFails PROVE RecoveryInv'
  <2>1. /\ UNCHANGED <<rows, ledger, running, mine, history>> /\ start' = NoStart
        /\ start.at \in {"ledger", "registered", "replaying"}
    BY <1>1 DEF StartFails, ReplayFails
  <2>2. TypeOK' /\ RowInv' /\ AccountInv'
    BY <1>0, <2>1, NothingType, QuietStep DEF TypeOK
  <2>3. StartInv'
    BY <1>0, <2>1, NothingType DEF StartInv
  <2> QED
    BY <2>2, <2>3 DEF RecoveryInv
<1>2. ASSUME StartRuntime PROVE RecoveryInv'
  <2>1. /\ UNCHANGED <<rows, ledger, history>> /\ running' = TRUE /\ mine' = NoTrades
        /\ start.at = "ledger"
        /\ start' = IF start.fresh THEN [start EXCEPT !.at = "registered"] ELSE NoStart
    BY <1>2 DEF StartRuntime
  <2>2. /\ start' \in StartType
        /\ start.fresh => start'.at = "registered" /\ start'.fresh
    BY <1>0, <2>1, NothingType DEF TypeOK, StartType
  <2>3. start'.at # "selling"
    BY <2>1, <2>2, NothingType
  <2>4. TypeOK' /\ RowInv' /\ AccountInv'
    BY <1>0, <2>1, <2>2, <2>3, QuietStep
  <2>5. UNCHANGED <<before, replayed, surplus>> /\ ledger # NoLedger
    BY <1>0, <2>1 DEF history, StartInv
  <2>6. StartInv'
    <3>1. CASE start.fresh
      BY <1>0, <2>1, <2>2, <2>5, <3>1 DEF StartInv
    <3>2. CASE ~start.fresh
      BY <2>1, <2>5, <3>2, NothingType DEF StartInv
    <3> QED
      BY <3>1, <3>2
  <2> QED
    BY <2>4, <2>6 DEF RecoveryInv
<1>3. ASSUME Stop PROVE RecoveryInv'
  <2>1. /\ UNCHANGED <<rows, ledger, start, history>> /\ start = NoStart
        /\ running /\ running' = FALSE /\ mine' = NoTrades
    BY <1>3 DEF Stop
  <2>2. TypeOK' /\ RowInv' /\ AccountInv'
    BY <2>1, NothingType, QuietStep
  <2>3. StartInv'
    BY <1>0, <2>1, NothingType DEF StartInv
  <2> QED
    BY <2>2, <2>3 DEF RecoveryInv
<1>4. ASSUME Restart PROVE RecoveryInv'
  <2>1. /\ UNCHANGED rows /\ ledger' = NoLedger /\ running' = FALSE /\ mine' = NoTrades
        /\ start' = NoStart /\ before' = 0 /\ replayed' = 0 /\ surplus' = Nothing
    BY <1>4 DEF Restart
  <2>2. Len(rows) \in Nat
    BY <1>0, TypesOf
  <2>3. TypeOK'
    <3>1. before' \in 0 .. Len(rows') /\ replayed' \in 0 .. before'
      BY <2>1, <2>2
    <3>2. DOMAIN surplus' = {} /\ IsTable(surplus')
      BY <2>1, NothingType
    <3> QED
      BY <1>0, <2>1, <3>1, <3>2, NothingType DEF TypeOK
  <2>4. RowInv' /\ AccountInv' /\ StartInv'
    BY <1>0, <2>1, NothingType DEF RowInv, AccountInv, StartInv
  <2> QED
    BY <2>3, <2>4 DEF RecoveryInv
<1>5. ASSUME UNCHANGED vars PROVE RecoveryInv'
  <2>1. UNCHANGED <<rows, ledger, running, mine, start, before, replayed, surplus>>
    BY <1>5 DEF vars, history
  <2>2. Traded' = Traded /\ HalfCost' = HalfCost /\ \A s : HalfReplayed(s)' = HalfReplayed(s)
    BY <2>1 DEF Traded, HalfCost, HalfReplayed
  <2>3. TypeOK' /\ RowInv' /\ AccountInv'
    BY <1>0, <2>1, <2>2 DEF TypeOK, RowInv, AccountInv
  <2>4. StartInv'
    BY <1>0, <2>1 DEF StartInv, TodoInv
  <2> QED
    BY <2>3, <2>4 DEF RecoveryInv
<1> QED
  BY <1>1, <1>2, <1>3, <1>4, <1>5, LedgerStep, ReadStep, ReplayBuySound, ReplaySellSound,
     EnterSound, ExitSound, ExpireSound DEF Next

LEMMA RecoveryInvariant ==
    Spec => []RecoveryInv
<1>1. RecoveryInv /\ [Next]_vars => RecoveryInv'
  BY RecoveryStep
<1> QED
  BY <1>1, RecoveryInit, PTL DEF Spec

LEMMA HeldIsOpen ==
    \A f, s : HeldIn(f, s, DOMAIN f) = OpenIn(f, s)
  BY DEF HeldIn, OpenIn
-----------------------------------------------------------------------------
(* A ledger that was replayed, or that saw every trade, has the cash and   *)
(* the holdings of the trades table (server.go replayLedgerAndRuntime) but *)
(* for the trades that it counts twice, which are those that candles of    *)
(* the start entered before the rows were read: for any number of trades,  *)
(* symbols, candles, stops and restarts.                                   *)
THEOREM RestartLosesNothing == Spec => []LedgerContinues
<1>1. RecoveryInv => LedgerContinues
  <2> SUFFICES ASSUME RecoveryInv, ledger # NoLedger, replayed = before, start = NoStart
               PROVE  /\ ledger.cash = StartingCash - SpentIn(rows) - SpentIn(surplus)
                      /\ \A s \in Symbols : ledger.holdings[s].qty =
                            Cardinality(OpenRows(s)) + Cardinality(OpenIn(surplus, s))
    BY DEF LedgerContinues
  <2>0. TypeOK /\ AccountInv /\ RowInv /\ StartInv
    BY DEF RecoveryInv
  <2>1. /\ IsTable(rows) /\ IsTable(surplus)
        /\ DOMAIN rows = 1 .. Len(rows) /\ Len(rows) \in Nat /\ before \in Nat /\ before <= Len(rows)
    BY <2>0, TypesOf
  <2>2. Traded = DOMAIN rows
    BY <2>1 DEF Traded
  <2>3. HalfCost = 0 /\ \A s : HalfReplayed(s) = 0
    BY NothingType, NotHalf
  <2>4. /\ SpentIn(rows) = Paid(rows, DOMAIN rows) /\ SpentIn(surplus) = Paid(surplus, DOMAIN surplus)
        /\ Paid(rows, DOMAIN rows) \in Int /\ Paid(surplus, DOMAIN surplus) \in Int
    BY <2>1, SpentIsPaid, TotalsType
  <2>5. /\ ledger.cash = StartingCash - Balance(rows, surplus, DOMAIN rows) - 0
        /\ \A s \in Symbols : ledger.holdings[s].qty = Quantity(rows, surplus, DOMAIN rows, s) + 0
    BY <2>0, <2>2, <2>3 DEF AccountInv
  <2>6. ledger.cash = StartingCash - SpentIn(rows) - SpentIn(surplus)
    BY <2>4, <2>5, RecoveryAssumption DEF Balance
  <2>7. ASSUME NEW s \in Symbols
        PROVE  ledger.holdings[s].qty = Cardinality(OpenRows(s)) + Cardinality(OpenIn(surplus, s))
    <3>1. Units(rows, s, DOMAIN rows) \in Nat /\ Units(surplus, s, DOMAIN surplus) \in Nat
      BY <2>1, TotalsType
    <3>2. /\ Units(rows, s, DOMAIN rows) = Cardinality(OpenRows(s))
          /\ Units(surplus, s, DOMAIN surplus) = Cardinality(OpenIn(surplus, s))
      BY HeldIsOpen DEF Units, OpenRows
    <3> QED
      BY <2>5, <3>1, <3>2 DEF Quantity
  <2> QED
    BY <2>6, <2>7
<1> QED
  BY <1>1, RecoveryInvariant, PTL

(* Nothing is held that the trades table does not show as open, also while *)
(* a start replays the rows one by one, with candles in between, and after *)
(* a replay that failed; but for the trades that are counted twice and the *)
(* row that is bought and about to be sold.                                *)
THEOREM RestartInventsNothing == Spec => []NoPhantomHolding
<1>1. RecoveryInv => NoPhantomHolding
  <2> SUFFICES ASSUME RecoveryInv, ledger # NoLedger, NEW s \in Symbols
               PROVE  ledger.holdings[s].qty <=
                         Cardinality(OpenRows(s)) + Cardinality(OpenIn(surplus, s)) + HalfReplayed(s)
    BY DEF NoPhantomHolding
  <2>0. TypeOK /\ AccountInv /\ RowInv /\ StartInv
    BY DEF RecoveryInv
  <2>1. IsTable(rows) /\ IsTable(surplus) /\ Traded \subseteq DOMAIN rows /\ HalfReplayed(s) \in Nat
    BY <2>0, TypesOf, HalfType
  <2>2. ledger.holdings[s].qty = Units(rows, s, Traded) + Units(surplus, s, DOMAIN surplus) + HalfReplayed(s)
    BY <2>0 DEF AccountInv, Quantity
  <2>3. Units(rows, s, Traded) <= Cardinality(OpenRows(s)) /\ Cardinality(OpenRows(s)) \in Nat
    <3>1. HeldIn(rows, s, Traded) \subseteq OpenRows(s)
      BY <2>1 DEF HeldIn, OpenRows, OpenIn
    <3>2. IsFiniteSet(OpenRows(s))
      BY <2>1, FS_Subset DEF OpenRows, OpenIn, IsTable
    <3> QED
      BY <3>1, <3>2, FS_Subset, FS_CardinalityType DEF Units
  <2>4. Units(surplus, s, DOMAIN surplus) = Cardinality(OpenIn(surplus, s))
    BY HeldIsOpen DEF Units
  <2>5. Units(rows, s, Traded) \in Nat /\ Units(surplus, s, DOMAIN surplus) \in Nat
    BY <2>1, TotalsType
  <2> QED
    BY <2>1, <2>2, <2>3, <2>4, <2>5
<1> QED
  BY <1>1, RecoveryInvariant, PTL
=============================================================================
