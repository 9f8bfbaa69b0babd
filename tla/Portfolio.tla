------------------------------ MODULE Portfolio ------------------------------
(***************************************************************************)
(* The paper portfolio of one strategy version                             *)
(* (src/engine/internal/portfolio/ledger.go) as a record and the           *)
(* operations on it.  A method of the Go type holds the ledger's mutex from *)
(* its first read to its last write, so each one is a single step here.    *)
(*                                                                         *)
(* Money is counted in units of the last decimal place the code keeps.     *)
(* Addition, subtraction and multiplication by a quantity are then exact,  *)
(* as they are in the decimal package; only Div rounds, half away from     *)
(* zero, and the ledger divides in one place: the weighted average of a    *)
(* second buy.  A symbol that is absent from the holdings map is a symbol  *)
(* held with quantity 0.                                                   *)
(***************************************************************************)
EXTENDS Integers, FiniteSetsExt

Flat == [qty |-> 0, avg |-> 0]

NewLedger(symbols, starting) ==
    [cash |-> starting, realizedPnL |-> 0, totalCosts |-> 0,
     holdings |-> [s \in symbols |-> Flat]]

(* Div of a non-negative amount by a positive quantity, rounded half up.   *)
Rounded(amount, n) == (2 * amount + n) \div (2 * n)

Bought(pos, qty, price) ==
    IF pos.qty = 0
    THEN [qty |-> qty, avg |-> price]
    ELSE [qty |-> pos.qty + qty,
          avg |-> Rounded(pos.avg * pos.qty + price * qty, pos.qty + qty)]

CanBuy(l, qty, price, costs) == qty > 0 /\ l.cash >= price * qty + costs

AfterBuy(l, s, qty, price, costs) ==
    [l EXCEPT !.cash = @ - (price * qty + costs),
              !.totalCosts = @ + costs,
              !.holdings[s] = Bought(@, qty, price)]

CanSell(l, s, qty) == qty > 0 /\ l.holdings[s].qty >= qty

(* A holding that is sold out is deleted from the map.                      *)
Sold(pos, qty) == IF pos.qty = qty THEN Flat ELSE [pos EXCEPT !.qty = @ - qty]

Realized(l, s, qty, price) == (price - l.holdings[s].avg) * qty

AfterSell_NoCosts(l, s, qty, price, costs) ==
    [l EXCEPT !.cash = @ + price * qty,
              !.totalCosts = @ + costs,
              !.realizedPnL = @ + Realized(l, s, qty, price),
              !.holdings[s] = Sold(@, qty)]

AfterSell_NoRealized(l, s, qty, price, costs) ==
    [l EXCEPT !.cash = @ + price * qty - costs,
              !.totalCosts = @ + costs,
              !.holdings[s] = Sold(@, qty)]

AfterSell(l, s, qty, price, costs) ==
    [l EXCEPT !.cash = @ + price * qty - costs,
              !.totalCosts = @ + costs,
              !.realizedPnL = @ + Realized(l, s, qty, price),
              !.holdings[s] = Sold(@, qty)]

DeployedCapital(l) == MapThenSumSet(LAMBDA s : l.holdings[s].avg * l.holdings[s].qty, DOMAIN l.holdings)

(* What Reconcile measures: 0 when no money was created or lost.           *)
Drift(l, starting) == l.cash + DeployedCapital(l) - l.realizedPnL + l.totalCosts - starting
==============================================================================
