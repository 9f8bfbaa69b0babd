------------------------------ MODULE Execution ------------------------------
(***************************************************************************)
(* Sizing and the paper broker (src/engine/internal/execution): pure       *)
(* functions of the order and of what the broker sees when it is called.   *)
(* Percentages are integers; an amount is compared after multiplying by    *)
(* 100 instead of dividing.                                                *)
(***************************************************************************)
EXTENDS Integers

NoPrice == 0

(* The final integer quantity of an order.  Every error of ResolveQuantity *)
(* (a price that is not positive, a derivative without lot size, no stop    *)
(* distance for risk_based, an unknown type) and a quantity that rounds to  *)
(* zero are 0 here: the caller abandons the entry in each case.             *)
ResolveQuantity(sizing, capital, price, derivative, lotSize, stopPct) ==
    LET lot == IF derivative THEN lotSize ELSE 1
        lots == [fixed_pct    |-> (capital * sizing.value) \div (100 * price * lot),
                 fixed_amount |-> sizing.value \div (price * lot),
                 fixed_qty    |-> sizing.value \div lot,
                 risk_based   |-> IF stopPct <= 0 THEN 0
                                  ELSE (capital * sizing.value) \div (price * stopPct * lot)]
    IN  IF /\ price > 0 /\ lot > 0
           /\ sizing.type \in DOMAIN lots
           /\ lots[sizing.type] > 0
        THEN lots[sizing.type] * lot
        ELSE 0

Rejected(reason) == [state |-> "REJECTED", reason |-> reason, qty |-> 0, price |-> 0]

(* FillBasic is participation cap 0 (unlimited); a positive cap is the     *)
(* size FillAdvanced lets one order take.                                  *)
PlaceOrder(side, qty, quote, circuitOk, slippagePct, cap) ==
    IF quote = NoPrice THEN Rejected("no_price_available")
    ELSE IF ~circuitOk THEN Rejected("circuit_limit_hit")
    ELSE LET filled == IF cap > 0 /\ qty > cap THEN cap ELSE qty
             slip   == (quote * slippagePct) \div 100
         IN  IF filled <= 0 THEN Rejected("no_liquidity")
             ELSE [state  |-> IF filled < qty THEN "PARTIAL" ELSE "FILLED",
                   reason |-> "",
                   qty    |-> filled,
                   price  |-> IF side = "BUY" THEN quote + slip ELSE quote - slip]

IsFill(fill) == fill.state \in {"FILLED", "PARTIAL"}
==============================================================================
