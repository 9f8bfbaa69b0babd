------------------------------- MODULE Recovery -------------------------------
(***************************************************************************)
(* What a strategy holds across stops, starts and restarts of the engine   *)
(* (api/server.go startStrategy, replayTrades, getOrCreateLedger; main.go; *)
(* strategy/runtime.go RestoreOpenTrade).  The trades table survives; the  *)
(* ledger survives a stop but not a restart; the runtime with its open     *)
(* trades survives neither.                                                *)
(*                                                                         *)
(* The API calls for one strategy come one after the other.  A start is a  *)
(* sequence of steps: the ledger, the registration of the runtime, and,    *)
(* only if this start made the ledger, the replay of the stored trades,    *)
(* each a buy and maybe a sale.  The dispatcher may hand the runtime a     *)
(* candle between any two of them from its registration on: a trade that   *)
(* is entered before the rows are read is in the ledger already and is     *)
(* replayed all the same.  What happens inside one candle is the subject   *)
(* of TradeLifecycle: here it enters or exits one unit, or expires a       *)
(* trade, in one step.  The order of the writes inside it shows only to a  *)
(* restart, which forgets the ledger and so the candle, or to the reading  *)
(* of the rows, which then came before it.                                 *)
(* Names with a suffix are faulty variants of the definition before the    *)
(* underscore.                                                             *)
(***************************************************************************)
EXTENDS Portfolio, Sequences

CONSTANTS Symbols,
          StartingCash,
          Fee,               \* costs of one fill
          Prices,            \* prices an order may fill at
          MaxTrades          \* bound: rows of the trades table

ASSUME RecoveryAssumption ==
    /\ IsFiniteSet(Symbols)
    /\ StartingCash \in Nat /\ Fee \in Nat /\ Prices \subseteq Nat \ {0}
    /\ MaxTrades \in Nat

VARIABLES
    rows,        \* the trades table, by entry time
    ledger,      \* Server.ledgers[id], or NoLedger
    running,     \* the runtime is registered and listens to candles
    mine,        \* Runtime.trades: each symbol's trade and its row, or NoTrade
    start,       \* what startStrategy is in the middle of
    before,      \* history: how many rows there were when the ledger was made
    replayed,    \* history: how many of these were replayed into it
    surplus      \* history: what the ledger counts beside the table: of each
                 \* row it counts twice the trade that the row does not show

history == <<before, replayed, surplus>>
vars == <<rows, ledger, running, mine, start, history>>

NoLedger == [cash |-> -1]
NoStart == [at |-> "idle", fresh |-> FALSE, todo |-> <<>>]
NoTrade == [row |-> 0]
NoTrades == [s \in Symbols |-> NoTrade]
Nothing == <<>>

StillOpen_EvenClosed(state) == state \in {"ACTIVE", "EXPIRED", "CLOSED"}
StillOpen(state) == state \in {"ACTIVE", "EXPIRED"}

Init ==
    /\ rows = <<>>
    /\ ledger = NoLedger
    /\ running = FALSE
    /\ mine = NoTrades
    /\ start = NoStart
    /\ before = 0 /\ replayed = 0 /\ surplus = Nothing
-----------------------------------------------------------------------------
(* getOrCreateLedger                                                       *)
EnsureLedger ==
    IF ledger = NoLedger
    THEN /\ ledger' = NewLedger(Symbols, StartingCash)
         /\ before' = Len(rows) /\ replayed' = 0 /\ surplus' = Nothing
    ELSE UNCHANGED <<ledger, history>>

(* GET .../portfolio makes a ledger too.                                   *)
ViewPortfolio ==
    /\ start = NoStart
    /\ EnsureLedger
    /\ UNCHANGED <<rows, running, mine, start>>

StartLedger ==
    /\ start = NoStart /\ ~running
    /\ EnsureLedger
    /\ start' = [at |-> "ledger", fresh |-> ledger = NoLedger, todo |-> <<>>]
    /\ UNCHANGED <<rows, running, mine>>

(* RunStrategy returns an error: over the cap, or the feed refused.        *)
StartFails ==
    /\ start.at = "ledger"
    /\ start' = NoStart
    /\ UNCHANGED <<rows, ledger, running, mine, history>>

(* RunStrategy: a new runtime without trades that listens at once.         *)
StartRuntime ==
    /\ start.at = "ledger"
    /\ running' = TRUE
    /\ mine' = NoTrades
    /\ start' = IF start.fresh THEN [start EXCEPT !.at = "registered"] ELSE NoStart
    /\ UNCHANGED <<rows, ledger, history>>

(* replayLedgerAndRuntime reads the rows once and works on what it read.   *)
ReplayRead ==
    /\ start.at = "registered"
    /\ start' = IF rows = <<>> THEN NoStart
                ELSE [start EXCEPT !.at = "replaying",
                                   !.todo = [i \in DOMAIN rows |-> [row |-> i, trade |-> rows[i]]]]
    /\ UNCHANGED <<rows, ledger, running, mine, history>>

(* The next row, which is replayed with this step.  A row that is younger  *)
(* than the ledger has been traded by it already.                          *)
RowDone ==
    LET next == Head(start.todo)
    IN  /\ start' = IF Len(start.todo) = 1 THEN NoStart
                    ELSE [start EXCEPT !.at = "replaying", !.todo = Tail(@)]
        /\ before' = before
        /\ IF next.row <= before
           THEN replayed' = replayed + 1 /\ surplus' = surplus
           ELSE /\ replayed' = replayed
                /\ surplus' = [i \in DOMAIN surplus \cup {next.row} |->
                                  IF i = next.row THEN next.trade ELSE surplus[i]]

(* ApplyBuy, and RestoreOpenTrade for a trade that is still open.  Nothing *)
(* orders that with a candle of the runtime, which may have found no trade *)
(* of the symbol before and write its own afterwards.                      *)
ReplayBuy ==
    LET next == Head(start.todo)
        t == next.trade
    IN  /\ start.at = "replaying"
        /\ CanBuy(ledger, 1, t.entry, t.costs)
        /\ ledger' = AfterBuy(ledger, t.symbol, 1, t.entry, t.costs)
        /\ IF StillOpen(t.state)
           THEN /\ \/ mine' = [mine EXCEPT ![t.symbol] = next]
                   \/ mine[t.symbol] # NoTrade /\ mine' = mine
                /\ RowDone
           ELSE /\ mine' = mine
                /\ start' = [start EXCEPT !.at = "selling"]
                /\ UNCHANGED history
        /\ UNCHANGED <<rows, running>>

(* The whole cost of a closed trade is charged with its entry.             *)
ReplayExitCosts_Twice == Fee
ReplayExitCosts == 0

ReplaySell ==
    LET t == Head(start.todo).trade
    IN  /\ start.at = "selling"
        /\ CanSell(ledger, t.symbol, 1)
        /\ ledger' = AfterSell(ledger, t.symbol, 1, t.exit, ReplayExitCosts)
        /\ RowDone
        /\ UNCHANGED <<rows, running, mine>>

(* The rows cannot be read, or the ledger cannot pay for an entry: a line  *)
(* in the log ends the replay.                                             *)
ReplayFails ==
    /\ \/ start.at = "registered"
       \/ /\ start.at = "replaying"
          /\ LET t == Head(start.todo).trade IN ~CanBuy(ledger, 1, t.entry, t.costs)
    /\ start' = NoStart
    /\ UNCHANGED <<rows, ledger, running, mine, history>>

Stop ==
    /\ start = NoStart /\ running
    /\ running' = FALSE
    /\ mine' = NoTrades
    /\ UNCHANGED <<rows, ledger, start, history>>

(* The process ends, at any moment, and comes up again.                    *)
Restart ==
    /\ ledger' = NoLedger
    /\ running' = FALSE
    /\ mine' = NoTrades
    /\ start' = NoStart
    /\ before' = 0 /\ replayed' = 0 /\ surplus' = Nothing
    /\ UNCHANGED rows
-----------------------------------------------------------------------------
(* A candle of the runtime.                                                *)

NewTrade(s, p) == [symbol |-> s, state |-> "ACTIVE", entry |-> p, exit |-> 0, costs |-> Fee]

Enter(s, p) ==
    /\ running /\ mine[s] = NoTrade
    /\ Len(rows) < MaxTrades
    /\ CanBuy(ledger, 1, p, Fee)
    /\ ledger' = AfterBuy(ledger, s, 1, p, Fee)
    /\ rows' = Append(rows, NewTrade(s, p))
    /\ mine' = [mine EXCEPT ![s] = [row |-> Len(rows) + 1, trade |-> NewTrade(s, p)]]
    /\ UNCHANGED <<running, start, history>>

(* Upsert: the row shows this trade now.  If it showed the other one of a  *)
(* row that is counted twice, that one is not shown any more.              *)
Upsert(held, t) ==
    /\ rows' = [rows EXCEPT ![held.row] = t]
    /\ surplus' = [i \in DOMAIN surplus |->
                      IF i = held.row /\ surplus[i] = held.trade THEN rows[i] ELSE surplus[i]]
    /\ UNCHANGED <<before, replayed>>

Exit(s, p) ==
    /\ running /\ mine[s] # NoTrade
    /\ CanSell(ledger, s, 1)
    /\ ledger' = AfterSell(ledger, s, 1, p, Fee)
    /\ Upsert(mine[s], [mine[s].trade EXCEPT !.state = "CLOSED", !.exit = p, !.costs = @ + Fee])
    /\ mine' = [mine EXCEPT ![s] = NoTrade]
    /\ UNCHANGED <<running, start>>

Expire(s) ==
    /\ running /\ mine[s] # NoTrade
    /\ mine[s].trade.state = "ACTIVE"
    /\ LET t == [mine[s].trade EXCEPT !.state = "EXPIRED"]
       IN  /\ Upsert(mine[s], t)
           /\ mine' = [mine EXCEPT ![s] = [row |-> mine[s].row, trade |-> t]]
    /\ UNCHANGED <<ledger, running, start>>

Next ==
    \/ ViewPortfolio
    \/ StartLedger \/ StartFails \/ StartRuntime
    \/ ReplayRead \/ ReplayBuy \/ ReplaySell \/ ReplayFails
    \/ Stop \/ Restart
    \/ \E s \in Symbols : Expire(s) \/ \E p \in Prices : Enter(s, p) \/ Exit(s, p)

Spec == Init /\ [][Next]_vars
-----------------------------------------------------------------------------
(* Properties                                                              *)

Open(t) == t.state \in {"ACTIVE", "EXPIRED"}

(* The trades of s in a table that nobody has closed.                      *)
OpenIn(table, s) == {i \in DOMAIN table : table[i].symbol = s /\ Open(table[i])}
OpenRows(s) == OpenIn(rows, s)

(* What the trades of a table took out of the cash.                        *)
SpentIn(table) == MapThenSumSet(LAMBDA i : table[i].entry + table[i].costs - table[i].exit, DOMAIN table)

(* The row a start is in the middle of: bought, and still to be sold.      *)
HalfReplayed(s) == IF start.at = "selling" /\ Head(start.todo).trade.symbol = s THEN 1 ELSE 0

(* A ledger that was replayed, or that saw every trade, has the cash and   *)
(* the holdings of the trade history, although the replay charges costs at *)
(* another moment than the trades did and sells at other moments           *)
(* (server.go replayTrades: "nets to the identical final cash balance"),   *)
(* and although candles come in between.  What it is off by is exactly     *)
(* what it trades twice: the trades that candles of the same start entered *)
(* before the rows were read.                                              *)
LedgerContinues ==
    ledger # NoLedger /\ replayed = before /\ start = NoStart =>
        /\ ledger.cash = StartingCash - SpentIn(rows) - SpentIn(surplus)
        /\ \A s \in Symbols :
              ledger.holdings[s].qty = Cardinality(OpenRows(s)) + Cardinality(OpenIn(surplus, s))

(* Nothing is held that the trade history does not show as open, at any    *)
(* moment of a start, and whether the ledger is replayed, kept from before *)
(* a stop, or was made too early by a request that only looked; but for    *)
(* what a candle entered before the rows were read, and for the row that   *)
(* is bought and about to be sold.                                         *)
NoPhantomHolding ==
    ledger # NoLedger =>
        \A s \in Symbols :
            ledger.holdings[s].qty <=
                Cardinality(OpenRows(s)) + Cardinality(OpenIn(surplus, s)) + HalfReplayed(s)

(* Every open trade of a strategy that runs is in its runtime, which alone *)
(* checks its exits: "instead of silently forgetting it exists and trying  *)
(* to open a second position on top of it" (server.go replayTrades).       *)
OpenTradesManaged ==
    running /\ start = NoStart => \A s \in Symbols : OpenRows(s) # {} => mine[s] # NoTrade
=============================================================================
