-------------------------- MODULE MC_TradeLifecycle --------------------------
(* Small instances of TradeLifecycle: the strategies the .cfg files choose. *)
EXTENDS TradeLifecycle

StopAndSignal == <<"stop_loss", "signal">>
TargetOrTrail == <<"trailing_sl", "take_profit">>
DefaultPriority == <<"stop_loss", "trailing_sl", "take_profit", "signal">>

OneLot == [type |-> "fixed_qty", value |-> 1]
HalfOfCash == [type |-> "fixed_pct", value |-> 50]
=============================================================================
