---------------------------- MODULE MC_Scheduler ----------------------------
(* Three strategies of which any two share an indicator series; or three   *)
(* that read one series and a fourth that also reads an unknown one.       *)
EXTENDS SchedulerRefinement, TLC

CONSTANTS Broken, Shared

PairsShare == "a" :> {"ema", "rsi"} @@ "b" :> {"ema", "vwap"} @@ "c" :> {"rsi", "vwap"}
Series == {"ema", "rsi", "vwap"}

BrokenReadsAll == [s \in Strategies |-> IF s = Broken THEN Keys ELSE {Shared}]
Interchangeable == Permutations(Callers) \cup Permutations(Strategies \ {Broken})

(* The registry without the dispatcher, which reads its state and never    *)
(* changes it: room for more strategies.                                   *)
RegistrySpec == Init /\ [][\E c \in Callers : Request(c) \/ Step(c)]_vars
=============================================================================
