------------------------ MODULE SchedulerRefinement ------------------------
(***************************************************************************)
(* Scheduler with one caller at a time implements Registry.  A run takes   *)
(* effect when the listener is registered, which is before the runtime is  *)
(* in the map; a stop when the runtime is told so, which is after it left  *)
(* the map.  In between the mapping reads the caller's own place.          *)
(***************************************************************************)
EXTENDS Scheduler

Midway(c, s) ==
    /\ call[c].strategy = s
    /\ \/ At(c, "run", "listening")
       \/ Stopping(c, "removed")

(* The runtime a strategy has for the outside.                             *)
InstalledRt(s) ==
    IF \E c \in Callers : Midway(c, s)
    THEN call[CHOOSE c \in Callers : Midway(c, s)].rt
    ELSE runtimes[s]

(* Runtimes that are halted and whose listener is about to go.             *)
Leaving == {call[c].rt : c \in {d \in Callers : Stopping(d, "halted") \/ Stopping(d, "released")}}

(* References a call holds for a strategy that is not installed.           *)
OnTheWay(k) ==
    {c \in Callers :
        /\ At(c, "run", "subscribed") \/ Stopping(c, "halted")
        /\ k \in KeysOf[call[c].strategy]}

Reg == INSTANCE Registry WITH
    installed <- [s \in Strategies |-> InstalledRt(s)],
    mode <- [s \in Strategies |-> IF InstalledRt(s) = NoRt THEN "absent" ELSE rtState[InstalledRt(s)]],
    audience <- listeners \ Leaving,
    series <- {k \in Keys : refCount[k] > Cardinality(OnTheWay(k))},
    busy <- handling

(* Every step of a call, seen from outside, is a whole call of Registry or *)
(* nothing, and so is every step of the dispatcher: with one caller at a   *)
(* time engine.go keeps the promises of the registry although it lets go   *)
(* of its lock between the map, the cache and the pipeline.                *)
ImplementsRegistry == Reg!Spec
=============================================================================
