------------------------------ MODULE Registry ------------------------------
(***************************************************************************)
(* What the strategy registry (scheduler/engine.go) promises to a caller   *)
(* who makes one call at a time: every call takes effect at one moment.    *)
(*                                                                         *)
(* A run makes a new runtime; while it is installed every candle is handed *)
(* to it and to no other runtime of the strategy, and the indicator series *)
(* it reads are kept for exactly as long as somebody reads them.  A stop   *)
(* takes it out; a candle it has in hand is finished, the next one never   *)
(* reaches it.  A deleted strategy does not come back.                     *)
(***************************************************************************)
EXTENDS Integers, FiniteSets

CONSTANTS Strategies,
          Runtimes,        \* the runtimes there can be; None is not one
          MaxConcurrent,   \* Engine.maxConcurrent
          KeysOf           \* [Strategies -> set of series], what a strategy reads

None == 0

VARIABLES
    installed,    \* the runtime of each strategy (None: not running)
    mode,         \* what the installed runtimes do with a candle
    audience,     \* the runtimes a closed candle is handed to
    series,       \* the indicator series that are kept up to date
    busy,         \* the runtime that has a candle in hand
    deleted       \* strategies that are gone for good

vars == <<installed, mode, audience, series, busy, deleted>>

Init ==
    /\ installed = [s \in Strategies |-> None]
    /\ mode = [s \in Strategies |-> "absent"]
    /\ audience = {} /\ series = {}
    /\ busy = None
    /\ deleted = {}

Installed == {s \in Strategies : installed[s] # None}

(* Listeners and series follow what is installed, in the same step.        *)
Follow ==
    /\ audience' = {installed'[s] : s \in Installed'}
    /\ series' = UNION {KeysOf[s] : s \in Installed'}

(* RunStrategy: not while it is running, nor over the cap.                 *)
Run(s, r) ==
    /\ installed[s] = None /\ s \notin deleted
    /\ Cardinality(Installed) < MaxConcurrent
    /\ r \notin audience \cup {busy}
    /\ installed' = [installed EXCEPT ![s] = r]
    /\ mode' = [mode EXCEPT ![s] = "running"]
    /\ Follow
    /\ UNCHANGED <<busy, deleted>>

(* PauseStrategy, ResumeStrategy: an open trade is managed in either mode. *)
SetMode(s, m) ==
    /\ installed[s] # None
    /\ mode' = [mode EXCEPT ![s] = m]
    /\ UNCHANGED <<installed, audience, series, busy, deleted>>

(* StopStrategy.                                                           *)
Stop(s) ==
    /\ installed[s] # None
    /\ installed' = [installed EXCEPT ![s] = None]
    /\ mode' = [mode EXCEPT ![s] = "absent"]
    /\ Follow
    /\ UNCHANGED <<busy, deleted>>

Delete(s) ==
    /\ installed[s] = None
    /\ deleted' = deleted \cup {s}
    /\ UNCHANGED <<installed, mode, audience, series, busy>>

(* One runtime of the audience takes a candle in hand, and finishes it.    *)
TakeCandle(r) ==
    /\ busy = None /\ r \in audience
    /\ busy' = r
    /\ UNCHANGED <<installed, mode, audience, series, deleted>>

FinishCandle ==
    /\ busy # None
    /\ busy' = None
    /\ UNCHANGED <<installed, mode, audience, series, deleted>>

Call(s) ==
    \/ \E r \in Runtimes : Run(s, r)
    \/ \E m \in {"running", "paused"} : SetMode(s, m)
    \/ Stop(s) \/ Delete(s)

Next ==
    \/ \E s \in Strategies : Call(s)
    \/ \E r \in Runtimes : TakeCandle(r)
    \/ FinishCandle

Spec == Init /\ [][Next]_vars
=============================================================================
