------------------------------ MODULE Scheduler ------------------------------
(***************************************************************************)
(* The strategy registry of the engine (scheduler/engine.go) with the      *)
(* parts of the candle pipeline and the indicator cache it drives          *)
(* (marketdata/pipeline.go listeners and dispatch, indicators/cache.go     *)
(* reference counts, strategy/runtime.go Subscribe and SetState).          *)
(*                                                                         *)
(* HTTP handlers and the monitors call the engine concurrently: a caller   *)
(* is one such goroutine, and it runs one call at a time.  Engine.mu is    *)
(* released between the parts of a call, so each locked part, each call    *)
(* into the cache or the pipeline and each SetState is a step of its own.  *)
(* The dispatcher is the single goroutine that hands a closed candle to    *)
(* the listeners it found when it started: a handler checks the run state  *)
(* first and writes orders and trades later.                               *)
(*                                                                         *)
(* A runtime is a number: RunStrategy makes a new object on every call.    *)
(* Names with a suffix are faulty variants of the definition before the    *)
(* underscore.                                                             *)
(***************************************************************************)
EXTENDS Integers, FiniteSets

CONSTANTS Strategies,
          Callers,
          MaxConcurrent,   \* Engine.maxConcurrent
          Keys,            \* indicator series
          KeysOf,          \* [Strategies -> SUBSET Keys], what a strategy reads
          Unknown,         \* series whose indicator the factory does not know
          MaxRuns          \* bound: RunStrategy calls that pass the check

NoRt == 0
Runtimes == 1 .. MaxRuns

ASSUME SchedulerAssumption ==
    /\ IsFiniteSet(Strategies) /\ IsFiniteSet(Callers) /\ Callers # {}
    /\ MaxConcurrent \in Nat \ {0} /\ MaxRuns \in Nat
    /\ KeysOf \in [Strategies -> SUBSET Keys] /\ Unknown \subseteq Keys

VARIABLES
    runtimes,     \* Engine.runtimes (NoRt: absent); listenerIDs has the same keys
    owner,        \* Runtime.Strategy of every runtime made so far
    made,         \* how many runtimes were made
    rtState,      \* Runtime.state
    listeners,    \* Pipeline.listeners, by the runtime they call
    refCount,     \* Cache.refCount
    instances,    \* Cache.instances
    call,         \* what each caller is in the middle of
    pending,      \* listeners the dispatcher has still to call for this candle
    handling,     \* the runtime whose handler passed the state check
    deleted       \* strategies deleted from storage with all their rows

vars == <<runtimes, owner, made, rtState, listeners, refCount, instances, call,
          pending, handling, deleted>>

Idle == [op |-> "none", at |-> "idle", strategy |-> "none", rt |-> NoRt]

Ops == {"run", "pause", "resume", "stop", "delete"}

Init ==
    /\ runtimes = [s \in Strategies |-> NoRt]
    /\ owner = [r \in Runtimes |-> "none"]
    /\ made = 0
    /\ rtState = [r \in Runtimes |-> "running"]
    /\ listeners = {}
    /\ refCount = [k \in Keys |-> 0]
    /\ instances = {}
    /\ call = [c \in Callers |-> Idle]
    /\ pending = {}
    /\ handling = NoRt
    /\ deleted = {}

Registered(s) == runtimes[s] # NoRt
Active == {s \in Strategies : Registered(s)}
At(c, op, at) == call[c].op = op /\ call[c].at = at
Goto(c, at) == call' = [call EXCEPT ![c].at = at]
Return(c) == call' = [call EXCEPT ![c] = Idle]

cacheVars == <<refCount, instances>>
dispatchVars == <<pending, handling, deleted>>
-----------------------------------------------------------------------------
(* RunStrategy                                                             *)

AtCap_OffByOne == Cardinality(Active) > MaxConcurrent
AtCap == Cardinality(Active) >= MaxConcurrent

(* startStrategy (server.go) loads the strategy before it calls the engine. *)
RunLoad(c, s) ==
    /\ call[c] = Idle
    /\ s \notin deleted /\ made < MaxRuns
    /\ call' = [call EXCEPT ![c] = [op |-> "run", at |-> "loaded", strategy |-> s, rt |-> NoRt]]
    /\ UNCHANGED <<runtimes, owner, made, rtState, listeners, cacheVars, dispatchVars>>

(* The locked check: already running and over the cap return at once.      *)
RunRefused(c) ==
    /\ At(c, "run", "loaded")
    /\ Registered(call[c].strategy) \/ AtCap \/ made = MaxRuns
    /\ Return(c)
    /\ UNCHANGED <<runtimes, owner, made, rtState, listeners, cacheVars, dispatchVars>>

RunCheck(c) ==
    /\ At(c, "run", "loaded")
    /\ ~Registered(call[c].strategy) /\ ~AtCap
    /\ made < MaxRuns
    /\ made' = made + 1
    /\ owner' = [owner EXCEPT ![made + 1] = call[c].strategy]
    /\ call' = [call EXCEPT ![c].at = "checked", ![c].rt = made + 1]
    /\ UNCHANGED <<runtimes, rtState, listeners, cacheVars, dispatchVars>>

Acquired(keys) ==
    /\ refCount' = [k \in Keys |-> IF k \in keys THEN refCount[k] + 1 ELSE refCount[k]]
    /\ instances' = instances \cup keys

(* rt.Subscribe: one reference for every series of the strategy.           *)
RunSubscribe(c) ==
    /\ At(c, "run", "checked")
    /\ KeysOf[call[c].strategy] \cap Unknown = {}
    /\ Acquired(KeysOf[call[c].strategy])
    /\ Goto(c, "subscribed")
    /\ UNCHANGED <<runtimes, owner, made, rtState, listeners, dispatchVars>>

(* The leaves come in the order of a Go map; the first one the factory     *)
(* rejects ends RunStrategy, which keeps the references it got before.     *)
(* Validation lets an unknown compare_to indicator through.                *)
RunSubscribeFails(c) ==
    /\ At(c, "run", "checked")
    /\ LET keys == KeysOf[call[c].strategy]
       IN  /\ keys \cap Unknown # {}
           /\ \E got \in SUBSET (keys \ Unknown) : Acquired(got)
    /\ Return(c)
    /\ UNCHANGED <<runtimes, owner, made, rtState, listeners, dispatchVars>>

Released_ByFirst(keys) ==
    /\ refCount' = [k \in Keys |-> IF k \in keys THEN refCount[k] - 1 ELSE refCount[k]]
    /\ instances' = instances \ keys

(* Runtime.Unsubscribe: the last reference frees the series.               *)
Released(keys) ==
    /\ refCount' = [k \in Keys |-> IF k \in keys THEN refCount[k] - 1 ELSE refCount[k]]
    /\ instances' = {k \in instances : k \notin keys \/ refCount[k] > 1}

RunFeedRefused_Keeps(c) ==
    /\ At(c, "run", "subscribed")
    /\ Return(c)
    /\ UNCHANGED <<runtimes, owner, made, rtState, listeners, cacheVars, dispatchVars>>

(* Pipeline.Subscribe fails: give the references back, return the error.   *)
RunFeedRefused(c) ==
    /\ At(c, "run", "subscribed")
    /\ Released(KeysOf[call[c].strategy])
    /\ Return(c)
    /\ UNCHANGED <<runtimes, owner, made, rtState, listeners, dispatchVars>>

(* Pipeline.Subscribe succeeds, then OnCandleClose registers the listener. *)
RunListen(c) ==
    /\ At(c, "run", "subscribed")
    /\ listeners' = listeners \cup {call[c].rt}
    /\ Goto(c, "listening")
    /\ UNCHANGED <<runtimes, owner, made, rtState, cacheVars, dispatchVars>>

(* The second locked part inserts without looking again.                   *)
RunInsert(c) ==
    /\ At(c, "run", "listening")
    /\ runtimes' = [runtimes EXCEPT ![call[c].strategy] = call[c].rt]
    /\ Return(c)
    /\ UNCHANGED <<owner, made, rtState, listeners, cacheVars, dispatchVars>>
-----------------------------------------------------------------------------
(* PauseStrategy, ResumeStrategy: Get, then SetState without the lock.     *)

ModeOf(op) == IF op = "pause" THEN "paused" ELSE "running"

GetRuntime(c, s, op) ==
    /\ call[c] = Idle
    /\ Registered(s)
    /\ call' = [call EXCEPT ![c] = [op |-> op, at |-> "got", strategy |-> s, rt |-> runtimes[s]]]
    /\ UNCHANGED <<runtimes, owner, made, rtState, listeners, cacheVars, dispatchVars>>

SetMode(c) ==
    /\ call[c].op \in {"pause", "resume"} /\ call[c].at = "got"
    /\ rtState' = [rtState EXCEPT ![call[c].rt] = ModeOf(call[c].op)]
    /\ Return(c)
    /\ UNCHANGED <<runtimes, owner, made, listeners, cacheVars, dispatchVars>>
-----------------------------------------------------------------------------
(* StopStrategy, and handleDelete, which stops and then deletes the rows.  *)

StopRemove_KeepsEntry(c, s, op) ==
    /\ call[c] = Idle
    /\ Registered(s)
    /\ call' = [call EXCEPT ![c] = [op |-> op, at |-> "removed", strategy |-> s, rt |-> runtimes[s]]]
    /\ UNCHANGED <<runtimes, owner, made, rtState, listeners, cacheVars, dispatchVars>>

(* Only one of several concurrent stops finds the runtime in the map.      *)
StopRemove(c, s, op) ==
    /\ call[c] = Idle
    /\ Registered(s)
    /\ runtimes' = [runtimes EXCEPT ![s] = NoRt]
    /\ call' = [call EXCEPT ![c] = [op |-> op, at |-> "removed", strategy |-> s, rt |-> runtimes[s]]]
    /\ UNCHANGED <<owner, made, rtState, listeners, cacheVars, dispatchVars>>

Stopping(c, at) == call[c].op \in {"stop", "delete"} /\ call[c].at = at

StopHalt(c) ==
    /\ Stopping(c, "removed")
    /\ rtState' = [rtState EXCEPT ![call[c].rt] = "stopped"]
    /\ Goto(c, "halted")
    /\ UNCHANGED <<runtimes, owner, made, listeners, cacheVars, dispatchVars>>

StopUnsubscribe(c) ==
    /\ Stopping(c, "halted")
    /\ Released(KeysOf[call[c].strategy])
    /\ Goto(c, "released")
    /\ UNCHANGED <<runtimes, owner, made, rtState, listeners, dispatchVars>>

StopUnlisten_Forgets(c) ==
    /\ Stopping(c, "released")
    /\ IF call[c].op = "stop" THEN Return(c) ELSE Goto(c, "stopped")
    /\ UNCHANGED <<runtimes, owner, made, rtState, listeners, cacheVars, dispatchVars>>

StopUnlisten(c) ==
    /\ Stopping(c, "released")
    /\ listeners' = listeners \ {call[c].rt}
    /\ IF call[c].op = "stop" THEN Return(c) ELSE Goto(c, "stopped")
    /\ UNCHANGED <<runtimes, owner, made, rtState, cacheVars, dispatchVars>>

(* A strategy that is not running has nothing to stop.                     *)
DeleteIdle(c, s) ==
    /\ call[c] = Idle
    /\ ~Registered(s) /\ s \notin deleted
    /\ call' = [call EXCEPT ![c] = [op |-> "delete", at |-> "stopped", strategy |-> s, rt |-> NoRt]]
    /\ UNCHANGED <<runtimes, owner, made, rtState, listeners, cacheVars, dispatchVars>>

DeleteStrategy(c) ==
    /\ At(c, "delete", "stopped")
    /\ deleted' = deleted \cup {call[c].strategy}
    /\ Return(c)
    /\ UNCHANGED <<runtimes, owner, made, rtState, listeners, cacheVars, pending, handling>>
-----------------------------------------------------------------------------
(* The dispatcher.                                                         *)

DispatchIdle == pending = {} /\ handling = NoRt

StartDispatch ==
    /\ DispatchIdle /\ listeners # {}
    /\ pending' = listeners
    /\ UNCHANGED <<runtimes, owner, made, rtState, listeners, cacheVars, call, handling, deleted>>

(* OnCandleClose of one listener, up to its check of the run state.        *)
EnterHandler(r) ==
    /\ handling = NoRt /\ r \in pending
    /\ pending' = pending \ {r}
    /\ handling' = IF rtState[r] = "stopped" THEN NoRt ELSE r
    /\ UNCHANGED <<runtimes, owner, made, rtState, listeners, cacheVars, call, deleted>>

(* The rest of it, which may place orders.                                 *)
LeaveHandler ==
    /\ handling # NoRt
    /\ handling' = NoRt
    /\ UNCHANGED <<runtimes, owner, made, rtState, listeners, cacheVars, call, pending, deleted>>

Step(c) ==
    \/ RunRefused(c) \/ RunCheck(c)
    \/ RunSubscribe(c) \/ RunSubscribeFails(c) \/ RunFeedRefused(c) \/ RunListen(c) \/ RunInsert(c)
    \/ SetMode(c)
    \/ StopHalt(c) \/ StopUnsubscribe(c) \/ StopUnlisten(c)
    \/ DeleteStrategy(c)

Request(c) ==
    \E s \in Strategies :
        \/ RunLoad(c, s)
        \/ \E op \in {"pause", "resume"} : GetRuntime(c, s, op)
        \/ \E op \in {"stop", "delete"} : StopRemove(c, s, op)
        \/ DeleteIdle(c, s)

Dispatch == StartDispatch \/ LeaveHandler \/ \E r \in Runtimes : EnterHandler(r)

Next == Dispatch \/ \E c \in Callers : Request(c) \/ Step(c)

(* A call in progress always goes on: none of its parts waits for another  *)
(* caller, and the dispatcher is a goroutine of its own.                   *)
Fairness == WF_vars(Dispatch) /\ \A c \in Callers : WF_vars(Step(c))

Spec == Init /\ [][Next]_vars
FairSpec == Spec /\ Fairness
-----------------------------------------------------------------------------
(* Properties                                                              *)

CallType ==
    [op : Ops, strategy : Strategies, rt : Runtimes \cup {NoRt},
     at : {"checked", "subscribed", "listening", "got", "removed", "halted", "released", "stopped", "loaded"}]

(* Every variable has its type; in particular no counter is negative.      *)
TypeOK ==
    /\ runtimes \in [Strategies -> Runtimes \cup {NoRt}]
    /\ owner \in [Runtimes -> Strategies \cup {"none"}]
    /\ made \in 0 .. MaxRuns
    /\ rtState \in [Runtimes -> {"running", "paused", "stopped"}]
    /\ listeners \subseteq Runtimes
    /\ refCount \in [Keys -> Nat]
    /\ instances \subseteq Keys
    /\ call \in [Callers -> CallType \cup {Idle}]
    /\ pending \subseteq Runtimes
    /\ handling \in Runtimes \cup {NoRt}
    /\ deleted \subseteq Strategies

(* Runs that passed the check and have not inserted their runtime yet.     *)
InFlight == {c \in Callers : call[c].op = "run" /\ call[c].at # "loaded"}

(* The cap of the concurrent strategies is exceeded by at most the number  *)
(* of callers that can be between the two locked parts of RunStrategy at   *)
(* the same time, less one; one caller at a time means it holds exactly.   *)
OvershootBounded == Cardinality(Active) <= MaxConcurrent + Cardinality(Callers) - 1

(* "Rejected outright at the cap" (engine.go RunStrategy; ENGINE_SPEC 0.6). *)
CapRespected == Cardinality(Active) <= MaxConcurrent

(* Stopping, refusing or replacing other strategies never frees a series   *)
(* that a registered strategy still reads, although the series are shared  *)
(* and the teardown runs outside the engine's lock (cache.go Unsubscribe). *)
RegisteredHasIndicators ==
    \A s \in Strategies : Registered(s) => KeysOf[s] \subseteq instances

(* A series exists exactly while somebody holds a reference to it.         *)
CacheExact == instances = {k \in Keys : refCount[k] > 0}

(* A listener whose runtime nobody can reach any more, because a second    *)
(* run of the same strategy replaced it in the registry.                   *)
Reachable(r) ==
    \/ \E s \in Strategies : runtimes[s] = r
    \/ \E c \in Callers : call[c].rt = r

(* Every listener belongs to a registered strategy or to a call that is    *)
(* about to register or remove it: "a stopped strategy's closure doesn't   *)
(* linger forever" (pipeline.go OnCandleClose).                            *)
NoOrphanListener == \A r \in listeners : Reachable(r)

(* A stop that removed a runtime from the registry ends with its listener  *)
(* gone, whatever the other callers and the dispatcher do.                 *)
StopCompletes ==
    \A c \in Callers, r \in Runtimes :
        (call[c].op \in {"stop", "delete"} /\ call[c].rt = r) ~> r \notin listeners
=============================================================================
