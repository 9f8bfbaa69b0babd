-------------------------- MODULE Scheduler_proofs --------------------------
(***************************************************************************)
(* How far concurrent RunStrategy calls can exceed the concurrency cap,    *)
(* and that the indicator series and the registry agree, for any number of *)
(* strategies, callers and series; and that with one caller and known      *)
(* indicators Scheduler implements Registry.                               *)
(***************************************************************************)
EXTENDS SchedulerRefinement, FiniteSetTheorems, TLAPS

(* Every run that passed the check was counted when at most                *)
(* MaxConcurrent - 1 strategies were active, and a caller is in one run at *)
(* a time: the registered strategies and the runs under way together never *)
(* exceed that many plus one per caller.                                   *)
SlotInv ==
    /\ call \in [Callers -> CallType \cup {Idle}]
    /\ DOMAIN runtimes = Strategies /\ made \in 0 .. MaxRuns
    /\ Cardinality(Active) + Cardinality(InFlight) <= MaxConcurrent + Cardinality(Callers) - 1

LEMMA SetsFinite ==
    /\ IsFiniteSet(Active) /\ Cardinality(Active) \in Nat
    /\ IsFiniteSet(InFlight) /\ Cardinality(InFlight) \in Nat
    /\ Cardinality(Callers) \in Nat \ {0} /\ Cardinality(InFlight) <= Cardinality(Callers)
<1>1. Active \subseteq Strategies /\ InFlight \subseteq Callers
  BY DEF Active, InFlight
<1>2. IsFiniteSet(Strategies) /\ IsFiniteSet(Callers) /\ Callers # {}
  BY SchedulerAssumption
<1>3. IsFiniteSet(Active) /\ IsFiniteSet(InFlight) /\ Cardinality(InFlight) <= Cardinality(Callers)
  BY <1>1, <1>2, FS_Subset
<1>4. Cardinality(Callers) # 0
  BY <1>2, FS_EmptySet
<1> QED
  BY <1>2, <1>3, <1>4, FS_CardinalityType

(* A step that neither registers a strategy nor starts a run.              *)
LEMMA ShrinkingStep ==
    ASSUME SlotInv, Active' \subseteq Active, InFlight' \subseteq InFlight
    PROVE  Cardinality(Active)' + Cardinality(InFlight)' <= MaxConcurrent + Cardinality(Callers) - 1
<1>1. Cardinality(Active') <= Cardinality(Active) /\ Cardinality(InFlight') <= Cardinality(InFlight)
  BY SetsFinite, FS_Subset
<1>2. Cardinality(Active') \in Nat /\ Cardinality(InFlight') \in Nat
  BY SetsFinite, FS_Subset, FS_CardinalityType
<1> QED
  BY <1>1, <1>2, SetsFinite, SchedulerAssumption DEF SlotInv

LEMMA CheckKeepsSlots ==
    ASSUME SlotInv, NEW c \in Callers, RunCheck(c)
    PROVE  SlotInv'
<1>1. call[c] \in CallType /\ call[c].op = "run"
  BY DEF RunCheck, At, Idle, SlotInv
<1>2. call' \in [Callers -> CallType \cup {Idle}] /\ made' \in 0 .. MaxRuns
  <2>1. made + 1 \in Runtimes
    BY SchedulerAssumption DEF RunCheck, SlotInv, Runtimes
  <2>2. [call[c] EXCEPT !.at = "checked", !.rt = made + 1] \in CallType
    BY <1>1, <2>1 DEF CallType
  <2> QED
    BY <2>1, <2>2 DEF RunCheck, SlotInv, Runtimes
<1>3. Active' = Active /\ DOMAIN runtimes' = Strategies
  BY DEF RunCheck, Active, Registered, SlotInv
<1>4. Cardinality(Active) < MaxConcurrent
  BY SetsFinite, SchedulerAssumption DEF RunCheck, AtCap
<1>5. Cardinality(InFlight') \in Nat /\ Cardinality(InFlight') <= Cardinality(Callers)
  <2>1. InFlight' \subseteq Callers
    BY DEF InFlight
  <2> QED
    BY <2>1, SchedulerAssumption, FS_Subset, FS_CardinalityType
<1> QED
  BY <1>2, <1>3, <1>4, <1>5, SetsFinite, SchedulerAssumption DEF SlotInv

LEMMA InsertKeepsSlots ==
    ASSUME SlotInv, NEW c \in Callers, RunInsert(c)
    PROVE  SlotInv'
<1>1. c \in InFlight
  BY DEF RunInsert, At, InFlight
<1>2. InFlight' = InFlight \ {c}
  BY DEF RunInsert, Return, InFlight, SlotInv, Idle
<1>3. Cardinality(InFlight') = Cardinality(InFlight) - 1
  BY <1>1, <1>2, SetsFinite, FS_RemoveElement
<1>4. Cardinality(Active') \in Nat /\ Cardinality(Active') <= Cardinality(Active) + 1
  <2> DEFINE s == call[c].strategy
  <2>1. Active' \subseteq Active \cup {s}
    BY DEF RunInsert, Active, Registered, SlotInv
  <2> HIDE DEF s
  <2>2. IsFiniteSet(Active \cup {s}) /\ Cardinality(Active \cup {s}) <= Cardinality(Active) + 1
    <3> DEFINE more == Active \cup {s}
    <3>1. CASE s \in Active
      <4>1. more = Active
        BY <3>1
      <4> HIDE DEF more
      <4>2. IsFiniteSet(more) /\ Cardinality(more) <= Cardinality(Active) + 1
        BY <4>1, SetsFinite
      <4> QED
        BY <4>2 DEF more
    <3>2. CASE s \notin Active
      <4>1. IsFiniteSet(more) /\ Cardinality(more) = Cardinality(Active) + 1
        BY <3>2, SetsFinite, FS_AddElement, Zenon
      <4> HIDE DEF more
      <4>2. IsFiniteSet(more) /\ Cardinality(more) <= Cardinality(Active) + 1
        BY <4>1, SetsFinite
      <4> QED
        BY <4>2 DEF more
    <3> QED
      BY <3>1, <3>2
  <2> QED
    BY <2>1, <2>2, SetsFinite, FS_Subset, FS_CardinalityType
<1>5. call' \in [Callers -> CallType \cup {Idle}] /\ DOMAIN runtimes' = Strategies /\ made' = made
  BY DEF RunInsert, Return, SlotInv
<1> QED
  BY <1>3, <1>4, <1>5, SetsFinite, SchedulerAssumption DEF SlotInv

(* A call that moves on within itself, or starts as anything but a run     *)
(* that passed the check, leaves the runs under way as they are.           *)
LEMMA OtherStepKeepsSlots ==
    ASSUME SlotInv, made' = made, call' \in [Callers -> CallType \cup {Idle}],
           DOMAIN runtimes' = Strategies, Active' \subseteq Active, InFlight' \subseteq InFlight
    PROVE  SlotInv'
  BY ShrinkingStep DEF SlotInv

LEMMA GotoKeepsCalls ==
    ASSUME SlotInv, NEW c \in Callers, call[c] # Idle,
           NEW at \in {"checked", "subscribed", "listening", "got", "removed", "halted", "released", "stopped"},
           Goto(c, at), call[c].at # "loaded"
    PROVE  call' \in [Callers -> CallType \cup {Idle}] /\ InFlight' = InFlight
<1>1. call[c] \in CallType
  BY DEF SlotInv
<1>2. [call[c] EXCEPT !.at = at] \in CallType /\ [call[c] EXCEPT !.at = at].op = call[c].op
  BY <1>1 DEF CallType
<1>3. call' = [call EXCEPT ![c] = [call[c] EXCEPT !.at = at]]
  BY DEF Goto, SlotInv
<1> QED
  BY <1>1, <1>2, <1>3 DEF InFlight, SlotInv, CallType

LEMMA ReturnKeepsCalls ==
    ASSUME SlotInv, NEW c \in Callers, Return(c)
    PROVE  call' \in [Callers -> CallType \cup {Idle}] /\ InFlight' \subseteq InFlight
  BY DEF Return, InFlight, SlotInv, Idle

(* A caller that was idle begins a call of its own.                        *)
LEMMA BeginKeepsCalls ==
    ASSUME SlotInv, NEW c \in Callers, NEW new \in CallType,
           call' = [call EXCEPT ![c] = new], new.op # "run" \/ new.at = "loaded"
    PROVE  call' \in [Callers -> CallType \cup {Idle}] /\ InFlight' \subseteq InFlight
  BY DEF InFlight, SlotInv

LEMMA NextKeepsSlots ==
    ASSUME SlotInv, [Next]_vars, runtimes \in [Strategies -> Runtimes \cup {NoRt}]
    PROVE  SlotInv' /\ runtimes' \in [Strategies -> Runtimes \cup {NoRt}]
<1> DEFINE Typed == runtimes' \in [Strategies -> Runtimes \cup {NoRt}]
<1>1. ASSUME NEW c \in Callers, Step(c) PROVE SlotInv' /\ Typed
  <2>1. CASE RunCheck(c)
    BY <2>1, CheckKeepsSlots DEF RunCheck
  <2>2. CASE RunInsert(c)
    <3>1. call[c] \in CallType
      BY <2>2 DEF RunInsert, At, SlotInv, Idle
    <3> QED
      BY <2>2, <3>1, InsertKeepsSlots DEF RunInsert, CallType
  <2>3. CASE RunRefused(c) \/ RunSubscribeFails(c) \/ RunFeedRefused(c) \/ SetMode(c) \/ DeleteStrategy(c)
    <3>1. Return(c) /\ runtimes' = runtimes /\ made' = made
      BY <2>3 DEF RunRefused, RunSubscribeFails, RunFeedRefused, SetMode, DeleteStrategy
    <3>2. Active' = Active
      BY <3>1 DEF Active, Registered
    <3> QED
      BY <3>1, <3>2, ReturnKeepsCalls, OtherStepKeepsSlots DEF SlotInv
  <2>4. CASE RunSubscribe(c) \/ RunListen(c) \/ StopHalt(c) \/ StopUnsubscribe(c)
    <3>1. /\ \E at \in {"subscribed", "listening", "halted", "released"} : Goto(c, at)
          /\ call[c] # Idle /\ call[c].at # "loaded"
          /\ runtimes' = runtimes /\ made' = made
      BY <2>4 DEF RunSubscribe, RunListen, StopHalt, StopUnsubscribe, At, Stopping, Idle
    <3>2. Active' = Active
      BY <3>1 DEF Active, Registered
    <3> QED
      BY <3>1, <3>2, GotoKeepsCalls, OtherStepKeepsSlots DEF SlotInv
  <2>5. CASE StopUnlisten(c)
    <3>1. /\ Return(c) \/ Goto(c, "stopped")
          /\ call[c] # Idle /\ call[c].at # "loaded"
          /\ runtimes' = runtimes /\ made' = made
      BY <2>5 DEF StopUnlisten, Stopping, Idle
    <3>2. Active' = Active
      BY <3>1 DEF Active, Registered
    <3> QED
      BY <3>1, <3>2, GotoKeepsCalls, ReturnKeepsCalls, OtherStepKeepsSlots DEF SlotInv
  <2> QED
    BY <1>1, <2>1, <2>2, <2>3, <2>4, <2>5 DEF Step
<1>2. ASSUME NEW c \in Callers, Request(c) PROVE SlotInv' /\ Typed
  <2>1. PICK s \in Strategies :
          \/ RunLoad(c, s)
          \/ \E op \in {"pause", "resume"} : GetRuntime(c, s, op)
          \/ \E op \in {"stop", "delete"} : StopRemove(c, s, op)
          \/ DeleteIdle(c, s)
    BY <1>2 DEF Request
  <2>2. runtimes[s] \in Runtimes \cup {NoRt} /\ NoRt \notin Runtimes
    BY DEF Runtimes, NoRt
  <2>3. \E new \in CallType : call' = [call EXCEPT ![c] = new] /\ (new.op # "run" \/ new.at = "loaded")
    <3> DEFINE begun(op, at, rt) == [op |-> op, at |-> at, strategy |-> s, rt |-> rt]
    <3>1. CASE RunLoad(c, s)
      <4>1. begun("run", "loaded", NoRt) \in CallType /\ begun("run", "loaded", NoRt).at = "loaded"
        BY DEF CallType, Ops
      <4> QED
        BY <3>1, <4>1 DEF RunLoad
    <3>2. ASSUME NEW op \in {"pause", "resume"}, GetRuntime(c, s, op)
          PROVE  \E new \in CallType : call' = [call EXCEPT ![c] = new] /\ new.op # "run"
      <4>1. begun(op, "got", runtimes[s]) \in CallType /\ begun(op, "got", runtimes[s]).op # "run"
        BY <2>2 DEF CallType, Ops
      <4> QED
        BY <3>2, <4>1 DEF GetRuntime
    <3>3. ASSUME NEW op \in {"stop", "delete"}, StopRemove(c, s, op)
          PROVE  \E new \in CallType : call' = [call EXCEPT ![c] = new] /\ new.op # "run"
      <4>1. begun(op, "removed", runtimes[s]) \in CallType /\ begun(op, "removed", runtimes[s]).op # "run"
        BY <2>2 DEF CallType, Ops
      <4> QED
        BY <3>3, <4>1 DEF StopRemove
    <3>4. CASE DeleteIdle(c, s)
      <4>1. begun("delete", "stopped", NoRt) \in CallType /\ begun("delete", "stopped", NoRt).op # "run"
        BY DEF CallType, Ops
      <4> QED
        BY <3>4, <4>1 DEF DeleteIdle
    <3> QED
      BY <2>1, <3>1, <3>2, <3>3, <3>4
  <2>4. /\ runtimes' = runtimes \/ runtimes' = [runtimes EXCEPT ![s] = NoRt]
        /\ made' = made
    BY <2>1 DEF RunLoad, GetRuntime, StopRemove, DeleteIdle
  <2>5. Active' \subseteq Active /\ Typed
    BY <2>4 DEF Active, Registered
  <2> QED
    BY <2>3, <2>4, <2>5, BeginKeepsCalls, OtherStepKeepsSlots
<1>3. CASE Dispatch \/ UNCHANGED vars
  <2>1. runtimes' = runtimes /\ call' = call /\ made' = made
    BY <1>3 DEF Dispatch, StartDispatch, EnterHandler, LeaveHandler, vars
  <2> QED
    BY <2>1 DEF SlotInv, Active, Registered, InFlight
<1> QED
  BY <1>1, <1>2, <1>3 DEF Next

LEMMA InitSlots == Init => SlotInv /\ runtimes \in [Strategies -> Runtimes \cup {NoRt}]
<1> SUFFICES ASSUME Init PROVE SlotInv /\ runtimes \in [Strategies -> Runtimes \cup {NoRt}]
  OBVIOUS
<1>1. Active = {} /\ InFlight = {}
  BY DEF Init, Active, Registered, InFlight, Idle
<1>2. Cardinality(Active) = 0 /\ Cardinality(InFlight) = 0
  BY <1>1, FS_EmptySet
<1> QED
  BY <1>2, SetsFinite, SchedulerAssumption DEF Init, SlotInv, NoRt

(* However many callers race, RunStrategy registers at most one strategy   *)
(* per caller more than the cap, less one (engine.go: the cap is checked   *)
(* in one locked part and the runtime is inserted in another).             *)
THEOREM Overshoot == Spec => []OvershootBounded
<1> DEFINE Typed == runtimes \in [Strategies -> Runtimes \cup {NoRt}]
<1>1. SlotInv /\ Typed /\ [Next]_vars => SlotInv' /\ Typed'
  BY NextKeepsSlots
<1>2. SlotInv => OvershootBounded
  BY SetsFinite, SchedulerAssumption DEF SlotInv, OvershootBounded
<1> QED
  BY <1>1, <1>2, InitSlots, PTL DEF Spec

(* With a single caller the check and the insertion are as good as one     *)
(* step, and the cap holds exactly.                                        *)
THEOREM SerialCap ==
    ASSUME Cardinality(Callers) = 1
    PROVE  Spec => []CapRespected
<1>1. OvershootBounded => CapRespected
  BY SetsFinite, SchedulerAssumption DEF OvershootBounded, CapRespected
<1> QED
  BY <1>1, Overshoot, PTL
-----------------------------------------------------------------------------
(* The indicator series and the registry: no count below zero, a series    *)
(* exists exactly while it is counted, and none that a registered strategy *)
(* reads is ever freed.                                                    *)

(* A call that holds the references of its runtime itself, because the     *)
(* runtime is not in the map yet or not any more.                          *)
Holds(x) ==
    \/ x.op = "run" /\ x.at \in {"subscribed", "listening"}
    \/ x.op \in {"stop", "delete"} /\ x.at \in {"removed", "halted"}

(* A call whose runtime nobody else can get at.                            *)
Owns(x) == Holds(x) \/ (x.op = "run" /\ x.at = "checked")

(* The runtimes that hold references, each exactly once.                   *)
Held ==
    {r \in Runtimes : \/ \E s \in Strategies : runtimes[s] = r
                      \/ \E c \in Callers : Holds(call[c]) /\ call[c].rt = r}

HeldFor(k) == {r \in Held : k \in KeysOf[owner[r]]}

(* A runtime is of one strategy and in one place.                          *)
OwnInv ==
    /\ \A s \in Strategies : runtimes[s] <= made /\ (Registered(s) => owner[runtimes[s]] = s)
    /\ \A c \in Callers : call[c].rt <= made
    /\ \A c \in Callers : Owns(call[c]) =>
           /\ call[c].rt # NoRt /\ owner[call[c].rt] = call[c].strategy
           /\ \A s \in Strategies : runtimes[s] # call[c].rt
    /\ \A c, d \in Callers : Owns(call[c]) /\ Owns(call[d]) /\ call[c].rt = call[d].rt => c = d

(* References may leak, to a runtime that was replaced in the map or a run *)
(* that failed half way; they are never too few.                           *)
Counted == \A k \in Keys : refCount[k] >= Cardinality(HeldFor(k))

CacheInv == TypeOK /\ OwnInv /\ Counted /\ CacheExact
-----------------------------------------------------------------------------
(* Counting                                                                *)

LEMMA HeldFinite ==
    ASSUME NEW k
    PROVE  /\ IsFiniteSet(HeldFor(k)) /\ Cardinality(HeldFor(k)) \in Nat
           /\ IsFiniteSet(HeldFor(k)') /\ Cardinality(HeldFor(k)') \in Nat
<1>1. IsFiniteSet(Runtimes)
  BY SchedulerAssumption, FS_Interval DEF Runtimes
<1>2. HeldFor(k) \subseteq Runtimes /\ HeldFor(k)' \subseteq Runtimes
  BY DEF HeldFor, Held
<1> QED
  BY <1>1, <1>2, FS_Subset, FS_CardinalityType

(* Whoever held references and no longer does makes room.                  *)
LEMMA FewerHeld ==
    ASSUME Counted, TypeOK, \A k \in Keys : refCount'[k] \in Nat /\ refCount'[k] >= refCount[k],
           \A k \in Keys : HeldFor(k)' \subseteq HeldFor(k)
    PROVE  Counted'
<1> SUFFICES ASSUME NEW k \in Keys PROVE refCount'[k] >= Cardinality(HeldFor(k)')
  BY DEF Counted
<1>1. Cardinality(HeldFor(k)') <= Cardinality(HeldFor(k))
  BY HeldFinite, FS_Subset
<1>2. refCount[k] >= Cardinality(HeldFor(k)) /\ refCount[k] \in Nat
  BY DEF Counted, TypeOK
<1> QED
  BY <1>1, <1>2, HeldFinite

(* Acquiring gives one reference more for every series of the runtime that *)
(* now holds them.                                                         *)
LEMMA AcquireCounts ==
    ASSUME Counted, CacheExact, TypeOK, NEW r, NEW keys, keys \subseteq Keys,
           Acquired(keys),
           \A k \in keys : HeldFor(k)' \subseteq HeldFor(k) \cup {r},
           \A k \in Keys \ keys : HeldFor(k)' \subseteq HeldFor(k)
    PROVE  /\ Counted' /\ CacheExact'
           /\ refCount' \in [Keys -> Nat] /\ instances' \subseteq Keys
<1>1. refCount' \in [Keys -> Nat] /\ instances' \subseteq Keys
  BY DEF Acquired, TypeOK
<1>2. CacheExact'
  BY <1>1 DEF Acquired, TypeOK, CacheExact
<1>3. ASSUME NEW k \in Keys PROVE refCount'[k] >= Cardinality(HeldFor(k)')
  <2>1. refCount[k] >= Cardinality(HeldFor(k)) /\ refCount[k] \in Nat
    BY DEF Counted, TypeOK
  <2>2. CASE k \in keys
    <3> DEFINE more == HeldFor(k) \cup {r}
    <3>1. IsFiniteSet(more) /\ Cardinality(more) <= Cardinality(HeldFor(k)) + 1
      <4>1. CASE r \in HeldFor(k)
        <5>1. more = HeldFor(k)
          BY <4>1
        <5> HIDE DEF more
        <5> QED
          BY <5>1, HeldFinite
      <4>2. CASE r \notin HeldFor(k)
        <5>1. IsFiniteSet(more) /\ Cardinality(more) = Cardinality(HeldFor(k)) + 1
          BY <4>2, HeldFinite, FS_AddElement, Zenon
        <5> HIDE DEF more
        <5> QED
          BY <5>1, HeldFinite
      <4> QED
        BY <4>1, <4>2
    <3>2. HeldFor(k)' \subseteq more
      BY <2>2
    <3> HIDE DEF more
    <3>3. Cardinality(HeldFor(k)') <= Cardinality(more) /\ Cardinality(more) \in Nat
      BY <3>1, <3>2, FS_Subset, FS_CardinalityType
    <3>4. refCount'[k] = refCount[k] + 1
      BY <2>2 DEF Acquired
    <3> QED
      BY <2>1, <3>1, <3>3, <3>4, HeldFinite
  <2>3. CASE k \notin keys
    <3>1. Cardinality(HeldFor(k)') <= Cardinality(HeldFor(k))
      BY <2>3, HeldFinite, FS_Subset
    <3>2. refCount'[k] = refCount[k]
      BY <2>3 DEF Acquired
    <3> QED
      BY <2>1, <3>1, <3>2, HeldFinite
  <2> QED
    BY <2>2, <2>3
<1> QED
  BY <1>1, <1>2, <1>3 DEF Counted

(* Releasing takes back what the runtime held and nothing else.            *)
LEMMA ReleaseCounts ==
    ASSUME Counted, CacheExact, TypeOK, NEW r, NEW keys, keys \subseteq Keys,
           Released(keys),
           \A k \in keys : r \in HeldFor(k) /\ HeldFor(k)' \subseteq HeldFor(k) \ {r},
           \A k \in Keys \ keys : HeldFor(k)' \subseteq HeldFor(k)
    PROVE  /\ Counted' /\ CacheExact'
           /\ refCount' \in [Keys -> Nat] /\ instances' \subseteq Keys
<1>1. ASSUME NEW k \in keys
      PROVE  refCount[k] \in Nat /\ refCount[k] >= 1 /\ refCount'[k] = refCount[k] - 1
             /\ refCount'[k] >= Cardinality(HeldFor(k)')
  <2>1. refCount[k] \in Nat /\ refCount[k] >= Cardinality(HeldFor(k))
    BY DEF Counted, TypeOK
  <2> DEFINE fewer == HeldFor(k) \ {r}
  <2>2. IsFiniteSet(fewer) /\ Cardinality(fewer) = Cardinality(HeldFor(k)) - 1
    BY HeldFinite, FS_RemoveElement, Zenon
  <2>3. HeldFor(k)' \subseteq fewer
    OBVIOUS
  <2> HIDE DEF fewer
  <2>4. Cardinality(HeldFor(k)') <= Cardinality(fewer) /\ Cardinality(fewer) \in Nat
    BY <2>2, <2>3, FS_Subset, FS_CardinalityType
  <2>5. refCount'[k] = refCount[k] - 1
    BY DEF Released
  <2> QED
    BY <2>1, <2>2, <2>4, <2>5, HeldFinite
<1>2. ASSUME NEW k \in Keys \ keys
      PROVE  refCount[k] \in Nat /\ refCount'[k] = refCount[k] /\ refCount'[k] >= Cardinality(HeldFor(k)')
  <2>1. refCount[k] \in Nat /\ refCount[k] >= Cardinality(HeldFor(k)) /\ refCount'[k] = refCount[k]
    BY DEF Counted, TypeOK, Released
  <2>2. Cardinality(HeldFor(k)') <= Cardinality(HeldFor(k))
    BY HeldFinite, FS_Subset
  <2> QED
    BY <2>1, <2>2, HeldFinite
<1>3. refCount' \in [Keys -> Nat] /\ instances' \subseteq Keys
  <2>1. ASSUME NEW k \in Keys PROVE refCount'[k] \in Nat
    BY <1>1, <1>2
  <2>2. refCount' = [k \in Keys |-> refCount'[k]]
    BY DEF Released
  <2>3. instances' \subseteq Keys
    BY DEF Released, TypeOK
  <2> QED
    BY <2>1, <2>2, <2>3
<1>4. CacheExact'
  BY <1>1, <1>2, <1>3 DEF Released, CacheExact
<1> QED
  BY <1>1, <1>2, <1>3, <1>4 DEF Counted
-----------------------------------------------------------------------------
(* What a step does to the calls                                           *)

LEMMA CallUpdated ==
    ASSUME TypeOK, NEW c \in Callers, NEW new \in CallType \cup {Idle},
           call' = [call EXCEPT ![c] = new]
    PROVE  /\ call' \in [Callers -> CallType \cup {Idle}]
           /\ call'[c] = new
           /\ \A d \in Callers : d # c => call'[d] = call[d]
  BY DEF TypeOK

(* A call that gains no runtime of its own.                                *)
LEMMA OwnFrame ==
    ASSUME TypeOK, OwnInv, NEW c \in Callers, NEW new \in CallType \cup {Idle},
           call' = [call EXCEPT ![c] = new], new.rt <= made,
           Owns(new) => Owns(call[c]) /\ new.rt = call[c].rt /\ new.strategy = call[c].strategy,
           UNCHANGED <<runtimes, owner, made>>
    PROVE  OwnInv'
<1>1. call'[c] = new /\ \A d \in Callers : d # c => call'[d] = call[d]
  BY CallUpdated
<1>2. \A d \in Callers : Owns(call'[d]) =>
        Owns(call[d]) /\ call'[d].rt = call[d].rt /\ call'[d].strategy = call[d].strategy
  BY <1>1
<1>3. \A d \in Callers : call'[d].rt <= made'
  BY <1>1 DEF OwnInv
<1>4. \A s \in Strategies : runtimes'[s] <= made' /\ (Registered(s)' => owner'[runtimes'[s]] = s)
  BY DEF OwnInv, Registered
<1>5. \A d \in Callers : Owns(call'[d]) =>
        /\ call'[d].rt # NoRt /\ owner'[call'[d].rt] = call'[d].strategy
        /\ \A s \in Strategies : runtimes'[s] # call'[d].rt
  BY <1>2 DEF OwnInv
<1>6. \A d, e \in Callers : Owns(call'[d]) /\ Owns(call'[e]) /\ call'[d].rt = call'[e].rt => d = e
  BY <1>2 DEF OwnInv
<1> QED
  BY <1>3, <1>4, <1>5, <1>6 DEF OwnInv, Owns, Holds

(* A call that takes no references leaves at most those that were held.    *)
LEMMA HeldFrame ==
    ASSUME TypeOK, NEW c \in Callers, NEW new \in CallType \cup {Idle},
           call' = [call EXCEPT ![c] = new],
           Holds(new) => Holds(call[c]) /\ new.rt = call[c].rt,
           UNCHANGED <<runtimes, owner>>
    PROVE  \A k : HeldFor(k)' \subseteq HeldFor(k)
<1>1. call'[c] = new /\ \A d \in Callers : d # c => call'[d] = call[d]
  BY CallUpdated
<1>2. \A d \in Callers : Holds(call'[d]) => Holds(call[d]) /\ call'[d].rt = call[d].rt
  BY <1>1
<1>3. Held' \subseteq Held
  BY <1>2 DEF Held, Holds
<1> QED
  BY <1>3 DEF HeldFor

LEMMA CallTyped ==
    ASSUME TypeOK, NEW c \in Callers, call[c].op # "none"
    PROVE  call[c] \in CallType /\ call[c] # Idle
<1>1. call[c] # Idle
  BY DEF Idle
<1> QED
  BY <1>1 DEF TypeOK

(* A call under way has its type; where it goes next keeps what it is.     *)
LEMMA AtType ==
    ASSUME TypeOK, NEW c \in Callers, call[c] # Idle
    PROVE  /\ call[c] \in CallType
           /\ \A at \in {"checked", "subscribed", "listening", "got", "removed", "halted", "released", "stopped"} :
                 LET new == [call[c] EXCEPT !.at = at]
                 IN  /\ new \in CallType /\ new.op = call[c].op /\ new.rt = call[c].rt
                     /\ new.strategy = call[c].strategy /\ new.at = at
                     /\ [call EXCEPT ![c].at = at] = [call EXCEPT ![c] = new]
<1>1. call[c] \in CallType
  BY DEF TypeOK
<1> QED
  BY <1>1 DEF CallType

LEMMA IdleFacts == ~Owns(Idle) /\ ~Holds(Idle) /\ Idle.rt = NoRt /\ NoRt <= 0
  BY DEF Owns, Holds, Idle, NoRt
-----------------------------------------------------------------------------
(* One lemma for the steps that touch neither the map nor the references,  *)
(* and one for every step that does.                                       *)

OthersTyped ==
    /\ rtState \in [Runtimes -> {"running", "paused", "stopped"}]
    /\ listeners \subseteq Runtimes /\ pending \subseteq Runtimes
    /\ handling \in Runtimes \cup {NoRt} /\ deleted \subseteq Strategies

LEMMA QuietStep ==
    ASSUME CacheInv, NEW c \in Callers, NEW new \in CallType \cup {Idle},
           call' = [call EXCEPT ![c] = new], new.rt <= made,
           Owns(new) => Owns(call[c]) /\ new.rt = call[c].rt /\ new.strategy = call[c].strategy,
           Holds(new) => Holds(call[c]),
           UNCHANGED <<runtimes, owner, made, refCount, instances>>, OthersTyped'
    PROVE  CacheInv'
<1>1. OwnInv'
  BY OwnFrame DEF CacheInv
<1>2. TypeOK'
  BY CallUpdated DEF TypeOK, OthersTyped, CacheInv
<1>3. \A k : HeldFor(k)' \subseteq HeldFor(k)
  BY HeldFrame DEF CacheInv, Owns
<1>4. \A k \in Keys : refCount'[k] \in Nat /\ refCount'[k] >= refCount[k]
  BY DEF CacheInv, TypeOK
<1>5. Counted'
  BY <1>3, <1>4, FewerHeld DEF CacheInv
<1>6. CacheExact'
  BY DEF CacheInv, CacheExact
<1> QED
  BY <1>1, <1>2, <1>5, <1>6 DEF CacheInv

LEMMA ReturnQuietly ==
    ASSUME CacheInv, NEW c \in Callers, Return(c),
           UNCHANGED <<runtimes, owner, made, refCount, instances>>, OthersTyped'
    PROVE  CacheInv'
<1>1. NoRt <= made
  BY SchedulerAssumption DEF CacheInv, TypeOK, NoRt
<1> QED
  BY <1>1, QuietStep, IdleFacts DEF Return

LEMMA GotoQuietly ==
    ASSUME CacheInv, NEW c \in Callers, call[c] # Idle,
           NEW at \in {"checked", "subscribed", "listening", "got", "removed", "halted", "released", "stopped"},
           Goto(c, at),
           \/ call[c].op = "run" /\ call[c].at = "subscribed" /\ at = "listening"
           \/ call[c].op \in {"stop", "delete"} /\ call[c].at = "removed" /\ at = "halted"
           \/ call[c].op \in {"stop", "delete"} /\ at \in {"released", "stopped"},
           UNCHANGED <<runtimes, owner, made, refCount, instances>>, OthersTyped'
    PROVE  CacheInv'
<1> DEFINE new == [call[c] EXCEPT !.at = at]
<1>1. /\ new \in CallType /\ new.op = call[c].op /\ new.rt = call[c].rt
      /\ new.strategy = call[c].strategy /\ new.at = at
      /\ call' = [call EXCEPT ![c] = new]
  BY AtType, ZenonT(60) DEF CacheInv, Goto
<1> HIDE DEF new
<1>2. new.rt <= made
  BY <1>1 DEF CacheInv, OwnInv
<1>3. /\ Owns(new) => Owns(call[c])
      /\ Holds(new) => Holds(call[c])
  BY <1>1 DEF Owns, Holds
<1> QED
  BY <1>1, <1>2, <1>3, QuietStep

(* What is held by a caller is held for every series of its strategy.      *)
LEMMA HeldByCaller ==
    ASSUME CacheInv, NEW c \in Callers, Holds(call[c])
    PROVE  /\ call[c] \in CallType /\ call[c].rt \in Held /\ call[c].strategy \in Strategies
           /\ KeysOf[call[c].strategy] \subseteq Keys
           /\ \A k : call[c].rt \in HeldFor(k) <=> k \in KeysOf[call[c].strategy]
<1>1. call[c] \in CallType
  BY CallTyped DEF CacheInv, Holds
<1>2. call[c].rt \in Runtimes /\ call[c].strategy \in Strategies
      /\ owner[call[c].rt] = call[c].strategy
  BY <1>1 DEF CacheInv, OwnInv, Owns, CallType
<1>3. call[c].rt \in Held
  BY <1>2 DEF Held
<1> QED
  BY <1>1, <1>2, <1>3, SchedulerAssumption DEF HeldFor

(* The caller gives its references back and goes where it holds none.      *)
LEMMA ReleaseStep ==
    ASSUME CacheInv, NEW c \in Callers, Holds(call[c]), Released(KeysOf[call[c].strategy]),
           NEW new \in CallType \cup {Idle}, call' = [call EXCEPT ![c] = new],
           ~Owns(new), new.rt <= made,
           UNCHANGED <<runtimes, owner, made, rtState, listeners, dispatchVars>>
    PROVE  CacheInv'
<1>1. OwnInv'
  BY OwnFrame DEF CacheInv
<1> DEFINE r == call[c].rt
<1>2. /\ KeysOf[call[c].strategy] \subseteq Keys
      /\ \A k : r \in HeldFor(k) <=> k \in KeysOf[call[c].strategy]
  BY HeldByCaller
<1>3. \A k : HeldFor(k)' \subseteq HeldFor(k)
  BY HeldFrame DEF CacheInv, Owns
<1>4. r \notin Held'
  <2>1. \A s \in Strategies : runtimes'[s] # r
    BY DEF CacheInv, OwnInv, Owns
  <2>2. call'[c] = new /\ \A d \in Callers : d # c => call'[d] = call[d]
    BY CallUpdated DEF CacheInv
  <2>3. \A d \in Callers : Holds(call'[d]) => call'[d].rt # r
    BY <2>2 DEF CacheInv, OwnInv, Owns
  <2> QED
    BY <2>1, <2>3 DEF Held, Holds
<1>5. \A k : r \notin HeldFor(k)'
  BY <1>4 DEF HeldFor
<1>6. /\ Counted' /\ CacheExact'
      /\ refCount' \in [Keys -> Nat] /\ instances' \subseteq Keys
  <2> DEFINE keys == KeysOf[call[c].strategy]
  <2>1. /\ keys \subseteq Keys /\ Released(keys)
        /\ \A k \in keys : r \in HeldFor(k)
        /\ \A k \in keys : HeldFor(k)' \subseteq HeldFor(k) \ {r}
        /\ \A k \in Keys \ keys : HeldFor(k)' \subseteq HeldFor(k)
    BY <1>2, <1>3, <1>5
  <2>2. Counted /\ CacheExact /\ TypeOK
    BY DEF CacheInv
  <2> HIDE DEF r, keys
  <2> QED
    BY <2>1, <2>2, ReleaseCounts
<1>7. TypeOK'
  BY <1>6, CallUpdated DEF CacheInv, TypeOK, dispatchVars
<1> QED
  BY <1>1, <1>6, <1>7 DEF CacheInv

LEMMA SubscribeStep ==
    ASSUME CacheInv, NEW c \in Callers, RunSubscribe(c)
    PROVE  CacheInv'
<1>1. call[c] # Idle /\ call[c].op = "run" /\ call[c].at = "checked" /\ Owns(call[c])
  BY DEF RunSubscribe, At, Idle, Owns
<1> DEFINE new == [call[c] EXCEPT !.at = "subscribed"]
           r == call[c].rt
<1>2. /\ call[c] \in CallType
      /\ new \in CallType /\ new.op = "run" /\ new.rt = r
      /\ new.strategy = call[c].strategy /\ new.at = "subscribed"
      /\ call' = [call EXCEPT ![c] = new]
  BY <1>1, AtType DEF CacheInv, RunSubscribe, Goto
<1> HIDE DEF new
<1>3. OwnInv'
  <2>1. new.rt <= made
    BY <1>2 DEF CacheInv, OwnInv
  <2> QED
    BY <1>1, <1>2, <2>1, OwnFrame DEF CacheInv, RunSubscribe
<1>4. r \in Runtimes /\ owner[r] = call[c].strategy /\ KeysOf[call[c].strategy] \subseteq Keys
  BY <1>1, <1>2, SchedulerAssumption DEF CacheInv, OwnInv, CallType
<1>5. Held' \subseteq Held \cup {r}
  <2>1. call'[c] = new /\ \A d \in Callers : d # c => call'[d] = call[d]
    BY <1>2, CallUpdated DEF CacheInv
  <2>2. \A d \in Callers : Holds(call'[d]) => call'[d].rt = r \/ (Holds(call[d]) /\ call'[d].rt = call[d].rt)
    BY <1>2, <2>1
  <2> QED
    BY <2>2 DEF Held, Holds, RunSubscribe
<1>6. /\ \A k \in KeysOf[call[c].strategy] : HeldFor(k)' \subseteq HeldFor(k) \cup {r}
      /\ \A k \in Keys \ KeysOf[call[c].strategy] : HeldFor(k)' \subseteq HeldFor(k)
  BY <1>4, <1>5 DEF HeldFor, RunSubscribe
<1>7. /\ Counted' /\ CacheExact'
      /\ refCount' \in [Keys -> Nat] /\ instances' \subseteq Keys
  <2> HIDE DEF r
  <2> QED
    BY <1>4, <1>6, AcquireCounts DEF CacheInv, RunSubscribe
<1>8. TypeOK'
  BY <1>2, <1>7, CallUpdated DEF CacheInv, TypeOK, RunSubscribe, dispatchVars
<1> QED
  BY <1>3, <1>7, <1>8 DEF CacheInv

(* A run that fails half way leaks what it got: more than enough.          *)
LEMMA SubscribeFailsStep ==
    ASSUME CacheInv, NEW c \in Callers, RunSubscribeFails(c)
    PROVE  CacheInv'
<1>1. PICK got \in SUBSET (KeysOf[call[c].strategy] \ Unknown) : Acquired(got)
  BY DEF RunSubscribeFails
<1>2. call[c] # Idle /\ call[c] \in CallType /\ call' = [call EXCEPT ![c] = Idle]
  BY CallTyped DEF RunSubscribeFails, At, CacheInv, Return
<1>3. got \subseteq Keys
  BY <1>1, <1>2, SchedulerAssumption DEF CallType, RunSubscribeFails, At
<1>4. \A k : HeldFor(k)' \subseteq HeldFor(k)
  BY <1>2, HeldFrame, IdleFacts DEF CacheInv, RunSubscribeFails
<1>5. OwnInv'
  <2>1. NoRt <= made
    BY SchedulerAssumption DEF CacheInv, TypeOK, NoRt
  <2> QED
    BY <1>2, <2>1, OwnFrame, IdleFacts DEF CacheInv, RunSubscribeFails
<1>6. /\ Counted' /\ CacheExact'
      /\ refCount' \in [Keys -> Nat] /\ instances' \subseteq Keys
  BY <1>1, <1>3, <1>4, AcquireCounts DEF CacheInv
<1>7. TypeOK'
  BY <1>2, <1>6, CallUpdated DEF CacheInv, TypeOK, RunSubscribeFails, dispatchVars
<1> QED
  BY <1>5, <1>6, <1>7 DEF CacheInv

(* The new runtime has the next number: nothing refers to it yet.          *)
LEMMA CheckStep ==
    ASSUME CacheInv, NEW c \in Callers, RunCheck(c)
    PROVE  CacheInv'
<1> DEFINE r == made + 1
           new == [call[c] EXCEPT !.at = "checked", !.rt = r]
<1>1. /\ call[c] \in CallType /\ call[c].op = "run" /\ made \in Nat
      /\ r \in Runtimes /\ r # NoRt /\ made' = r
  BY CallTyped, SchedulerAssumption DEF RunCheck, At, CacheInv, TypeOK, Runtimes, NoRt
<1>2. /\ new \in CallType /\ new.op = "run" /\ new.rt = r
      /\ new.strategy = call[c].strategy /\ new.at = "checked"
      /\ call' = [call EXCEPT ![c] = new]
  BY <1>1 DEF CallType, RunCheck, CacheInv, TypeOK
<1>3. owner' \in [Runtimes -> Strategies \cup {"none"}]
      /\ owner'[r] = call[c].strategy /\ \A q \in Runtimes : q # r => owner'[q] = owner[q]
  BY <1>1 DEF RunCheck, CacheInv, TypeOK, CallType
<1> HIDE DEF new
<1>4. call'[c] = new /\ \A d \in Callers : d # c => call'[d] = call[d]
  BY <1>2, CallUpdated DEF CacheInv
<1>5. /\ \A s \in Strategies : runtimes'[s] = runtimes[s] /\ runtimes[s] <= made /\ runtimes[s] \in Runtimes \cup {NoRt}
      /\ \A d \in Callers : call[d].rt <= made
  BY DEF CacheInv, OwnInv, TypeOK, RunCheck
<1>6. /\ \A s \in Strategies : runtimes[s] # r
      /\ \A d \in Callers : call[d].rt # r
  BY <1>1, <1>5 DEF Runtimes, CacheInv, TypeOK
<1>7. \A d \in Callers : d # c /\ Owns(call'[d]) =>
        Owns(call[d]) /\ call'[d].rt = call[d].rt /\ call'[d].strategy = call[d].strategy
        /\ call[d].rt \in Runtimes /\ call[d].rt # r
  <2> SUFFICES ASSUME NEW d \in Callers, d # c, Owns(call'[d])
               PROVE  Owns(call[d]) /\ call'[d].rt = call[d].rt /\ call'[d].strategy = call[d].strategy
                      /\ call[d].rt \in Runtimes /\ call[d].rt # r
    OBVIOUS
  <2>1. call'[d] = call[d] /\ Owns(call[d])
    BY <1>4
  <2>2. call[d] \in CallType
    BY <2>1, CallTyped DEF CacheInv, Owns, Holds
  <2>3. call[d].rt \in Runtimes
    BY <2>1, <2>2 DEF CallType, CacheInv, OwnInv
  <2> QED
    BY <2>1, <2>3, <1>6
<1>8. OwnInv'
  <2>1. \A s \in Strategies : runtimes'[s] <= made' /\ (Registered(s)' => owner'[runtimes'[s]] = s)
    BY <1>1, <1>3, <1>5, <1>6 DEF CacheInv, OwnInv, Registered, Runtimes, NoRt
  <2>2. \A d \in Callers : call'[d].rt <= made'
    <3> SUFFICES ASSUME NEW d \in Callers PROVE call'[d].rt <= made'
      OBVIOUS
    <3>1. CASE d = c
      BY <3>1, <1>1, <1>2, <1>4
    <3>2. CASE d # c
      <4>1. call[d].rt \in Nat
        BY DEF CacheInv, TypeOK, CallType, Idle, NoRt, Runtimes
      <4> QED
        BY <3>2, <4>1, <1>1, <1>4, <1>5
    <3> QED
      BY <3>1, <3>2
  <2>3. \A d \in Callers : Owns(call'[d]) =>
          /\ call'[d].rt # NoRt /\ owner'[call'[d].rt] = call'[d].strategy
          /\ \A s \in Strategies : runtimes'[s] # call'[d].rt
    <3> SUFFICES ASSUME NEW d \in Callers, Owns(call'[d])
                 PROVE  /\ call'[d].rt # NoRt /\ owner'[call'[d].rt] = call'[d].strategy
                        /\ \A s \in Strategies : runtimes'[s] # call'[d].rt
      OBVIOUS
    <3>1. CASE d = c
      BY <3>1, <1>1, <1>2, <1>3, <1>4, <1>5, <1>6
    <3>2. CASE d # c
      BY <3>2, <1>3, <1>5, <1>7 DEF CacheInv, OwnInv
    <3> QED
      BY <3>1, <3>2
  <2>4. \A d, e \in Callers : Owns(call'[d]) /\ Owns(call'[e]) /\ call'[d].rt = call'[e].rt => d = e
    BY <1>2, <1>4, <1>7 DEF CacheInv, OwnInv
  <2> QED
    BY <2>1, <2>2, <2>3, <2>4 DEF OwnInv, Owns, Holds
<1>9. Held' \subseteq Held /\ r \notin Held'
  <2>1. ~Holds(call'[c])
    BY <1>2, <1>4 DEF Holds
  <2>2. \A d \in Callers : Holds(call'[d]) => Holds(call[d]) /\ call'[d].rt = call[d].rt
    BY <2>1, <1>4
  <2> QED
    BY <2>2, <1>5, <1>6 DEF Held, Holds
<1>10. \A k \in Keys : HeldFor(k)' \subseteq HeldFor(k)
  BY <1>3, <1>9 DEF HeldFor, Held
<1>11. Counted'
  <2>1. \A k \in Keys : refCount'[k] \in Nat /\ refCount'[k] >= refCount[k]
    BY DEF CacheInv, TypeOK, RunCheck, cacheVars
  <2> QED
    BY <2>1, <1>10, FewerHeld DEF CacheInv
<1>12. CacheExact'
  BY DEF CacheInv, CacheExact, RunCheck, cacheVars
<1>13. TypeOK'
  <2>1. made' \in 0 .. MaxRuns
    BY <1>1 DEF Runtimes
  <2> QED
    BY <1>2, <1>3, <2>1, CallUpdated DEF CacheInv, TypeOK, RunCheck, cacheVars, dispatchVars
<1> QED
  BY <1>8, <1>11, <1>12, <1>13 DEF CacheInv

(* The runtime moves from the call into the map; a runtime it replaces     *)
(* there keeps its references for ever.                                    *)
LEMMA InsertStep ==
    ASSUME CacheInv, NEW c \in Callers, RunInsert(c)
    PROVE  CacheInv'
<1> DEFINE s == call[c].strategy
           r == call[c].rt
<1>1. /\ call[c] \in CallType /\ Owns(call[c]) /\ Holds(call[c])
      /\ s \in Strategies /\ r \in Runtimes /\ r # NoRt /\ owner[r] = s
      /\ call' = [call EXCEPT ![c] = Idle]
  <2>1. call[c] \in CallType /\ Owns(call[c]) /\ Holds(call[c])
    BY CallTyped DEF RunInsert, At, CacheInv, Owns, Holds
  <2> QED
    BY <2>1 DEF CallType, CacheInv, OwnInv, RunInsert, Return
<1>2. call'[c] = Idle /\ \A d \in Callers : d # c => call'[d] = call[d]
  BY <1>1, CallUpdated DEF CacheInv
<1>3. /\ runtimes' \in [Strategies -> Runtimes \cup {NoRt}] /\ runtimes'[s] = r
      /\ \A t \in Strategies : t # s => runtimes'[t] = runtimes[t]
  BY <1>1 DEF RunInsert, CacheInv, TypeOK
<1> HIDE DEF s, r
<1>4. \A d \in Callers : Owns(call'[d]) => d # c /\ Owns(call[d]) /\ call'[d] = call[d] /\ call[d].rt # r
  <2> SUFFICES ASSUME NEW d \in Callers, Owns(call'[d])
               PROVE  d # c /\ Owns(call[d]) /\ call'[d] = call[d] /\ call[d].rt # r
    OBVIOUS
  <2>1. d # c
    BY <1>2, IdleFacts
  <2>2. call'[d] = call[d]
    BY <2>1, <1>2
  <2> QED
    BY <2>1, <2>2, <1>1 DEF CacheInv, OwnInv, r
<1>5. OwnInv'
  <2>1. \A t \in Strategies : runtimes'[t] <= made' /\ (Registered(t)' => owner'[runtimes'[t]] = t)
    <3> SUFFICES ASSUME NEW t \in Strategies
                 PROVE  runtimes'[t] <= made' /\ (Registered(t)' => owner'[runtimes'[t]] = t)
      OBVIOUS
    <3>1. made' = made /\ owner' = owner
      BY DEF RunInsert
    <3>2. CASE t = s
      BY <3>1, <3>2, <1>1, <1>3 DEF CacheInv, OwnInv, r
    <3>3. CASE t # s
      BY <3>1, <3>3, <1>3 DEF CacheInv, OwnInv, Registered
    <3> QED
      BY <3>2, <3>3
  <2>2. \A d \in Callers : call'[d].rt <= made'
    <3>1. NoRt <= made /\ made' = made
      BY SchedulerAssumption DEF CacheInv, TypeOK, NoRt, RunInsert
    <3> QED
      BY <3>1, <1>2, IdleFacts DEF CacheInv, OwnInv
  <2>3. \A d \in Callers : Owns(call'[d]) =>
          /\ call'[d].rt # NoRt /\ owner'[call'[d].rt] = call'[d].strategy
          /\ \A t \in Strategies : runtimes'[t] # call'[d].rt
    <3>1. owner' = owner
      BY DEF RunInsert
    <3> QED
      BY <3>1, <1>3, <1>4 DEF CacheInv, OwnInv
  <2>4. \A d, e \in Callers : Owns(call'[d]) /\ Owns(call'[e]) /\ call'[d].rt = call'[e].rt => d = e
    BY <1>4 DEF CacheInv, OwnInv
  <2> QED
    BY <2>1, <2>2, <2>3, <2>4 DEF OwnInv, Owns, Holds
<1>6. Held' \subseteq Held
  <2>1. r \in Held
    BY <1>1 DEF Held, r
  <2>2. \A d \in Callers : Holds(call'[d]) => Holds(call[d]) /\ call'[d].rt = call[d].rt
    BY <1>2, IdleFacts
  <2> QED
    BY <2>1, <2>2, <1>3 DEF Held, Holds
<1>7. \A k \in Keys : HeldFor(k)' \subseteq HeldFor(k)
  BY <1>6 DEF HeldFor, RunInsert
<1>8. Counted'
  <2>1. \A k \in Keys : refCount'[k] \in Nat /\ refCount'[k] >= refCount[k]
    BY DEF CacheInv, TypeOK, RunInsert, cacheVars
  <2> QED
    BY <2>1, <1>7, FewerHeld DEF CacheInv
<1>9. CacheExact' /\ TypeOK'
  <2>1. call' \in [Callers -> CallType \cup {Idle}]
    BY <1>1, CallUpdated DEF CacheInv
  <2> QED
    BY <2>1, <1>3 DEF CacheInv, CacheExact, TypeOK, RunInsert, cacheVars, dispatchVars
<1> QED
  BY <1>5, <1>8, <1>9 DEF CacheInv

(* The runtime moves from the map into the call of the one who stops it.   *)
LEMMA RemoveStep ==
    ASSUME CacheInv, NEW c \in Callers, NEW s \in Strategies, NEW op \in {"stop", "delete"},
           StopRemove(c, s, op)
    PROVE  CacheInv'
<1> DEFINE r == runtimes[s]
           new == [op |-> op, at |-> "removed", strategy |-> s, rt |-> r]
<1>1. r \in Runtimes /\ r # NoRt /\ owner[r] = s /\ r <= made
  BY DEF StopRemove, Registered, CacheInv, TypeOK, OwnInv
<1>2. /\ new \in CallType /\ new.op = op /\ new.at = "removed" /\ new.strategy = s /\ new.rt = r
      /\ call' = [call EXCEPT ![c] = new]
  BY <1>1 DEF StopRemove, CallType, Ops
<1> HIDE DEF new
<1>3. call'[c] = new /\ \A d \in Callers : d # c => call'[d] = call[d]
  BY <1>2, CallUpdated DEF CacheInv
<1>4. /\ runtimes' \in [Strategies -> Runtimes \cup {NoRt}] /\ runtimes'[s] = NoRt
      /\ \A t \in Strategies : t # s => runtimes'[t] = runtimes[t]
  BY DEF StopRemove, CacheInv, TypeOK
<1>5. \A t \in Strategies : runtimes'[t] # r
  <2> SUFFICES ASSUME NEW t \in Strategies, t # s, runtimes[t] = r PROVE FALSE
    BY <1>1, <1>4
  <2> QED
    BY <1>1 DEF CacheInv, OwnInv, Registered
<1>6. \A d \in Callers : d # c /\ Owns(call'[d]) => Owns(call[d]) /\ call'[d] = call[d] /\ call[d].rt # r
  BY <1>3 DEF CacheInv, OwnInv
<1> HIDE DEF r
<1>7. OwnInv'
  <2>1. \A t \in Strategies : runtimes'[t] <= made' /\ (Registered(t)' => owner'[runtimes'[t]] = t)
    <3>1. NoRt <= made /\ made' = made /\ owner' = owner
      BY SchedulerAssumption DEF CacheInv, TypeOK, NoRt, StopRemove
    <3> QED
      BY <3>1, <1>4 DEF CacheInv, OwnInv, Registered
  <2>2. \A d \in Callers : call'[d].rt <= made'
    BY <1>1, <1>2, <1>3 DEF CacheInv, OwnInv, StopRemove
  <2>3. \A d \in Callers : Owns(call'[d]) =>
          /\ call'[d].rt # NoRt /\ owner'[call'[d].rt] = call'[d].strategy
          /\ \A t \in Strategies : runtimes'[t] # call'[d].rt
    <3> SUFFICES ASSUME NEW d \in Callers, Owns(call'[d])
                 PROVE  /\ call'[d].rt # NoRt /\ owner'[call'[d].rt] = call'[d].strategy
                        /\ \A t \in Strategies : runtimes'[t] # call'[d].rt
      OBVIOUS
    <3>0. owner' = owner
      BY DEF StopRemove
    <3>1. CASE d = c
      BY <3>0, <3>1, <1>1, <1>2, <1>3, <1>5
    <3>2. CASE d # c
      <4>1. Owns(call[d]) /\ call'[d] = call[d]
        BY <3>2, <1>6
      <4>2. /\ call[d].rt # NoRt /\ owner[call[d].rt] = call[d].strategy
            /\ \A t \in Strategies : runtimes[t] # call[d].rt
        BY <4>1 DEF CacheInv, OwnInv
      <4> QED
        BY <3>0, <4>1, <4>2, <1>4
    <3> QED
      BY <3>1, <3>2
  <2>4. \A d, e \in Callers : Owns(call'[d]) /\ Owns(call'[e]) /\ call'[d].rt = call'[e].rt => d = e
    BY <1>2, <1>3, <1>6 DEF CacheInv, OwnInv
  <2> QED
    BY <2>1, <2>2, <2>3, <2>4 DEF OwnInv, Owns, Holds
<1>8. Held' \subseteq Held
  <2>1. r \in Held
    BY <1>1 DEF Held, r
  <2>2. \A d \in Callers : Holds(call'[d]) => call'[d].rt = r \/ (Holds(call[d]) /\ call'[d].rt = call[d].rt)
    BY <1>2, <1>3
  <2>3. \A t \in Strategies : runtimes'[t] = NoRt \/ runtimes'[t] = runtimes[t]
    BY <1>4
  <2>4. NoRt \notin Runtimes
    BY DEF NoRt, Runtimes
  <2> QED
    BY <2>1, <2>2, <2>3, <2>4 DEF Held, Holds
<1>9. \A k \in Keys : HeldFor(k)' \subseteq HeldFor(k)
  BY <1>8 DEF HeldFor, StopRemove
<1>10. Counted'
  <2>1. \A k \in Keys : refCount'[k] \in Nat /\ refCount'[k] >= refCount[k]
    BY DEF CacheInv, TypeOK, StopRemove, cacheVars
  <2> QED
    BY <2>1, <1>9, FewerHeld DEF CacheInv
<1>11. CacheExact' /\ TypeOK'
  <2>1. call' \in [Callers -> CallType \cup {Idle}]
    BY <1>2, CallUpdated DEF CacheInv
  <2> QED
    BY <2>1, <1>4 DEF CacheInv, CacheExact, TypeOK, StopRemove, cacheVars, dispatchVars
<1> QED
  BY <1>7, <1>10, <1>11 DEF CacheInv
-----------------------------------------------------------------------------
(* Every step, and the theorems                                            *)

LEMMA OthersStay ==
    ASSUME TypeOK PROVE OthersTyped
  BY DEF TypeOK, OthersTyped

LEMMA StepKeepsCache ==
    ASSUME CacheInv, NEW c \in Callers, Step(c)
    PROVE  CacheInv'
<1>0. OthersTyped
  BY OthersStay DEF CacheInv
<1>1. CASE RunRefused(c)
  <2>1. Return(c) /\ UNCHANGED <<runtimes, owner, made, refCount, instances>> /\ OthersTyped'
    BY <1>0, <1>1 DEF RunRefused, cacheVars, dispatchVars, OthersTyped
  <2> QED
    BY <2>1, ReturnQuietly
<1>2. CASE RunListen(c)
  <2>1. /\ call[c] # Idle /\ call[c].op = "run" /\ call[c].at = "subscribed"
        /\ Goto(c, "listening") /\ UNCHANGED <<runtimes, owner, made, refCount, instances>>
    BY <1>2 DEF RunListen, At, Idle, cacheVars
  <2>2. call[c].rt \in Runtimes
    <3>1. call[c] \in CallType /\ Owns(call[c])
      BY <2>1, CallTyped DEF CacheInv, Owns, Holds
    <3> QED
      BY <3>1 DEF CacheInv, OwnInv, CallType
  <2>3. OthersTyped'
    BY <1>0, <1>2, <2>2 DEF RunListen, dispatchVars, OthersTyped
  <2> QED
    BY <2>1, <2>3, GotoQuietly
<1>3. CASE SetMode(c)
  <2>1. OthersTyped'
    <3>1. ModeOf(call[c].op) \in {"running", "paused", "stopped"}
      BY DEF ModeOf
    <3> QED
      BY <1>0, <1>3, <3>1 DEF SetMode, dispatchVars, OthersTyped
  <2> QED
    BY <1>3, <2>1, ReturnQuietly DEF SetMode, cacheVars
<1>4. CASE StopHalt(c)
  <2>1. /\ call[c].op \in {"stop", "delete"} /\ call[c].at = "removed" /\ call[c] # Idle
        /\ Goto(c, "halted") /\ UNCHANGED <<runtimes, owner, made, refCount, instances>>
    BY <1>4 DEF StopHalt, Stopping, Idle, cacheVars
  <2>2. OthersTyped'
    BY <1>0, <1>4 DEF StopHalt, dispatchVars, OthersTyped
  <2> QED
    BY <2>1, <2>2, GotoQuietly
<1>5. CASE StopUnlisten(c)
  <2>1. /\ call[c].op \in {"stop", "delete"} /\ call[c] # Idle
        /\ Return(c) \/ Goto(c, "stopped")
        /\ UNCHANGED <<runtimes, owner, made, refCount, instances>>
    BY <1>5 DEF StopUnlisten, Stopping, Idle, cacheVars
  <2>2. OthersTyped'
    BY <1>0, <1>5 DEF StopUnlisten, dispatchVars, OthersTyped
  <2> QED
    BY <2>1, <2>2, GotoQuietly, ReturnQuietly
<1>6. CASE DeleteStrategy(c)
  <2>1. call[c].strategy \in Strategies
    <3>1. call[c] \in CallType
      BY <1>6, CallTyped DEF DeleteStrategy, At, CacheInv
    <3> QED
      BY <3>1 DEF CallType
  <2>2. OthersTyped'
    BY <1>0, <1>6, <2>1 DEF DeleteStrategy, OthersTyped
  <2> QED
    BY <1>6, <2>2, ReturnQuietly DEF DeleteStrategy, cacheVars
<1>7. CASE StopUnsubscribe(c)
  <2> DEFINE new == [call[c] EXCEPT !.at = "released"]
  <2>1. /\ call[c].op \in {"stop", "delete"} /\ call[c].at = "halted" /\ call[c] # Idle
        /\ Holds(call[c]) /\ Goto(c, "released")
    BY <1>7 DEF StopUnsubscribe, Stopping, Idle, Holds
  <2>2. /\ new \in CallType /\ new.op = call[c].op /\ new.rt = call[c].rt /\ new.at = "released"
        /\ call' = [call EXCEPT ![c] = new]
    BY <2>1, AtType DEF CacheInv, Goto
  <2> HIDE DEF new
  <2>3. ~Owns(new) /\ new.rt <= made
    BY <2>1, <2>2 DEF Owns, Holds, CacheInv, OwnInv
  <2> QED
    BY <1>7, <2>1, <2>2, <2>3, ReleaseStep DEF StopUnsubscribe
<1>8. CASE RunFeedRefused(c)
  <2>1. /\ Holds(call[c]) /\ call' = [call EXCEPT ![c] = Idle] /\ NoRt <= made
    BY <1>8, SchedulerAssumption DEF RunFeedRefused, At, Holds, Return, CacheInv, TypeOK, NoRt
  <2> QED
    BY <1>8, <2>1, IdleFacts, ReleaseStep DEF RunFeedRefused
<1> QED
  BY <1>1, <1>2, <1>3, <1>4, <1>5, <1>6, <1>7, <1>8,
     CheckStep, SubscribeStep, SubscribeFailsStep, InsertStep DEF Step

LEMMA RequestKeepsCache ==
    ASSUME CacheInv, NEW c \in Callers, Request(c)
    PROVE  CacheInv'
<1>0. OthersTyped /\ NoRt <= made
  BY OthersStay, SchedulerAssumption DEF CacheInv, TypeOK, NoRt
<1>1. PICK s \in Strategies :
        \/ RunLoad(c, s)
        \/ \E op \in {"pause", "resume"} : GetRuntime(c, s, op)
        \/ \E op \in {"stop", "delete"} : StopRemove(c, s, op)
        \/ DeleteIdle(c, s)
  BY DEF Request
<1>2. ASSUME NEW op \in Ops, NEW at \in {"loaded", "got", "stopped"}, NEW rt \in Runtimes \cup {NoRt}, rt <= made,
             call' = [call EXCEPT ![c] = [op |-> op, at |-> at, strategy |-> s, rt |-> rt]],
             UNCHANGED <<runtimes, owner, made, refCount, instances>>, OthersTyped'
      PROVE  CacheInv'
  <2> DEFINE new == [op |-> op, at |-> at, strategy |-> s, rt |-> rt]
  <2>1. new \in CallType /\ new.at = at /\ new.rt = rt
    BY DEF CallType
  <2>2. call' = [call EXCEPT ![c] = new]
    BY <1>2
  <2> HIDE DEF new
  <2>3. ~Owns(new) /\ ~Holds(new)
    BY <2>1 DEF Owns, Holds
  <2> QED
    BY <1>2, <2>1, <2>2, <2>3, QuietStep
<1>3. CASE RunLoad(c, s)
  <2>1. OthersTyped'
    BY <1>0, <1>3 DEF RunLoad, dispatchVars, OthersTyped
  <2> QED
    BY <1>0, <1>2, <1>3, <2>1 DEF RunLoad, cacheVars, Ops
<1>4. ASSUME NEW op \in {"pause", "resume"}, GetRuntime(c, s, op) PROVE CacheInv'
  <2>1. OthersTyped'
    BY <1>0, <1>4 DEF GetRuntime, dispatchVars, OthersTyped
  <2>2. runtimes[s] \in Runtimes \cup {NoRt} /\ runtimes[s] <= made
    BY DEF CacheInv, TypeOK, OwnInv
  <2> QED
    BY <1>2, <1>4, <2>1, <2>2 DEF GetRuntime, cacheVars, Ops
<1>5. CASE DeleteIdle(c, s)
  <2>1. OthersTyped'
    BY <1>0, <1>5 DEF DeleteIdle, dispatchVars, OthersTyped
  <2> QED
    BY <1>0, <1>2, <1>5, <2>1 DEF DeleteIdle, cacheVars, Ops
<1> QED
  BY <1>1, <1>3, <1>4, <1>5, RemoveStep

LEMMA DispatchKeepsCache ==
    ASSUME CacheInv, Dispatch \/ UNCHANGED vars
    PROVE  CacheInv'
<1>1. /\ UNCHANGED <<runtimes, owner, made, rtState, listeners, refCount, instances, call, deleted>>
      /\ pending' \subseteq Runtimes /\ handling' \in Runtimes \cup {NoRt}
  BY DEF Dispatch, StartDispatch, EnterHandler, LeaveHandler, vars, cacheVars, CacheInv, TypeOK
<1>2. TypeOK' /\ CacheExact'
  BY <1>1 DEF CacheInv, TypeOK, CacheExact
<1>3. OwnInv'
  BY <1>1 DEF CacheInv, OwnInv, Registered
<1>4. Counted'
  <2>1. \A k : HeldFor(k)' = HeldFor(k)
    BY <1>1 DEF HeldFor, Held
  <2> QED
    BY <1>1, <2>1 DEF CacheInv, Counted
<1> QED
  BY <1>2, <1>3, <1>4 DEF CacheInv

LEMMA InitCache == Init => CacheInv
<1> SUFFICES ASSUME Init PROVE CacheInv
  OBVIOUS
<1>1. NoRt \notin Runtimes /\ 0 \in Nat /\ NoRt = 0
  BY DEF NoRt, Runtimes
<1>2. TypeOK
  BY <1>1, SchedulerAssumption DEF Init, TypeOK
<1>3. OwnInv
  BY <1>1, IdleFacts DEF Init, OwnInv, Registered
<1>4. \A k : HeldFor(k) = {}
  BY <1>1, IdleFacts DEF Init, HeldFor, Held
<1>5. Counted
  BY <1>4, FS_EmptySet DEF Init, Counted
<1>6. CacheExact
  BY DEF Init, CacheExact
<1> QED
  BY <1>2, <1>3, <1>5, <1>6 DEF CacheInv

(* In every reachable state, whatever the callers of engine.go interleave: *)
(* every reference in the cache has exactly one holder, an installed       *)
(* runtime or a call that is about to install, free or leak it.            *)
THEOREM CacheInvariant == Spec => []CacheInv
<1>1. CacheInv /\ [Next]_vars => CacheInv'
  BY StepKeepsCache, RequestKeepsCache, DispatchKeepsCache DEF Next
<1> QED
  BY <1>1, InitCache, PTL DEF Spec

(* Whatever the callers and the dispatcher do, every variable of the       *)
(* registry keeps its type: no reference count goes below zero.            *)
THEOREM Typed == Spec => []TypeOK
<1>1. CacheInv => TypeOK
  BY DEF CacheInv
<1> QED
  BY <1>1, CacheInvariant, PTL

(* A series exists exactly while it is counted (cache.go Unsubscribe).     *)
THEOREM CacheIsExact == Spec => []CacheExact
<1>1. CacheInv => CacheExact
  BY DEF CacheInv
<1> QED
  BY <1>1, CacheInvariant, PTL

(* No stop, refused run or replaced runtime frees a series that a          *)
(* registered strategy reads, for any number of callers and any sharing.   *)
THEOREM NeverFreedInUse == Spec => []RegisteredHasIndicators
<1>1. ASSUME CacheInv PROVE RegisteredHasIndicators
  <2> SUFFICES ASSUME NEW s \in Strategies, Registered(s), NEW k \in KeysOf[s]
               PROVE  k \in instances
    BY DEF RegisteredHasIndicators
  <2>1. k \in Keys
    BY SchedulerAssumption
  <2>2. runtimes[s] \in HeldFor(k)
    BY <1>1 DEF CacheInv, TypeOK, OwnInv, Registered, HeldFor, Held
  <2>3. Cardinality(HeldFor(k)) # 0
    BY <2>2, HeldFinite, FS_EmptySet
  <2>4. refCount[k] > 0
    BY <1>1, <2>1, <2>3, HeldFinite DEF CacheInv, Counted, TypeOK
  <2> QED
    BY <1>1, <2>1, <2>4 DEF CacheInv, CacheExact
<1> QED
  BY <1>1, CacheInvariant, PTL

----------------------------------------------------------------------------
(* Scheduler with one caller and known indicators implements Registry.     *)

Teardown(c) == Stopping(c, "removed") \/ Stopping(c, "halted") \/ Stopping(c, "released")

Prepared(c) == At(c, "run", "checked") \/ At(c, "run", "subscribed")

Entered(c) == Prepared(c) \/ At(c, "run", "listening")

(* The runtimes the caller has a listener for outside the map.             *)
OwnListener(c) == IF At(c, "run", "listening") \/ Teardown(c) THEN {call[c].rt} ELSE {}

(* What is true between the steps of the only caller c.                    *)
PlaceInv(c) ==
    /\ call[c].op = "run" => call[c].strategy \notin deleted
    /\ Entered(c) => ~Registered(call[c].strategy) /\ Cardinality(Active) < MaxConcurrent
    /\ Teardown(c) => /\ ~Registered(call[c].strategy) /\ call[c].rt \in Runtimes
                      /\ \A s \in Strategies : runtimes[s] # call[c].rt
    /\ At(c, "delete", "stopped") => ~Registered(call[c].strategy)
    /\ call[c].op \in {"pause", "resume"} =>
           Registered(call[c].strategy) /\ runtimes[call[c].strategy] = call[c].rt

StateInv(c) ==
    /\ \A s \in Strategies : Registered(s) => rtState[runtimes[s]] # "stopped"
    /\ \A r \in Runtimes : r > made => rtState[r] = "running"
    /\ Entered(c) => rtState[call[c].rt] = "running"
    /\ Stopping(c, "removed") => rtState[call[c].rt] # "stopped"
    /\ Stopping(c, "halted") \/ Stopping(c, "released") => rtState[call[c].rt] = "stopped"

AudienceInv(c) ==
    /\ listeners = {runtimes[s] : s \in Active} \cup OwnListener(c)
    /\ \A r \in pending : r <= made /\ (r \in listeners \/ rtState[r] = "stopped")
    /\ handling <= made
    /\ Prepared(c) => call[c].rt \notin pending /\ call[c].rt # handling

ExactCount == \A k \in Keys : refCount[k] = Cardinality(HeldFor(k))

SerialInv(c) == CacheInv /\ PlaceInv(c) /\ StateInv(c) /\ AudienceInv(c) /\ ExactCount

AllKnown == \A s \in Strategies : KeysOf[s] \cap Unknown = {}
-----------------------------------------------------------------------------
(* The mapping, when there is one caller                                   *)

LEMMA InstalledIs ==
    ASSUME NEW c, Callers = {c}, NEW s
    PROVE  /\ Midway(c, s) => InstalledRt(s) = call[c].rt
           /\ ~Midway(c, s) => InstalledRt(s) = runtimes[s]
  BY DEF InstalledRt

LEMMA LeavingIs ==
    ASSUME NEW c, Callers = {c}
    PROVE  Leaving = IF Stopping(c, "halted") \/ Stopping(c, "released") THEN {call[c].rt} ELSE {}
  BY DEF Leaving

(* The listeners, less those about to go, are the installed runtimes.      *)
LEMMA AudienceFollows ==
    ASSUME NEW c, Callers = {c}, SerialInv(c)
    PROVE  listeners \ Leaving = {InstalledRt(s) : s \in {t \in Strategies : InstalledRt(t) # NoRt}}
<1>0. NoRt \notin Runtimes /\ runtimes \in [Strategies -> Runtimes \cup {NoRt}]
  BY DEF SerialInv, CacheInv, TypeOK, NoRt, Runtimes
<1>1. CASE At(c, "run", "listening") \/ Stopping(c, "removed")
  <2>1. /\ call[c].strategy \in Strategies /\ call[c].rt # NoRt /\ runtimes[call[c].strategy] = NoRt
    <3>1. call[c] \in CallType /\ Owns(call[c])
      BY <1>1, CallTyped DEF SerialInv, CacheInv, At, Stopping, Owns, Holds
    <3> QED
      BY <1>1, <3>1 DEF SerialInv, CacheInv, OwnInv, CallType, PlaceInv, Entered, Teardown, Registered
  <2>2. Leaving = {} /\ OwnListener(c) = {call[c].rt}
    BY <1>1, LeavingIs DEF At, Stopping, OwnListener, Teardown
  <2>3. \A s \in Strategies : InstalledRt(s) = IF s = call[c].strategy THEN call[c].rt ELSE runtimes[s]
    BY <1>1, InstalledIs DEF Midway
  <2> QED
    BY <2>1, <2>2, <2>3 DEF SerialInv, AudienceInv, Active, Registered
<1>2. CASE Stopping(c, "halted") \/ Stopping(c, "released")
  <2>1. Leaving = {call[c].rt} /\ OwnListener(c) = {call[c].rt}
        /\ \A s \in Strategies : runtimes[s] # call[c].rt
    BY <1>2, LeavingIs DEF OwnListener, Teardown, SerialInv, PlaceInv
  <2>2. \A s \in Strategies : InstalledRt(s) = runtimes[s]
    BY <1>2, InstalledIs DEF Midway, At, Stopping
  <2> QED
    BY <2>1, <2>2 DEF SerialInv, AudienceInv, Active, Registered
<1>3. CASE ~(At(c, "run", "listening") \/ Teardown(c))
  <2>1. Leaving = {} /\ OwnListener(c) = {}
    BY <1>3, LeavingIs DEF OwnListener, Teardown
  <2>2. \A s \in Strategies : InstalledRt(s) = runtimes[s]
    BY <1>3, InstalledIs DEF Midway, Teardown
  <2> QED
    BY <2>1, <2>2 DEF SerialInv, AudienceInv, Active, Registered
<1> QED
  BY <1>1, <1>2, <1>3 DEF Teardown

(* The counted series, less those only the caller holds, are those the     *)
(* installed strategies read.                                              *)
LEMMA SeriesFollow ==
    ASSUME NEW c, Callers = {c}, SerialInv(c)
    PROVE  {k \in Keys : refCount[k] > Cardinality(OnTheWay(k))}
             = UNION {KeysOf[s] : s \in {t \in Strategies : InstalledRt(t) # NoRt}}
<1>0. /\ NoRt \notin Runtimes /\ runtimes \in [Strategies -> Runtimes \cup {NoRt}]
      /\ \A s \in Strategies : KeysOf[s] \subseteq Keys
  BY SchedulerAssumption DEF SerialInv, CacheInv, TypeOK, NoRt, Runtimes
<1> DEFINE on == At(c, "run", "subscribed") \/ Stopping(c, "halted")
           Readers(k) == {InstalledRt(s) : s \in {t \in Strategies : InstalledRt(t) # NoRt /\ k \in KeysOf[t]}}
<1>1. \A k : OnTheWay(k) = IF on /\ k \in KeysOf[call[c].strategy] THEN {c} ELSE {}
  BY DEF OnTheWay
<1>2. ASSUME NEW k \in Keys
      PROVE  HeldFor(k) = Readers(k) \cup (IF on /\ k \in KeysOf[call[c].strategy] THEN {call[c].rt} ELSE {})
             /\ (on => call[c].rt \notin Readers(k))
  <2>1. CASE At(c, "run", "listening") \/ Stopping(c, "removed")
    <3>1. ~on /\ Holds(call[c])
      BY <2>1 DEF At, Stopping, Holds
    <3>2. /\ call[c].strategy \in Strategies /\ call[c].rt # NoRt /\ call[c].rt \in Runtimes
          /\ runtimes[call[c].strategy] = NoRt /\ owner[call[c].rt] = call[c].strategy
      <4>1. call[c] \in CallType /\ Owns(call[c])
        BY <3>1, CallTyped DEF SerialInv, CacheInv, Owns, Holds
      <4> QED
        BY <2>1, <4>1 DEF SerialInv, CacheInv, OwnInv, CallType, PlaceInv, Entered, Teardown, Registered
    <3>3. \A s \in Strategies : InstalledRt(s) = IF s = call[c].strategy THEN call[c].rt ELSE runtimes[s]
      BY <2>1, InstalledIs DEF Midway
    <3>4. \A s \in Strategies : runtimes[s] # NoRt => owner[runtimes[s]] = s
      BY DEF SerialInv, CacheInv, OwnInv, Registered
    <3> HIDE DEF on
    <3>5. HeldFor(k) = Readers(k)
      BY <1>0, <3>1, <3>2, <3>3, <3>4 DEF HeldFor, Held
    <3> QED
      BY <3>1, <3>5
  <2>2. CASE ~(At(c, "run", "listening") \/ Stopping(c, "removed"))
    <3>1. \A s \in Strategies : InstalledRt(s) = runtimes[s]
      BY <2>2, InstalledIs DEF Midway
    <3>2. \A s \in Strategies : runtimes[s] # NoRt => owner[runtimes[s]] = s
      BY DEF SerialInv, CacheInv, OwnInv, Registered
    <3>3. Holds(call[c]) <=> on
      BY <2>2 DEF Holds, At, Stopping
    <3>4. on => /\ call[c].rt \in Runtimes /\ owner[call[c].rt] = call[c].strategy
                /\ \A s \in Strategies : runtimes[s] # call[c].rt
      <4> SUFFICES ASSUME Holds(call[c])
                   PROVE  /\ call[c].rt \in Runtimes /\ owner[call[c].rt] = call[c].strategy
                          /\ \A s \in Strategies : runtimes[s] # call[c].rt
        BY <3>3
      <4>1. call[c] \in CallType /\ Owns(call[c])
        BY CallTyped DEF SerialInv, CacheInv, Owns, Holds
      <4> QED
        BY <4>1 DEF SerialInv, CacheInv, OwnInv, CallType
    <3> HIDE DEF on
    <3>5. Readers(k) = {r \in Runtimes : \E s \in Strategies : runtimes[s] = r /\ k \in KeysOf[s]}
      BY <1>0, <3>1
    <3>6. HeldFor(k) = {r \in Runtimes : \/ \E s \in Strategies : runtimes[s] = r /\ k \in KeysOf[s]
                                         \/ on /\ call[c].rt = r /\ k \in KeysOf[call[c].strategy]}
      BY <1>0, <3>2, <3>3, <3>4 DEF HeldFor, Held
    <3> QED
      BY <3>4, <3>5, <3>6
  <2> QED
    BY <2>1, <2>2
<1>3. ASSUME NEW k \in Keys
      PROVE  refCount[k] > Cardinality(OnTheWay(k)) <=> Readers(k) # {}
  <2> HIDE DEF Readers
  <2>1. refCount[k] = Cardinality(HeldFor(k)) /\ IsFiniteSet(HeldFor(k)) /\ Cardinality(HeldFor(k)) \in Nat
    BY HeldFinite DEF SerialInv, ExactCount
  <2>2. CASE on /\ k \in KeysOf[call[c].strategy]
    <3>1. HeldFor(k) = Readers(k) \cup {call[c].rt} /\ call[c].rt \notin Readers(k)
      BY <1>2, <2>2
    <3>2. Cardinality(OnTheWay(k)) = 1
      BY <1>1, <2>2, FS_Singleton
    <3>3. IsFiniteSet(Readers(k))
      BY <2>1, <3>1, FS_Subset
    <3>4. Cardinality(HeldFor(k)) = Cardinality(Readers(k)) + 1
      BY <3>1, <3>3, FS_AddElement
    <3>5. Cardinality(Readers(k)) \in Nat /\ (Cardinality(Readers(k)) = 0 <=> Readers(k) = {})
      BY <3>3, FS_CardinalityType, FS_EmptySet
    <3> QED
      BY <2>1, <3>2, <3>4, <3>5
  <2>3. CASE ~(on /\ k \in KeysOf[call[c].strategy])
    <3>1. HeldFor(k) = Readers(k)
      BY <1>2, <2>3
    <3>2. Cardinality(OnTheWay(k)) = 0
      BY <1>1, <2>3, FS_EmptySet
    <3>3. Cardinality(HeldFor(k)) = 0 <=> HeldFor(k) = {}
      BY <2>1, FS_EmptySet
    <3> QED
      BY <2>1, <3>1, <3>2, <3>3
  <2> QED
    BY <2>2, <2>3
<1> HIDE DEF on
<1> QED
  BY <1>0, <1>3

InstalledRts == {InstalledRt(s) : s \in {t \in Strategies : InstalledRt(t) # NoRt}}
InstalledSeries == UNION {KeysOf[s] : s \in {t \in Strategies : InstalledRt(t) # NoRt}}
CountedSeries == {k \in Keys : refCount[k] > Cardinality(OnTheWay(k))}

Follows == listeners \ Leaving = InstalledRts /\ CountedSeries = InstalledSeries

LEMMA FollowsNow ==
    ASSUME NEW c, Callers = {c}
    PROVE  SerialInv(c) => Follows
  BY AudienceFollows, SeriesFollow DEF Follows, InstalledRts, InstalledSeries, CountedSeries

LEMMA FollowsNext ==
    ASSUME NEW c, Callers = {c}
    PROVE  SerialInv(c)' => Follows'
<1>1. SerialInv(c) => Follows
  BY FollowsNow
<1> QED
  BY <1>1, PTL
-----------------------------------------------------------------------------
(* What a step of the only caller does to its place and to the counts      *)

LEMMA GotoFields ==
    ASSUME TypeOK, NEW c \in Callers, call[c].op # "none",
           NEW at \in {"checked", "subscribed", "listening", "got", "removed", "halted", "released", "stopped"},
           Goto(c, at)
    PROVE  /\ call[c] \in CallType
           /\ call'[c].op = call[c].op /\ call'[c].rt = call[c].rt
           /\ call'[c].strategy = call[c].strategy /\ call'[c].at = at
<1> DEFINE new == [call[c] EXCEPT !.at = at]
<1>1. call[c] \in CallType /\ call[c] # Idle
  BY CallTyped
<1>2. /\ new \in CallType /\ new.op = call[c].op /\ new.rt = call[c].rt
      /\ new.strategy = call[c].strategy /\ new.at = at
      /\ call' = [call EXCEPT ![c] = new]
  BY <1>1, AtType, ZenonT(60) DEF Goto
<1> HIDE DEF new
<1> QED
  BY <1>1, <1>2, CallUpdated

LEMMA ReturnFields ==
    ASSUME TypeOK, NEW c \in Callers, Return(c)
    PROVE  call'[c].op = "none" /\ call'[c].at = "idle"
  BY DEF Return, TypeOK, Idle

LEMMA HeldSame ==
    ASSUME NEW c, Callers = {c}, UNCHANGED <<runtimes, owner, refCount>>, ExactCount,
           Holds(call'[c]) <=> Holds(call[c]), Holds(call[c]) => call'[c].rt = call[c].rt
    PROVE  ExactCount'
<1>1. Held' = Held
  BY DEF Held, Holds
<1>2. \A k : HeldFor(k)' = HeldFor(k)
  BY <1>1 DEF HeldFor
<1> QED
  BY <1>2 DEF ExactCount

(* Nothing outside can tell the difference.                                *)
LEMMA Unseen ==
    ASSUME NEW c, Callers = {c}, SerialInv(c), SerialInv(c)',
           \A s \in Strategies : InstalledRt(s)' = InstalledRt(s),
           \A s \in Strategies : InstalledRt(s) # NoRt => rtState'[InstalledRt(s)] = rtState[InstalledRt(s)],
           UNCHANGED <<handling, deleted>>
    PROVE  UNCHANGED Reg!vars
<1>1. InstalledRts' = InstalledRts /\ InstalledSeries' = InstalledSeries
  BY DEF InstalledRts, InstalledSeries
<1>2. (listeners \ Leaving)' = listeners \ Leaving /\ CountedSeries' = CountedSeries
  BY <1>1, FollowsNow, FollowsNext DEF Follows
<1>3. {k \in Keys : refCount[k] > Cardinality(OnTheWay(k))}' = {k \in Keys : refCount[k] > Cardinality(OnTheWay(k))}
  BY <1>2 DEF CountedSeries
<1>4. [s \in Strategies |-> InstalledRt(s)]' = [s \in Strategies |-> InstalledRt(s)]
  OBVIOUS
<1>5. [s \in Strategies |-> IF InstalledRt(s) = NoRt THEN "absent" ELSE rtState[InstalledRt(s)]]'
        = [s \in Strategies |-> IF InstalledRt(s) = NoRt THEN "absent" ELSE rtState[InstalledRt(s)]]
  OBVIOUS
<1> QED
  BY <1>2, <1>3, <1>4, <1>5 DEF Reg!vars
-----------------------------------------------------------------------------
(* The invariant of the only caller is kept                                *)

Kept(c) == PlaceInv(c) /\ StateInv(c) /\ AudienceInv(c) /\ ExactCount

LEMMA ReturnKeeps ==
    ASSUME NEW c, Callers = {c}, SerialInv(c), Return(c), ~Holds(call[c]), OwnListener(c) = {},
           UNCHANGED <<runtimes, owner, made, rtState, listeners, refCount, pending, handling>>
    PROVE  Kept(c)'
<1>1. call'[c].op = "none" /\ call'[c].at = "idle"
  BY ReturnFields DEF SerialInv, CacheInv
<1>2. PlaceInv(c)'
  BY <1>1 DEF PlaceInv, Entered, Prepared, Teardown, At, Stopping
<1>3. StateInv(c)'
  BY <1>1 DEF StateInv, SerialInv, Entered, Prepared, Teardown, At, Stopping, Registered
<1>4. AudienceInv(c)'
  BY <1>1 DEF AudienceInv, SerialInv, OwnListener, Prepared, Teardown, At, Stopping, Registered, Active
<1>5. ExactCount'
  BY <1>1, HeldSame DEF SerialInv, Holds
<1> QED
  BY <1>2, <1>3, <1>4, <1>5 DEF Kept

LEMMA BeginKeeps ==
    ASSUME NEW c, Callers = {c}, SerialInv(c), call[c] = Idle,
           NEW new \in CallType, call' = [call EXCEPT ![c] = new],
           \/ new.op = "run" /\ new.at = "loaded" /\ new.strategy \notin deleted
           \/ new.op \in {"pause", "resume"} /\ new.at = "got"
              /\ Registered(new.strategy) /\ runtimes[new.strategy] = new.rt
           \/ new.op = "delete" /\ new.at = "stopped" /\ ~Registered(new.strategy),
           UNCHANGED <<runtimes, owner, made, rtState, listeners, refCount, pending, handling, deleted>>
    PROVE  Kept(c)'
<1>1. call'[c] = new
  BY CallUpdated DEF SerialInv, CacheInv
<1>2. PlaceInv(c)'
  BY <1>1 DEF PlaceInv, Entered, Prepared, Teardown, At, Stopping, Registered
<1>3. StateInv(c)'
  BY <1>1 DEF StateInv, SerialInv, Entered, Prepared, Teardown, At, Stopping, Registered
<1>4. AudienceInv(c)'
  BY <1>1 DEF AudienceInv, SerialInv, OwnListener, Prepared, Teardown, At, Stopping, Registered, Active, Idle
<1>5. ExactCount'
  BY <1>1, IdleFacts, HeldSame DEF SerialInv, Holds
<1> QED
  BY <1>2, <1>3, <1>4, <1>5 DEF Kept

LEMMA CheckKeeps ==
    ASSUME NEW c, Callers = {c}, SerialInv(c), RunCheck(c)
    PROVE  Kept(c)'
<1> DEFINE r == made + 1
<1>0. CacheInv /\ TypeOK /\ c \in Callers
  BY DEF SerialInv, CacheInv
<1>1. /\ call[c] \in CallType /\ call[c].op = "run" /\ call[c].at = "loaded" /\ made \in Nat /\ r \in Runtimes
  BY <1>0, CallTyped, SchedulerAssumption DEF RunCheck, At, TypeOK, Runtimes
<1>2. call'[c].op = "run" /\ call'[c].at = "checked" /\ call'[c].rt = r /\ call'[c].strategy = call[c].strategy
  BY <1>0, <1>1 DEF RunCheck, TypeOK, CallType
<1>3. /\ pending \subseteq Runtimes /\ \A q \in pending : q <= made
      /\ handling \in Runtimes \cup {NoRt} /\ handling <= made
      /\ \A s \in Strategies : runtimes[s] \in Runtimes \cup {NoRt} /\ runtimes[s] <= made
  BY DEF SerialInv, CacheInv, TypeOK, AudienceInv, OwnInv
<1>4. r \notin pending /\ r # handling /\ \A s \in Strategies : runtimes[s] # r
  BY <1>1, <1>3 DEF Runtimes, NoRt
<1>5. PlaceInv(c)'
  <2>1. Cardinality(Active) < MaxConcurrent
    <3>1. IsFiniteSet(Active)
      BY SchedulerAssumption, FS_Subset DEF Active
    <3> QED
      BY <3>1, FS_CardinalityType, SchedulerAssumption DEF RunCheck, AtCap
  <2> QED
    BY <1>1, <1>2, <2>1 DEF SerialInv, PlaceInv, RunCheck, Entered, Prepared, Teardown, At, Stopping, Registered, Active, dispatchVars
<1>6. StateInv(c)'
  <2>1. rtState' = rtState /\ runtimes' = runtimes /\ made' = r
    BY DEF RunCheck
  <2>2. rtState[r] = "running" /\ \A q \in Runtimes : q > r => rtState[q] = "running"
    BY <1>1 DEF SerialInv, StateInv, Runtimes
  <2> QED
    BY <1>2, <2>1, <2>2 DEF SerialInv, StateInv, Entered, Prepared, Teardown, At, Stopping, Registered
<1>7. AudienceInv(c)'
  <2>1. /\ listeners' = listeners /\ runtimes' = runtimes /\ pending' = pending /\ handling' = handling
        /\ rtState' = rtState /\ made' = r
    BY DEF RunCheck, dispatchVars
  <2>2. OwnListener(c) = {} /\ OwnListener(c)' = {}
    BY <1>1, <1>2 DEF OwnListener, Teardown, At, Stopping
  <2>3. Active' = Active
    BY <2>1 DEF Active, Registered
  <2>4. \A q \in pending : q <= r
    BY <1>1, <1>3 DEF Runtimes
  <2>5. handling <= r
    BY <1>1, <1>3 DEF Runtimes, NoRt
  <2>6. /\ listeners = {runtimes[s] : s \in Active} \cup OwnListener(c)
        /\ \A q \in pending : q \in listeners \/ rtState[q] = "stopped"
    BY DEF SerialInv, AudienceInv
  <2>7. listeners' = {runtimes'[s] : s \in Active'} \cup OwnListener(c)'
    BY <2>1, <2>2, <2>3, <2>6
  <2>8. \A q \in pending' : q <= made' /\ (q \in listeners' \/ rtState'[q] = "stopped")
    BY <2>1, <2>4, <2>6
  <2>9. Prepared(c)' => call'[c].rt \notin pending' /\ call'[c].rt # handling'
    BY <1>2, <1>4, <2>1
  <2> QED
    BY <2>1, <2>5, <2>7, <2>8, <2>9 DEF AudienceInv
<1>8. ExactCount'
  <2>1. ~Holds(call[c]) /\ ~Holds(call'[c])
    BY <1>1, <1>2 DEF Holds
  <2>2. Held' = Held /\ r \notin Held
    BY <1>4, <2>1 DEF Held, Holds, RunCheck
  <2>3. \A q \in Runtimes : q # r => owner'[q] = owner[q]
    BY DEF RunCheck, SerialInv, CacheInv, TypeOK
  <2>4. \A k : HeldFor(k)' = HeldFor(k)
    BY <2>2, <2>3 DEF HeldFor, Held
  <2> QED
    BY <2>4 DEF SerialInv, ExactCount, RunCheck, cacheVars
<1> QED
  BY <1>5, <1>6, <1>7, <1>8 DEF Kept

LEMMA SubscribeKeeps ==
    ASSUME NEW c, Callers = {c}, SerialInv(c), RunSubscribe(c)
    PROVE  Kept(c)'
<1> DEFINE r == call[c].rt
           keys == KeysOf[call[c].strategy]
<1>0. CacheInv /\ TypeOK /\ c \in Callers
  BY DEF SerialInv, CacheInv
<1>1. /\ call[c] \in CallType /\ call[c].op = "run" /\ call[c].at = "checked"
      /\ call'[c].op = "run" /\ call'[c].rt = r /\ call'[c].strategy = call[c].strategy /\ call'[c].at = "subscribed"
  BY <1>0, GotoFields DEF RunSubscribe, At
<1>2. /\ r \in Runtimes /\ owner[r] = call[c].strategy /\ keys \subseteq Keys
      /\ \A s \in Strategies : runtimes[s] # r
  BY <1>0, <1>1, SchedulerAssumption DEF CacheInv, OwnInv, Owns, CallType
<1>3. PlaceInv(c)'
  BY <1>1 DEF SerialInv, PlaceInv, RunSubscribe, Entered, Prepared, Teardown, At, Stopping, Registered, Active, dispatchVars
<1>4. StateInv(c)'
  BY <1>1 DEF SerialInv, StateInv, RunSubscribe, Entered, Prepared, Teardown, At, Stopping, Registered
<1>5. AudienceInv(c)'
  BY <1>1 DEF SerialInv, AudienceInv, RunSubscribe, OwnListener, Prepared, Teardown, At, Stopping, Registered, Active, dispatchVars
<1>6. ExactCount'
  <2>1. ~Holds(call[c]) /\ Holds(call'[c])
    BY <1>1 DEF Holds
  <2>2. Held' = Held \cup {r} /\ r \notin Held
    BY <1>1, <1>2, <2>1 DEF Held, Holds, RunSubscribe
  <2>3. ASSUME NEW k \in Keys PROVE refCount'[k] = Cardinality(HeldFor(k)')
    <3>1. refCount[k] = Cardinality(HeldFor(k)) /\ IsFiniteSet(HeldFor(k))
      BY HeldFinite DEF SerialInv, ExactCount
    <3>2. CASE k \in keys
      <4>1. HeldFor(k)' = HeldFor(k) \cup {r} /\ r \notin HeldFor(k)
        BY <1>2, <2>2, <3>2 DEF HeldFor, RunSubscribe
      <4>2. Cardinality(HeldFor(k)') = Cardinality(HeldFor(k)) + 1
        BY <3>1, <4>1, FS_AddElement
      <4> QED
        BY <3>1, <3>2, <4>2 DEF RunSubscribe, Acquired
    <3>3. CASE k \notin keys
      <4>1. HeldFor(k)' = HeldFor(k)
        BY <1>2, <2>2, <3>3 DEF HeldFor, RunSubscribe
      <4> QED
        BY <3>1, <3>3, <4>1 DEF RunSubscribe, Acquired
    <3> QED
      BY <3>2, <3>3
  <2> QED
    BY <2>3 DEF ExactCount
<1> QED
  BY <1>3, <1>4, <1>5, <1>6 DEF Kept

(* Giving references back when nobody else has them.                       *)
LEMMA ReleaseExact ==
    ASSUME NEW c, Callers = {c}, SerialInv(c), Holds(call[c]), ~Holds(call'[c]),
           Released(KeysOf[call[c].strategy]), UNCHANGED <<runtimes, owner>>
    PROVE  ExactCount'
<1> DEFINE r == call[c].rt
           keys == KeysOf[call[c].strategy]
<1>1. /\ keys \subseteq Keys /\ r \in Held
      /\ \A k : r \in HeldFor(k) <=> k \in keys
  BY HeldByCaller DEF SerialInv
<1>2. \A s \in Strategies : runtimes[s] # r
  BY DEF SerialInv, CacheInv, OwnInv, Owns
<1>3. Held' = Held \ {r}
  BY <1>2 DEF Held, Holds
<1>4. \A k : HeldFor(k)' = HeldFor(k) \ {r}
  BY <1>3 DEF HeldFor
<1> HIDE DEF r, keys
<1>5. ASSUME NEW k \in Keys PROVE refCount'[k] = Cardinality(HeldFor(k)')
  <2>1. refCount[k] = Cardinality(HeldFor(k)) /\ IsFiniteSet(HeldFor(k))
    BY HeldFinite DEF SerialInv, ExactCount
  <2>2. CASE k \in keys
    <3>1. r \in HeldFor(k)
      BY <1>1, <2>2
    <3>2. Cardinality(HeldFor(k)') = Cardinality(HeldFor(k)) - 1
      BY <1>4, <2>1, <3>1, FS_RemoveElement
    <3> QED
      BY <2>1, <2>2, <3>2 DEF Released, keys
  <2>3. CASE k \notin keys
    <3>1. HeldFor(k)' = HeldFor(k)
      BY <1>1, <1>4, <2>3
    <3> QED
      BY <2>1, <2>3, <3>1 DEF Released, keys
  <2> QED
    BY <2>2, <2>3
<1> QED
  BY <1>5 DEF ExactCount

LEMMA FeedRefusedKeeps ==
    ASSUME NEW c, Callers = {c}, SerialInv(c), RunFeedRefused(c)
    PROVE  Kept(c)'
<1>1. call[c].op = "run" /\ call[c].at = "subscribed" /\ call'[c].op = "none" /\ call'[c].at = "idle"
  BY ReturnFields DEF SerialInv, CacheInv, RunFeedRefused, At
<1>2. PlaceInv(c)'
  BY <1>1 DEF PlaceInv, Entered, Prepared, Teardown, At, Stopping
<1>3. StateInv(c)'
  BY <1>1 DEF SerialInv, StateInv, RunFeedRefused, Entered, Prepared, Teardown, At, Stopping, Registered
<1>4. AudienceInv(c)'
  BY <1>1 DEF SerialInv, AudienceInv, RunFeedRefused, OwnListener, Prepared, Teardown, At, Stopping, Registered, Active, dispatchVars
<1>5. ExactCount'
  BY <1>1, ReleaseExact DEF RunFeedRefused, Holds
<1> QED
  BY <1>2, <1>3, <1>4, <1>5 DEF Kept

LEMMA ListenKeeps ==
    ASSUME NEW c, Callers = {c}, SerialInv(c), RunListen(c)
    PROVE  Kept(c)'
<1>1. /\ call[c].op = "run" /\ call[c].at = "subscribed"
      /\ call'[c].op = "run" /\ call'[c].rt = call[c].rt /\ call'[c].strategy = call[c].strategy /\ call'[c].at = "listening"
  BY GotoFields DEF SerialInv, CacheInv, RunListen, At
<1>2. PlaceInv(c)'
  BY <1>1 DEF SerialInv, PlaceInv, RunListen, Entered, Prepared, Teardown, At, Stopping, Registered, Active, dispatchVars
<1>3. StateInv(c)'
  BY <1>1 DEF SerialInv, StateInv, RunListen, Entered, Prepared, Teardown, At, Stopping, Registered
<1>4. AudienceInv(c)'
  BY <1>1 DEF SerialInv, AudienceInv, RunListen, OwnListener, Prepared, Teardown, At, Stopping, Registered, Active, dispatchVars
<1>5. ExactCount'
  BY <1>1, HeldSame DEF SerialInv, RunListen, Holds, cacheVars
<1> QED
  BY <1>2, <1>3, <1>4, <1>5 DEF Kept

LEMMA InsertKeeps ==
    ASSUME NEW c, Callers = {c}, SerialInv(c), RunInsert(c)
    PROVE  Kept(c)'
<1> DEFINE r == call[c].rt
           s == call[c].strategy
<1>1. /\ call[c].op = "run" /\ call[c].at = "listening"
      /\ call'[c].op = "none" /\ call'[c].at = "idle"
  BY ReturnFields DEF SerialInv, CacheInv, RunInsert, At
<1>2. /\ s \in Strategies /\ r \in Runtimes /\ r # NoRt /\ runtimes[s] = NoRt /\ rtState[r] = "running"
  <2>1. call[c] \in CallType /\ Owns(call[c])
    BY <1>1, CallTyped DEF SerialInv, CacheInv, Owns, Holds
  <2> QED
    BY <1>1, <2>1 DEF CallType, SerialInv, CacheInv, OwnInv, PlaceInv, StateInv, Entered, At, Registered
<1>3. runtimes'[s] = r /\ \A t \in Strategies : t # s => runtimes'[t] = runtimes[t]
  BY <1>2 DEF RunInsert, SerialInv, CacheInv, TypeOK
<1>4. PlaceInv(c)'
  BY <1>1 DEF PlaceInv, Entered, Prepared, Teardown, At, Stopping
<1>5. StateInv(c)'
  BY <1>1, <1>2, <1>3 DEF SerialInv, StateInv, RunInsert, Entered, Prepared, Teardown, At, Stopping, Registered
<1>6. AudienceInv(c)'
  <2>1. OwnListener(c) = {r} /\ OwnListener(c)' = {}
    BY <1>1 DEF OwnListener, Teardown, At, Stopping
  <2> HIDE DEF r, s
  <2>2. {runtimes'[t] : t \in Active'} = {runtimes[t] : t \in Active} \cup {r}
    BY <1>2, <1>3 DEF Active, Registered
  <2>3. ~Prepared(c)'
    BY <1>1 DEF Prepared, At
  <2> QED
    BY <2>1, <2>2, <2>3 DEF SerialInv, AudienceInv, RunInsert, dispatchVars
<1>7. ExactCount'
  <2>1. Holds(call[c]) /\ ~Holds(call'[c])
    BY <1>1 DEF Holds
  <2>2. Held' = Held
    BY <1>2, <1>3, <2>1 DEF Held, Holds, NoRt, Runtimes
  <2>3. \A k : HeldFor(k)' = HeldFor(k)
    BY <2>2 DEF HeldFor, RunInsert
  <2> QED
    BY <2>3 DEF SerialInv, ExactCount, RunInsert, cacheVars
<1> QED
  BY <1>4, <1>5, <1>6, <1>7 DEF Kept

LEMMA SetModeKeeps ==
    ASSUME NEW c, Callers = {c}, SerialInv(c), SetMode(c)
    PROVE  Kept(c)'
<1> DEFINE r == call[c].rt
           s == call[c].strategy
<1>1. /\ call[c].op \in {"pause", "resume"} /\ call[c].at = "got"
      /\ call'[c].op = "none" /\ call'[c].at = "idle"
  BY ReturnFields DEF SerialInv, CacheInv, SetMode
<1>2. /\ s \in Strategies /\ runtimes[s] = r /\ r # NoRt /\ r \in Runtimes
  <2>1. call[c] \in CallType
    BY <1>1, CallTyped DEF SerialInv, CacheInv
  <2> QED
    BY <1>1, <2>1 DEF CallType, SerialInv, CacheInv, TypeOK, PlaceInv, Registered
<1>3. rtState'[r] \in {"running", "paused"} /\ \A q \in Runtimes : q # r => rtState'[q] = rtState[q]
  BY <1>2 DEF SetMode, ModeOf, SerialInv, CacheInv, TypeOK
<1>4. r <= made /\ made \in Nat /\ rtState[r] # "stopped"
  BY <1>2 DEF SerialInv, CacheInv, TypeOK, OwnInv, StateInv, Registered
<1>5. PlaceInv(c)'
  BY <1>1 DEF PlaceInv, Entered, Prepared, Teardown, At, Stopping
<1>6. StateInv(c)'
  <2>1. \A q \in Runtimes : q > made => q # r
    BY <1>2, <1>4 DEF Runtimes
  <2>2. \A t \in Strategies : Registered(t) => runtimes[t] \in Runtimes /\ rtState[runtimes[t]] # "stopped"
    BY DEF SerialInv, StateInv, CacheInv, TypeOK, Registered
  <2> HIDE DEF r
  <2> QED
    BY <1>1, <1>3, <2>1, <2>2 DEF SerialInv, StateInv, SetMode, Entered, Prepared, Teardown, At, Stopping, Registered
<1>7. AudienceInv(c)'
  <2>1. OwnListener(c) = {} /\ OwnListener(c)' = {} /\ ~Prepared(c)'
    BY <1>1 DEF OwnListener, Teardown, Prepared, At, Stopping
  <2>2. \A q \in pending : rtState[q] = "stopped" => rtState'[q] = "stopped"
    BY <1>3, <1>4 DEF SerialInv, CacheInv, TypeOK
  <2> QED
    BY <2>1, <2>2 DEF SerialInv, AudienceInv, SetMode, Active, Registered, dispatchVars
<1>8. ExactCount'
  BY <1>1, HeldSame DEF SerialInv, SetMode, Holds, cacheVars
<1> QED
  BY <1>5, <1>6, <1>7, <1>8 DEF Kept

LEMMA RemoveKeeps ==
    ASSUME NEW c, Callers = {c}, SerialInv(c), NEW s \in Strategies, NEW op \in {"stop", "delete"},
           StopRemove(c, s, op)
    PROVE  Kept(c)'
<1> DEFINE r == runtimes[s]
<1>1. /\ call'[c].op = op /\ call'[c].at = "removed" /\ call'[c].strategy = s /\ call'[c].rt = r
      /\ call[c].op = "none"
  BY DEF StopRemove, SerialInv, CacheInv, TypeOK, Idle
<1>2. r \in Runtimes /\ r # NoRt /\ rtState[r] # "stopped"
  BY DEF StopRemove, Registered, SerialInv, CacheInv, TypeOK, StateInv
<1>3. runtimes'[s] = NoRt /\ \A t \in Strategies : t # s => runtimes'[t] = runtimes[t]
  BY DEF StopRemove, SerialInv, CacheInv, TypeOK
<1>4. \A t \in Strategies : t # s => runtimes[t] # r
  BY <1>2 DEF SerialInv, CacheInv, OwnInv, Registered
<1>5. PlaceInv(c)'
  BY <1>1, <1>2, <1>3, <1>4 DEF PlaceInv, Entered, Prepared, Teardown, At, Stopping, Registered
<1>6. StateInv(c)'
  BY <1>1, <1>2, <1>3 DEF SerialInv, StateInv, StopRemove, Entered, Prepared, Teardown, At, Stopping, Registered
<1>7. AudienceInv(c)'
  <2>1. OwnListener(c) = {} /\ OwnListener(c)' = {r} /\ ~Prepared(c)'
    BY <1>1 DEF OwnListener, Teardown, Prepared, At, Stopping
  <2>2. {runtimes[t] : t \in Active} = {runtimes'[t] : t \in Active'} \cup {r}
    BY <1>2, <1>3 DEF Active, Registered
  <2> HIDE DEF r
  <2> QED
    BY <2>1, <2>2 DEF SerialInv, AudienceInv, StopRemove, dispatchVars
<1>8. ExactCount'
  <2>1. ~Holds(call[c]) /\ Holds(call'[c])
    BY <1>1 DEF Holds
  <2>2. Held' = Held
    BY <1>1, <1>2, <1>3, <2>1 DEF Held, Holds, NoRt, Runtimes
  <2>3. \A k : HeldFor(k)' = HeldFor(k)
    BY <2>2 DEF HeldFor, StopRemove
  <2> QED
    BY <2>3 DEF SerialInv, ExactCount, StopRemove, cacheVars
<1> QED
  BY <1>5, <1>6, <1>7, <1>8 DEF Kept

(* Moving on within a stop.                                                *)
LEMMA StoppingFields ==
    ASSUME NEW c, Callers = {c}, SerialInv(c), Teardown(c),
           NEW at \in {"halted", "released", "stopped"}, Goto(c, at)
    PROVE  /\ call[c].op \in {"stop", "delete"} /\ call'[c].op = call[c].op
           /\ call'[c].rt = call[c].rt /\ call'[c].strategy = call[c].strategy /\ call'[c].at = at
           /\ call[c].rt \in Runtimes /\ ~Registered(call[c].strategy)
           /\ \A s \in Strategies : runtimes[s] # call[c].rt
  BY GotoFields DEF Teardown, Stopping, SerialInv, CacheInv, PlaceInv

LEMMA HaltKeeps ==
    ASSUME NEW c, Callers = {c}, SerialInv(c), StopHalt(c)
    PROVE  Kept(c)'
<1> DEFINE r == call[c].rt
<1>0. Teardown(c) /\ Goto(c, "halted") /\ call[c].at = "removed"
  BY DEF StopHalt, Teardown, Stopping
<1>1. /\ call[c].op \in {"stop", "delete"} /\ call'[c].op = call[c].op
      /\ call'[c].rt = r /\ call'[c].strategy = call[c].strategy /\ call'[c].at = "halted"
      /\ r \in Runtimes /\ ~Registered(call[c].strategy)
      /\ \A s \in Strategies : runtimes[s] # r
  BY <1>0, StoppingFields
<1>2. rtState'[r] = "stopped" /\ \A q \in Runtimes : q # r => rtState'[q] = rtState[q]
  BY <1>1 DEF StopHalt, SerialInv, CacheInv, TypeOK
<1>3. PlaceInv(c)'
  BY <1>1 DEF SerialInv, PlaceInv, StopHalt, Entered, Prepared, Teardown, At, Stopping, Registered
<1>4. StateInv(c)'
  <2>1. \A q \in Runtimes : q > made => q # r
    <3>1. r <= made /\ made \in Nat
      BY DEF SerialInv, CacheInv, TypeOK, OwnInv
    <3> QED
      BY <1>1, <3>1 DEF Runtimes
  <2>2. \A t \in Strategies : Registered(t) => runtimes[t] \in Runtimes /\ rtState[runtimes[t]] # "stopped"
    BY DEF SerialInv, StateInv, CacheInv, TypeOK, Registered
  <2> HIDE DEF r
  <2> QED
    BY <1>1, <1>2, <2>1, <2>2 DEF SerialInv, StateInv, StopHalt, Entered, Prepared, Teardown, At, Stopping, Registered
<1>5. AudienceInv(c)'
  <2>1. OwnListener(c) = {r} /\ OwnListener(c)' = {r} /\ ~Prepared(c)'
    BY <1>0, <1>1 DEF OwnListener, Teardown, Prepared, At, Stopping
  <2>2. \A q \in pending : rtState[q] = "stopped" => rtState'[q] = "stopped"
    BY <1>2 DEF SerialInv, CacheInv, TypeOK
  <2> QED
    BY <2>1, <2>2 DEF SerialInv, AudienceInv, StopHalt, Active, Registered, dispatchVars
<1>6. ExactCount'
  BY <1>0, <1>1, HeldSame DEF SerialInv, StopHalt, Holds, cacheVars
<1> QED
  BY <1>3, <1>4, <1>5, <1>6 DEF Kept

LEMMA UnsubscribeKeeps ==
    ASSUME NEW c, Callers = {c}, SerialInv(c), StopUnsubscribe(c)
    PROVE  Kept(c)'
<1>0. Teardown(c) /\ Goto(c, "released") /\ call[c].at = "halted"
  BY DEF StopUnsubscribe, Teardown, Stopping
<1>1. /\ call[c].op \in {"stop", "delete"} /\ call'[c].op = call[c].op
      /\ call'[c].rt = call[c].rt /\ call'[c].strategy = call[c].strategy /\ call'[c].at = "released"
      /\ call[c].rt \in Runtimes /\ ~Registered(call[c].strategy)
      /\ \A s \in Strategies : runtimes[s] # call[c].rt
  BY <1>0, StoppingFields
<1>2. PlaceInv(c)'
  BY <1>1 DEF SerialInv, PlaceInv, StopUnsubscribe, Entered, Prepared, Teardown, At, Stopping, Registered
<1>3. StateInv(c)'
  BY <1>0, <1>1 DEF SerialInv, StateInv, StopUnsubscribe, Entered, Prepared, Teardown, At, Stopping, Registered
<1>4. AudienceInv(c)'
  <2>1. OwnListener(c)' = OwnListener(c) /\ ~Prepared(c)'
    BY <1>0, <1>1 DEF OwnListener, Teardown, Prepared, At, Stopping
  <2> QED
    BY <2>1 DEF SerialInv, AudienceInv, StopUnsubscribe, Active, Registered, dispatchVars
<1>5. ExactCount'
  BY <1>0, <1>1, ReleaseExact DEF StopUnsubscribe, Holds
<1> QED
  BY <1>2, <1>3, <1>4, <1>5 DEF Kept

LEMMA UnlistenKeeps ==
    ASSUME NEW c, Callers = {c}, SerialInv(c), StopUnlisten(c)
    PROVE  Kept(c)'
<1> DEFINE r == call[c].rt
<1>0. Teardown(c) /\ call[c].at = "released" /\ call[c].op \in {"stop", "delete"}
      /\ rtState[r] = "stopped" /\ ~Registered(call[c].strategy)
      /\ \A s \in Strategies : runtimes[s] # r
  BY DEF StopUnlisten, Teardown, Stopping, SerialInv, StateInv, PlaceInv
<1>1. \/ call'[c].op = "none" /\ call'[c].at = "idle"
      \/ call'[c].op = "delete" /\ call'[c].at = "stopped" /\ call'[c].strategy = call[c].strategy
  <2>1. CASE Return(c)
    BY <2>1, ReturnFields DEF SerialInv, CacheInv
  <2>2. CASE call[c].op # "stop" /\ Goto(c, "stopped")
    BY <1>0, <2>2, StoppingFields
  <2> QED
    BY <2>1, <2>2 DEF StopUnlisten
<1>2. PlaceInv(c)'
  BY <1>0, <1>1 DEF SerialInv, PlaceInv, StopUnlisten, Entered, Prepared, Teardown, At, Stopping, Registered
<1>3. StateInv(c)'
  BY <1>1 DEF SerialInv, StateInv, StopUnlisten, Entered, Prepared, Teardown, At, Stopping, Registered
<1>4. AudienceInv(c)'
  <2>1. OwnListener(c) = {r} /\ OwnListener(c)' = {} /\ ~Prepared(c)'
    BY <1>0, <1>1 DEF OwnListener, Teardown, Prepared, At, Stopping
  <2>2. r \notin {runtimes[s] : s \in Active}
    BY <1>0 DEF Active
  <2> HIDE DEF r
  <2>3. listeners' = {runtimes[s] : s \in Active}
    BY <2>1, <2>2 DEF SerialInv, AudienceInv, StopUnlisten, r
  <2>4. \A q \in pending : q \in listeners' \/ rtState[q] = "stopped"
    BY <1>0, <2>1, <2>3 DEF SerialInv, AudienceInv
  <2> QED
    BY <2>1, <2>3, <2>4 DEF SerialInv, AudienceInv, StopUnlisten, Active, Registered, dispatchVars
<1>5. ExactCount'
  BY <1>0, <1>1, HeldSame DEF SerialInv, StopUnlisten, Holds, cacheVars
<1> QED
  BY <1>2, <1>3, <1>4, <1>5 DEF Kept

LEMMA DispatchKeeps ==
    ASSUME NEW c, Callers = {c}, SerialInv(c), Dispatch \/ UNCHANGED vars
    PROVE  Kept(c)'
<1>1. UNCHANGED <<runtimes, owner, made, rtState, listeners, refCount, call, deleted>>
  BY DEF Dispatch, StartDispatch, EnterHandler, LeaveHandler, vars, cacheVars
<1>2. PlaceInv(c)' /\ StateInv(c)'
  BY <1>1 DEF SerialInv, PlaceInv, StateInv, Entered, Prepared, Teardown, At, Stopping, Registered, Active
<1>3. ExactCount'
  BY <1>1, HeldSame DEF SerialInv
<1>4. OwnListener(c)' = OwnListener(c) /\ (Prepared(c)' <=> Prepared(c)) /\ Active' = Active
  BY <1>1 DEF OwnListener, Teardown, Prepared, At, Stopping, Active, Registered
<1>5. /\ \A s \in Strategies : runtimes[s] <= made
      /\ call[c].rt <= made /\ NoRt <= made /\ \A r \in listeners : r <= made
  <2>1. NoRt <= made
    BY SchedulerAssumption DEF SerialInv, CacheInv, TypeOK, NoRt
  <2>2. (\A s \in Strategies : runtimes[s] <= made) /\ call[c].rt <= made
    BY DEF SerialInv, CacheInv, OwnInv
  <2> QED
    BY <2>1, <2>2 DEF SerialInv, AudienceInv, OwnListener, Active
<1>6. Prepared(c) => call[c].rt \notin listeners /\ call[c].rt # NoRt
  <2> SUFFICES ASSUME Prepared(c) PROVE call[c].rt \notin listeners /\ call[c].rt # NoRt
    OBVIOUS
  <2>1. call[c].rt # NoRt /\ \A s \in Strategies : runtimes[s] # call[c].rt
    BY DEF Prepared, At, SerialInv, CacheInv, OwnInv, Owns, Holds
  <2>2. OwnListener(c) = {}
    BY DEF Prepared, OwnListener, Teardown, At, Stopping
  <2> QED
    BY <2>1, <2>2 DEF SerialInv, AudienceInv, Active
<1>7. AudienceInv(c)'
  <2>1. \/ pending' = listeners /\ handling' = handling
        \/ pending' \subseteq pending /\ (handling' = NoRt \/ handling' \in pending)
        \/ pending' = pending /\ handling' \in {handling, NoRt}
    BY DEF Dispatch, StartDispatch, EnterHandler, LeaveHandler, vars
  <2> QED
    BY <1>1, <1>4, <1>5, <1>6, <2>1 DEF SerialInv, AudienceInv
<1> QED
  BY <1>2, <1>3, <1>7 DEF Kept
-----------------------------------------------------------------------------
(* Every step is a step of Registry or changes nothing there               *)

LEMMA RegFollow ==
    ASSUME NEW c, Callers = {c}, SerialInv(c)'
    PROVE  Reg!Follow
<1>1. Follows'
  BY FollowsNext
<1>2. (listeners \ Leaving)' = InstalledRts' /\ CountedSeries' = InstalledSeries'
  BY <1>1 DEF Follows
<1>3. Reg!Installed' = {t \in Strategies : InstalledRt(t)' # NoRt}
  BY DEF Reg!Installed, Reg!None, NoRt
<1>4. {[t \in Strategies |-> InstalledRt(t)]'[s] : s \in Reg!Installed'} = InstalledRts'
  BY <1>3 DEF InstalledRts
<1>5. UNION {KeysOf[s] : s \in Reg!Installed'} = InstalledSeries'
  BY <1>3 DEF InstalledSeries
<1> QED
  BY <1>2, <1>4, <1>5 DEF Reg!Follow, CountedSeries

LEMMA SerialStep ==
    ASSUME NEW c, Callers = {c}, AllKnown, SerialInv(c), [Next]_vars
    PROVE  SerialInv(c)'
<1>0. CacheInv /\ c \in Callers
  BY DEF SerialInv
<1>1. CacheInv'
  BY <1>0, StepKeepsCache, RequestKeepsCache, DispatchKeepsCache DEF Next
<1>2. ASSUME Step(c) PROVE Kept(c)'
  <2>1. CASE RunRefused(c)
    BY <2>1, ReturnKeeps DEF RunRefused, At, Holds, OwnListener, Teardown, Stopping, cacheVars, dispatchVars
  <2>2. CASE RunSubscribeFails(c)
    <3>1. call[c] \in CallType
      BY <1>0, <2>2, CallTyped DEF RunSubscribeFails, At, CacheInv
    <3> QED
      BY <2>2, <3>1 DEF RunSubscribeFails, AllKnown, CallType
  <2>3. CASE DeleteStrategy(c)
    BY <2>3, ReturnKeeps DEF DeleteStrategy, At, Holds, OwnListener, Teardown, Stopping, cacheVars
  <2> QED
    BY <1>2, <2>1, <2>2, <2>3, CheckKeeps, SubscribeKeeps, FeedRefusedKeeps, ListenKeeps, InsertKeeps,
       SetModeKeeps, HaltKeeps, UnsubscribeKeeps, UnlistenKeeps DEF Step
<1>3. ASSUME Request(c) PROVE Kept(c)'
  <2>1. PICK s \in Strategies :
          \/ RunLoad(c, s)
          \/ \E op \in {"pause", "resume"} : GetRuntime(c, s, op)
          \/ \E op \in {"stop", "delete"} : StopRemove(c, s, op)
          \/ DeleteIdle(c, s)
    BY <1>3 DEF Request
  <2> DEFINE new(op, at, rt) == [op |-> op, at |-> at, strategy |-> s, rt |-> rt]
  <2>2. CASE RunLoad(c, s)
    <3>1. new("run", "loaded", NoRt) \in CallType
      BY DEF CallType, Ops
    <3> QED
      BY <2>2, <3>1, BeginKeeps DEF RunLoad, cacheVars, dispatchVars
  <2>3. ASSUME NEW op \in {"pause", "resume"}, GetRuntime(c, s, op) PROVE Kept(c)'
    <3>1. new(op, "got", runtimes[s]) \in CallType
      BY DEF CallType, Ops, SerialInv, CacheInv, TypeOK
    <3> QED
      BY <2>3, <3>1, BeginKeeps DEF GetRuntime, cacheVars, dispatchVars
  <2>4. CASE DeleteIdle(c, s)
    <3>1. new("delete", "stopped", NoRt) \in CallType
      BY DEF CallType, Ops
    <3> QED
      BY <2>4, <3>1, BeginKeeps DEF DeleteIdle, cacheVars, dispatchVars
  <2> QED
    BY <2>1, <2>2, <2>3, <2>4, RemoveKeeps
<1>4. Kept(c)'
  BY <1>2, <1>3, DispatchKeeps DEF Next
<1> QED
  BY <1>1, <1>4 DEF SerialInv, Kept

LEMMA SerialInit ==
    ASSUME NEW c, Callers = {c}, Init
    PROVE  SerialInv(c)
<1>1. CacheInv
  BY InitCache
<1>2. call[c] = Idle /\ Active = {} /\ ~Holds(Idle) /\ OwnListener(c) = {}
  BY IdleFacts DEF Init, Active, Registered, OwnListener, Teardown, At, Stopping, Idle
<1>3. PlaceInv(c) /\ StateInv(c)
  BY <1>2 DEF Init, PlaceInv, StateInv, Entered, Prepared, Teardown, At, Stopping, Idle, Registered
<1>4. AudienceInv(c)
  BY <1>2 DEF Init, AudienceInv, Prepared, At, Idle, NoRt
<1>5. ExactCount
  <2>1. \A k : HeldFor(k) = {}
    BY IdleFacts DEF Init, HeldFor, Held, NoRt, Runtimes
  <2> QED
    BY <2>1, FS_EmptySet DEF Init, ExactCount
<1> QED
  BY <1>1, <1>3, <1>4, <1>5 DEF SerialInv

LEMMA RegInit ==
    ASSUME NEW c, Callers = {c}, Init
    PROVE  Reg!Init
<1>1. SerialInv(c) /\ call[c] = Idle
  BY SerialInit DEF Init
<1>2. \A s \in Strategies : InstalledRt(s) = NoRt
  BY <1>1, InstalledIs DEF Midway, At, Stopping, Idle, Init
<1>3. InstalledRts = {} /\ InstalledSeries = {}
  BY <1>2 DEF InstalledRts, InstalledSeries
<1>4. listeners \ Leaving = {} /\ CountedSeries = {}
  BY <1>1, <1>3, FollowsNow DEF Follows
<1> QED
  BY <1>2, <1>4 DEF Reg!Init, Reg!None, NoRt, CountedSeries, Init

LEMMA InstalledNext ==
    ASSUME NEW c, Callers = {c}, NEW s
    PROVE  /\ Midway(c, s)' => InstalledRt(s)' = call'[c].rt
           /\ ~Midway(c, s)' => InstalledRt(s)' = runtimes'[s]
  BY DEF InstalledRt

(* The steps of a call before or after the one that counts.                *)
LEMMA QuietlyUnseen ==
    ASSUME NEW c, Callers = {c}, SerialInv(c), SerialInv(c)',
           \A s \in Strategies : ~Midway(c, s) /\ ~Midway(c, s)',
           UNCHANGED <<runtimes, rtState, handling, deleted>>
    PROVE  UNCHANGED Reg!vars
<1>1. \A s \in Strategies : InstalledRt(s)' = InstalledRt(s)
  BY InstalledIs, InstalledNext
<1> QED
  BY <1>1, Unseen

LEMMA ListenIsRun ==
    ASSUME NEW c, Callers = {c}, SerialInv(c), SerialInv(c)', RunListen(c)
    PROVE  \E s \in Strategies, r \in Runtimes : Reg!Run(s, r)
<1> DEFINE r == call[c].rt
           s == call[c].strategy
<1>1. /\ call[c] \in CallType /\ call[c].op = "run" /\ call[c].at = "subscribed"
      /\ call'[c].op = "run" /\ call'[c].rt = r /\ call'[c].strategy = s /\ call'[c].at = "listening"
  BY GotoFields DEF SerialInv, CacheInv, RunListen, At
<1>2. /\ s \in Strategies /\ r \in Runtimes /\ r # NoRt /\ runtimes[s] = NoRt /\ s \notin deleted
      /\ rtState[r] = "running" /\ r # handling /\ \A t \in Strategies : runtimes[t] # r
      /\ Cardinality(Active) < MaxConcurrent
  BY <1>1 DEF SerialInv, CacheInv, OwnInv, Owns, Holds, CallType, PlaceInv, StateInv, AudienceInv,
     Entered, Prepared, At, Registered
<1>3. \A t \in Strategies : InstalledRt(t) = runtimes[t]
  BY <1>1, InstalledIs DEF Midway, At, Stopping
<1>4. \A t \in Strategies : InstalledRt(t)' = IF t = s THEN r ELSE runtimes[t]
  <2>1. \A t \in Strategies : Midway(c, t)' <=> t = s
    BY <1>1 DEF Midway, At, Stopping
  <2>2. runtimes' = runtimes
    BY DEF RunListen
  <2> QED
    BY <1>1, <2>1, <2>2, InstalledNext
<1>5. r \notin listeners
  <2>1. OwnListener(c) = {}
    BY <1>1 DEF OwnListener, Teardown, At, Stopping
  <2> QED
    BY <1>2, <2>1 DEF SerialInv, AudienceInv, Active
<1>6. Reg!Installed = Active
  BY <1>3 DEF Reg!Installed, Reg!None, Active, Registered, NoRt
<1>7. Reg!Follow
  BY RegFollow
<1>8. rtState' = rtState /\ handling' = handling /\ deleted' = deleted
  BY DEF RunListen, dispatchVars
<1> HIDE DEF r, s
<1>9. [t \in Strategies |-> InstalledRt(t)]' = [[t \in Strategies |-> InstalledRt(t)] EXCEPT ![s] = r]
  BY <1>2, <1>3, <1>4
<1>10. [t \in Strategies |-> IF InstalledRt(t) = NoRt THEN "absent" ELSE rtState[InstalledRt(t)]]'
         = [[t \in Strategies |-> IF InstalledRt(t) = NoRt THEN "absent" ELSE rtState[InstalledRt(t)]]
              EXCEPT ![s] = "running"]
  BY <1>2, <1>3, <1>4, <1>8
<1>11. Reg!Run(s, r)
  BY <1>2, <1>3, <1>5, <1>6, <1>7, <1>8, <1>9, <1>10 DEF Reg!Run, Reg!None, NoRt, Reg!Cardinality, Cardinality
<1> QED
  BY <1>2, <1>11

LEMMA HaltIsStop ==
    ASSUME NEW c, Callers = {c}, SerialInv(c), SerialInv(c)', StopHalt(c)
    PROVE  \E s \in Strategies : Reg!Stop(s)
<1> DEFINE r == call[c].rt
           s == call[c].strategy
<1>0. Teardown(c) /\ Goto(c, "halted") /\ call[c].at = "removed" /\ call[c].op \in {"stop", "delete"}
  BY DEF StopHalt, Teardown, Stopping
<1>1. /\ call[c] \in CallType
      /\ call'[c].op = call[c].op
      /\ call'[c].rt = r /\ call'[c].strategy = s /\ call'[c].at = "halted"
      /\ r \in Runtimes /\ r # NoRt /\ s \in Strategies /\ runtimes[s] = NoRt
      /\ \A t \in Strategies : runtimes[t] # r
  <2>1. call[c] \in CallType
    BY <1>0, CallTyped DEF SerialInv, CacheInv
  <2> QED
    BY <1>0, <2>1, StoppingFields DEF CallType, Registered, Runtimes, NoRt
<1>2. \A t \in Strategies : InstalledRt(t) = IF t = s THEN r ELSE runtimes[t]
  BY <1>0, InstalledIs DEF Midway, At, Stopping
<1>3. \A t \in Strategies : InstalledRt(t)' = runtimes[t]
  <2>1. \A t \in Strategies : ~Midway(c, t)'
    BY <1>1 DEF Midway, At, Stopping
  <2>2. runtimes' = runtimes
    BY DEF StopHalt
  <2> QED
    BY <2>1, <2>2, InstalledNext
<1>4. \A q \in Runtimes : q # r => rtState'[q] = rtState[q]
  BY DEF StopHalt, SerialInv, CacheInv, TypeOK
<1>5. \A t \in Strategies : runtimes[t] \in Runtimes \cup {NoRt}
  BY DEF SerialInv, CacheInv, TypeOK
<1>6. Reg!Follow
  BY RegFollow
<1>7. handling' = handling /\ deleted' = deleted
  BY DEF StopHalt, dispatchVars
<1> HIDE DEF r, s
<1>8. [t \in Strategies |-> InstalledRt(t)]' = [[t \in Strategies |-> InstalledRt(t)] EXCEPT ![s] = NoRt]
  BY <1>1, <1>2, <1>3
<1>9. [t \in Strategies |-> IF InstalledRt(t) = NoRt THEN "absent" ELSE rtState[InstalledRt(t)]]'
        = [[t \in Strategies |-> IF InstalledRt(t) = NoRt THEN "absent" ELSE rtState[InstalledRt(t)]]
             EXCEPT ![s] = "absent"]
  <2>1. \A t \in Strategies :
          (IF InstalledRt(t)' = NoRt THEN "absent" ELSE rtState'[InstalledRt(t)'])
            = IF t = s THEN "absent" ELSE IF InstalledRt(t) = NoRt THEN "absent" ELSE rtState[InstalledRt(t)]
    BY <1>1, <1>2, <1>3, <1>4, <1>5
  <2> QED
    BY <2>1, Zenon
<1>10. Reg!Stop(s)
  BY <1>1, <1>2, <1>6, <1>7, <1>8, <1>9 DEF Reg!Stop, Reg!None, NoRt
<1> QED
  BY <1>1, <1>10

(* What a step that changes no runtime and no listener leaves as it is.    *)
LEMMA FrameFollows ==
    ASSUME NEW c, Callers = {c}, SerialInv(c), SerialInv(c)',
           \A s \in Strategies : InstalledRt(s)' = InstalledRt(s)
    PROVE  /\ [s \in Strategies |-> InstalledRt(s)]' = [s \in Strategies |-> InstalledRt(s)]
           /\ (listeners \ Leaving)' = listeners \ Leaving
           /\ {k \in Keys : refCount[k] > Cardinality(OnTheWay(k))}'
                = {k \in Keys : refCount[k] > Cardinality(OnTheWay(k))}
<1>1. InstalledRts' = InstalledRts /\ InstalledSeries' = InstalledSeries
  BY DEF InstalledRts, InstalledSeries
<1>2. (listeners \ Leaving)' = listeners \ Leaving /\ CountedSeries' = CountedSeries
  BY <1>1, FollowsNow, FollowsNext DEF Follows
<1> QED
  BY <1>2 DEF CountedSeries

LEMMA SetModeIsSetMode ==
    ASSUME NEW c, Callers = {c}, SerialInv(c), SerialInv(c)', SetMode(c)
    PROVE  \E s \in Strategies, m \in {"running", "paused"} : Reg!SetMode(s, m)
<1> DEFINE r == call[c].rt
           s == call[c].strategy
           m == ModeOf(call[c].op)
<1>1. /\ call[c].op \in {"pause", "resume"} /\ call'[c].op = "none" /\ call'[c].at = "idle"
      /\ m \in {"running", "paused"}
  BY ReturnFields DEF SerialInv, CacheInv, SetMode, ModeOf
<1>2. /\ s \in Strategies /\ runtimes[s] = r /\ r # NoRt /\ r \in Runtimes
      /\ \A t \in Strategies : t # s => runtimes[t] # r
  <2>1. call[c] \in CallType
    BY <1>1, CallTyped DEF SerialInv, CacheInv
  <2>2. s \in Strategies /\ runtimes[s] = r /\ r # NoRt /\ r \in Runtimes
    BY <1>1, <2>1 DEF CallType, SerialInv, CacheInv, TypeOK, PlaceInv, Registered
  <2> QED
    BY <2>2 DEF SerialInv, CacheInv, OwnInv, Registered
<1>3. \A t \in Strategies : InstalledRt(t) = runtimes[t] /\ InstalledRt(t)' = runtimes[t]
  <2>1. \A t \in Strategies : ~Midway(c, t) /\ ~Midway(c, t)'
    BY <1>1 DEF Midway, At, Stopping
  <2>2. runtimes' = runtimes
    BY DEF SetMode
  <2> QED
    BY <2>1, <2>2, InstalledIs, InstalledNext
<1>4. rtState'[r] = m /\ \A q \in Runtimes : q # r => rtState'[q] = rtState[q]
  BY <1>2 DEF SetMode, SerialInv, CacheInv, TypeOK
<1>5. \A t \in Strategies : runtimes[t] \in Runtimes \cup {NoRt}
  BY DEF SerialInv, CacheInv, TypeOK
<1>6. handling' = handling /\ deleted' = deleted
  BY DEF SetMode, dispatchVars
<1> HIDE DEF r, s, m
<1>7. [t \in Strategies |-> IF InstalledRt(t) = NoRt THEN "absent" ELSE rtState[InstalledRt(t)]]'
        = [[t \in Strategies |-> IF InstalledRt(t) = NoRt THEN "absent" ELSE rtState[InstalledRt(t)]]
             EXCEPT ![s] = m]
  <2>1. \A t \in Strategies :
          (IF InstalledRt(t)' = NoRt THEN "absent" ELSE rtState'[InstalledRt(t)'])
            = IF t = s THEN m ELSE IF InstalledRt(t) = NoRt THEN "absent" ELSE rtState[InstalledRt(t)]
    BY <1>2, <1>3, <1>4, <1>5
  <2> QED
    BY <2>1, Zenon
<1>8. Reg!SetMode(s, m)
  BY <1>2, <1>3, <1>6, <1>7, FrameFollows DEF Reg!SetMode, Reg!None, NoRt
<1> QED
  BY <1>1, <1>2, <1>8

LEMMA DeleteIsDelete ==
    ASSUME NEW c, Callers = {c}, SerialInv(c), SerialInv(c)', DeleteStrategy(c)
    PROVE  \E s \in Strategies : Reg!Delete(s)
<1> DEFINE s == call[c].strategy
<1>1. /\ call[c].op = "delete" /\ call[c].at = "stopped" /\ call'[c].op = "none" /\ call'[c].at = "idle"
      /\ UNCHANGED <<runtimes, rtState, handling>> /\ deleted' = deleted \cup {s}
  BY ReturnFields DEF SerialInv, CacheInv, DeleteStrategy, At
<1>2. s \in Strategies /\ runtimes[s] = NoRt
  <2>1. call[c] \in CallType
    BY <1>1, CallTyped DEF SerialInv, CacheInv
  <2> QED
    BY <1>1, <2>1 DEF CallType, SerialInv, PlaceInv, At, Registered
<1>3. \A t \in Strategies : InstalledRt(t) = runtimes[t] /\ InstalledRt(t)' = InstalledRt(t)
  <2>1. \A t \in Strategies : ~Midway(c, t) /\ ~Midway(c, t)'
    BY <1>1 DEF Midway, At, Stopping
  <2> QED
    BY <1>1, <2>1, InstalledIs, InstalledNext
<1> HIDE DEF s
<1>4. [t \in Strategies |-> IF InstalledRt(t) = NoRt THEN "absent" ELSE rtState[InstalledRt(t)]]'
        = [t \in Strategies |-> IF InstalledRt(t) = NoRt THEN "absent" ELSE rtState[InstalledRt(t)]]
  BY <1>1, <1>3
<1>5. Reg!Delete(s)
  BY <1>1, <1>2, <1>3, <1>4, FrameFollows DEF Reg!Delete, Reg!None, NoRt
<1> QED
  BY <1>2, <1>5

(* A listener that is called after its runtime was stopped does nothing.   *)
LEMMA HandlerIsCandle ==
    ASSUME NEW c, Callers = {c}, SerialInv(c), SerialInv(c)', Dispatch \/ UNCHANGED vars
    PROVE  Reg!Next \/ UNCHANGED Reg!vars
<1>1. UNCHANGED <<runtimes, rtState, listeners, call, deleted>>
  BY DEF Dispatch, StartDispatch, EnterHandler, LeaveHandler, vars
<1>2. \A t \in Strategies : InstalledRt(t)' = InstalledRt(t)
  <2>1. \A t \in Strategies : Midway(c, t)' <=> Midway(c, t)
    BY <1>1 DEF Midway, At, Stopping
  <2> QED
    BY <1>1, <2>1, InstalledIs, InstalledNext
<1>3. [t \in Strategies |-> IF InstalledRt(t) = NoRt THEN "absent" ELSE rtState[InstalledRt(t)]]'
        = [t \in Strategies |-> IF InstalledRt(t) = NoRt THEN "absent" ELSE rtState[InstalledRt(t)]]
  BY <1>1, <1>2
<1>4. CASE handling' = handling
  BY <1>1, <1>2, <1>4, Unseen
<1>5. ASSUME NEW r \in Runtimes, EnterHandler(r), handling' # handling PROVE Reg!TakeCandle(r)
  <2>1. r \in pending /\ handling = NoRt /\ handling' = r /\ rtState[r] # "stopped"
    BY <1>5 DEF EnterHandler
  <2>2. r \in listeners
    BY <2>1 DEF SerialInv, AudienceInv
  <2>3. r \notin Leaving
    BY <2>1, LeavingIs DEF SerialInv, StateInv
  <2> QED
    BY <1>1, <1>2, <1>3, <2>1, <2>2, <2>3, FrameFollows DEF Reg!TakeCandle, Reg!None, NoRt
<1>6. CASE LeaveHandler
  BY <1>1, <1>2, <1>3, <1>6, FrameFollows DEF LeaveHandler, Reg!FinishCandle, Reg!Next, Reg!None, NoRt
<1> QED
  <2>1. CASE \E r \in Runtimes : EnterHandler(r)
    BY <1>4, <1>5, <2>1 DEF Reg!Next
  <2>2. CASE StartDispatch \/ UNCHANGED vars
    BY <1>4, <2>2 DEF StartDispatch, vars
  <2> QED
    BY <1>6, <2>1, <2>2 DEF Dispatch

LEMMA StepImplements ==
    ASSUME NEW c, Callers = {c}, AllKnown, SerialInv(c), SerialInv(c)', [Next]_vars
    PROVE  Reg!Next \/ UNCHANGED Reg!vars
<1>0. c \in Callers /\ TypeOK /\ CacheInv
  BY DEF SerialInv, CacheInv
<1>1. ASSUME Step(c) PROVE Reg!Next \/ UNCHANGED Reg!vars
  <2>1. CASE RunRefused(c) \/ RunFeedRefused(c)
    <3>1. call'[c].op = "none" /\ call[c].op = "run" /\ call[c].at \in {"loaded", "subscribed"}
      BY <1>0, <2>1, ReturnFields DEF RunRefused, RunFeedRefused, At
    <3> QED
      BY <2>1, <3>1, QuietlyUnseen DEF RunRefused, RunFeedRefused, Midway, At, Stopping, dispatchVars
  <2>2. CASE RunCheck(c)
    <3>1. call'[c].op = "run" /\ call'[c].at = "checked" /\ call[c].op = "run" /\ call[c].at = "loaded"
      <4>1. call[c] \in CallType
        BY <1>0, <2>2, CallTyped DEF RunCheck, At
      <4> QED
        BY <1>0, <2>2, <4>1 DEF RunCheck, At, TypeOK, CallType
    <3> QED
      BY <2>2, <3>1, QuietlyUnseen DEF RunCheck, Midway, At, Stopping, dispatchVars
  <2>3. CASE RunSubscribe(c)
    <3>1. call'[c].op = "run" /\ call'[c].at = "subscribed" /\ call[c].op = "run" /\ call[c].at = "checked"
      BY <1>0, <2>3, GotoFields DEF RunSubscribe, At
    <3> QED
      BY <2>3, <3>1, QuietlyUnseen DEF RunSubscribe, Midway, At, Stopping, dispatchVars
  <2>4. CASE RunSubscribeFails(c)
    <3>1. call[c] \in CallType
      BY <1>0, <2>4, CallTyped DEF RunSubscribeFails, At
    <3> QED
      BY <2>4, <3>1 DEF RunSubscribeFails, AllKnown, CallType
  <2>5. CASE RunListen(c)
    BY <2>5, ListenIsRun DEF Reg!Next, Reg!Call
  <2>6. CASE RunInsert(c)
    <3>1. /\ call[c].op = "run" /\ call[c].at = "listening" /\ call'[c].op = "none"
      BY <1>0, <2>6, ReturnFields DEF RunInsert, At
    <3>2. call[c].strategy \in Strategies
      BY <1>0, <3>1, CallTyped DEF CallType
    <3>3. \A t \in Strategies : InstalledRt(t)' = InstalledRt(t)
      <4>1. \A t \in Strategies : InstalledRt(t) = IF t = call[c].strategy THEN call[c].rt ELSE runtimes[t]
        BY <3>1, InstalledIs DEF Midway, At, Stopping
      <4>2. \A t \in Strategies : InstalledRt(t)' = runtimes'[t]
        BY <3>1, InstalledNext DEF Midway, At, Stopping
      <4>3. \A t \in Strategies : runtimes'[t] = IF t = call[c].strategy THEN call[c].rt ELSE runtimes[t]
        BY <1>0, <2>6, <3>2 DEF RunInsert, TypeOK
      <4> QED
        BY <4>1, <4>2, <4>3
    <3> QED
      BY <2>6, <3>3, Unseen DEF RunInsert, dispatchVars
  <2>7. CASE SetMode(c)
    BY <2>7, SetModeIsSetMode DEF Reg!Next, Reg!Call
  <2>8. CASE StopHalt(c)
    BY <2>8, HaltIsStop DEF Reg!Next, Reg!Call
  <2>9. CASE StopUnsubscribe(c)
    <3>1. Teardown(c) /\ Goto(c, "released") /\ call[c].at = "halted"
      BY <2>9 DEF StopUnsubscribe, Teardown, Stopping
    <3>2. call[c].op \in {"stop", "delete"} /\ call'[c].op = call[c].op /\ call'[c].at = "released"
      BY <3>1, StoppingFields
    <3> QED
      BY <2>9, <3>1, <3>2, QuietlyUnseen DEF StopUnsubscribe, Midway, At, Stopping, dispatchVars
  <2>10. CASE StopUnlisten(c)
    <3>1. Teardown(c) /\ call[c].at = "released" /\ call[c].op \in {"stop", "delete"}
      BY <2>10 DEF StopUnlisten, Teardown, Stopping
    <3>2. call'[c].at \in {"idle", "stopped"}
      BY <1>0, <2>10, <3>1, ReturnFields, StoppingFields DEF StopUnlisten
    <3> QED
      BY <2>10, <3>1, <3>2, QuietlyUnseen DEF StopUnlisten, Midway, At, Stopping, dispatchVars
  <2>11. CASE DeleteStrategy(c)
    BY <2>11, DeleteIsDelete DEF Reg!Next, Reg!Call
  <2> QED
    BY <1>1, <2>1, <2>2, <2>3, <2>4, <2>5, <2>6, <2>7, <2>8, <2>9, <2>10, <2>11 DEF Step
<1>2. ASSUME Request(c) PROVE Reg!Next \/ UNCHANGED Reg!vars
  <2>1. PICK s \in Strategies :
          \/ RunLoad(c, s)
          \/ \E op \in {"pause", "resume"} : GetRuntime(c, s, op)
          \/ \E op \in {"stop", "delete"} : StopRemove(c, s, op)
          \/ DeleteIdle(c, s)
    BY <1>2 DEF Request
  <2>2. CASE RunLoad(c, s) \/ (\E op \in {"pause", "resume"} : GetRuntime(c, s, op)) \/ DeleteIdle(c, s)
    <3>1. call[c].at = "idle" /\ call'[c].at \in {"loaded", "got", "stopped"}
      BY <1>0, <2>2 DEF RunLoad, GetRuntime, DeleteIdle, TypeOK, Idle
    <3> QED
      BY <2>2, <3>1, QuietlyUnseen DEF RunLoad, GetRuntime, DeleteIdle, Midway, At, Stopping, dispatchVars
  <2>3. ASSUME NEW op \in {"stop", "delete"}, StopRemove(c, s, op) PROVE UNCHANGED Reg!vars
    <3>1. /\ call[c].op = "none"
          /\ call'[c].op = op /\ call'[c].at = "removed" /\ call'[c].strategy = s /\ call'[c].rt = runtimes[s]
      BY <1>0, <2>3 DEF StopRemove, TypeOK, Idle
    <3>2. \A t \in Strategies : t # s => runtimes'[t] = runtimes[t]
      BY <1>0, <2>3 DEF StopRemove, TypeOK
    <3>3. \A t \in Strategies : InstalledRt(t)' = InstalledRt(t)
      <4>1. \A t \in Strategies : InstalledRt(t) = runtimes[t]
        BY <3>1, InstalledIs DEF Midway, At, Stopping
      <4>2. \A t \in Strategies : InstalledRt(t)' = IF t = s THEN runtimes[s] ELSE runtimes'[t]
        BY <3>1, InstalledNext DEF Midway, At, Stopping
      <4> QED
        BY <3>2, <4>1, <4>2
    <3> QED
      BY <2>3, <3>3, Unseen DEF StopRemove, dispatchVars
  <2> QED
    BY <2>1, <2>2, <2>3
<1> QED
  BY <1>1, <1>2, HandlerIsCandle DEF Next

(* With one caller at a time, and strategies whose indicators all exist,   *)
(* engine.go implements the registry that does every call in one step: it  *)
(* hands each candle to exactly the runtimes that are installed and keeps  *)
(* exactly the series they read, whatever the strategies, the series they  *)
(* share and the cap.                                                      *)
THEOREM SerialImplementsRegistry ==
    ASSUME NEW c, Callers = {c}, AllKnown
    PROVE  Spec => ImplementsRegistry
<1>1. Init => SerialInv(c) /\ Reg!Init
  BY SerialInit, RegInit
<1>2. SerialInv(c) /\ [Next]_vars => SerialInv(c)'
  BY SerialStep
<1>3. SerialInv(c) /\ SerialInv(c)' /\ [Next]_vars => [Reg!Next]_(Reg!vars)
  BY StepImplements
<1> QED
  BY <1>1, <1>2, <1>3, PTL DEF Spec, ImplementsRegistry, Reg!Spec
=============================================================================
