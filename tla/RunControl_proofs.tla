--------------------------- MODULE RunControl_proofs ---------------------------
(***************************************************************************)
(* Proofs about RunControl, for any number of strategies and of requests   *)
(* at the same time:                                                       *)
(*   - every variable keeps its type;                                      *)
(*   - a strategy whose stop was answered stays out of the registry until  *)
(*     a human runs it again, through restarts if desired_status has it.   *)
(* StoppedStaysOut alone is not inductive.  A strategy could come back     *)
(* from what was persisted or from what a start-up still has to do, and a  *)
(* stop is answered later than it is carried out: StopInv speaks of these. *)
(***************************************************************************)
EXTENDS RunControl, TLAPS

(* The end of a pass over the strategies changes neither what is left to   *)
(* do nor its type.                                                        *)
LEMMA RestKeeps ==
    ASSUME NEW ats, "idle" \in ats, NEW job \in Job(ats)
    PROVE  /\ Rest(job) \in Job(ats)
           /\ Rest(job).todo = job.todo
           /\ Rest(job).id = job.id
  BY DEF Rest, Job, Idle

(* Setting the state of a runtime registers nothing.                       *)
LEMMA SetRegisteredKeeps ==
    ASSUME NEW id \in Ids, NEW st \in {"running", "paused"},
           rt \in [Ids -> {"absent", "running", "paused"}],
           SetRegistered(id, st)
    PROVE  /\ rt' \in [Ids -> {"absent", "running", "paused"}]
           /\ \A i \in Ids : rt'[i] = "absent" <=> rt[i] = "absent"
  BY DEF SetRegistered, Registered

LEMMA AfterTypes ==
    ASSUME NEW op \in Ops, NEW old \in {"none", "running", "paused", "stopped"}
    PROVE  /\ RuntimeAfter(op) \in {"absent", "running", "paused"}
           /\ DesiredAfter(op, old) \in {"none", "running", "paused", "stopped"}
           /\ op = "stop" => RuntimeAfter(op) = "absent" /\ DesiredAfter(op, old) = "stopped"
  BY DEF RuntimeAfter, DesiredAfter, Ops

(* Answering a request changes, of the decisions, only what became of the  *)
(* one about its strategy.                                                 *)
LEMMA PersistKeeps ==
    ASSUME TypeOK, NEW h \in Humans, Persist(h)
    PROVE  LET id == call[h].id
               op == call[h].op
           IN  /\ id \in Ids /\ op \in Ops
               /\ decision' \in [Ids -> [op : Ops \cup {"none"}, at : Humans \cup Answered]]
               /\ \A i \in Ids : decision'[i].op = decision[i].op
               /\ \A i \in Ids : i # id => decision'[i] = decision[i] /\ desired'[i] = desired[i]
               /\ decision[id].at = h => decision'[id].at \in {"saved", "unsaved"}
               /\ decision[id].at # h => decision'[id].at \in {decision[id].at, "unsaved"}
               /\ decision[id].at = "lost" => decision'[id].at = "lost"
               /\ decision'[id].at = "saved" =>
                     \/ decision[id].at = h /\ desired'[id] = DesiredAfter(op, desired[id])
                     \/ /\ decision[id].at = "saved"
                        /\ \/ desired'[id] = desired[id]
                           \/ op = decision[id].op /\ desired'[id] = DesiredAfter(op, desired[id])
<1> DEFINE id == call[h].id
           op == call[h].op
<1> USE RunControlAssumption
<1>1. id \in Ids /\ op \in Ops
  BY DEF TypeOK, Persist
<1>2. PICK stored \in BOOLEAN :
         /\ desired' = IF stored THEN [desired EXCEPT ![id] = DesiredAfter(op, @)] ELSE desired
         /\ decision' = DecisionAfter(h, stored)
  BY Zenon DEF Persist
<1> DEFINE at == IF decision[id].at = h THEN IF stored THEN "saved" ELSE "unsaved"
                 ELSE IF stored /\ decision[id].at = "saved" /\ op # decision[id].op THEN "unsaved"
                 ELSE decision[id].at
<1>3. decision' = [decision EXCEPT ![id] = [op |-> decision[id].op, at |-> at]]
  <2>1. decision[id] \in [op : Ops \cup {"none"}, at : Humans \cup Answered]
    BY <1>1 DEF TypeOK
  <2>2. [decision[id] EXCEPT !.at = at] = [op |-> decision[id].op, at |-> at]
    BY <2>1
  <2>3. decision' = [decision EXCEPT ![id].at = at]
    BY <1>2 DEF DecisionAfter
  <2>4. QED BY <2>2, <2>3
<1>4. at \in Humans \cup Answered
  BY <1>1 DEF TypeOK, Answered
<1>5. decision' \in [Ids -> [op : Ops \cup {"none"}, at : Humans \cup Answered]]
  BY <1>1, <1>3, <1>4 DEF TypeOK
<1>6. decision'[id] = [op |-> decision[id].op, at |-> at] /\ \A i \in Ids : i # id => decision'[i] = decision[i]
  BY <1>1, <1>3 DEF TypeOK
<1>7. /\ \A i \in Ids : i # id => desired'[i] = desired[i]
      /\ stored => desired'[id] = DesiredAfter(op, desired[id])
      /\ ~stored => desired'[id] = desired[id]
  BY <1>1, <1>2 DEF TypeOK
<1>8. decision[id].at = h => decision[id].at \notin Answered
  BY DEF Answered
<1>9. QED
  BY <1>1, <1>5, <1>6, <1>7, <1>8 DEF Answered
-----------------------------------------------------------------------------
(* Every variable keeps its type, whatever the two monitors, the start-up  *)
(* and the handlers are in the middle of.                                  *)
LEMMA TypedStep == ASSUME TypeOK, [Next]_vars PROVE TypeOK'
<1> USE RunControlAssumption DEF TypeOK
<1>1. CASE Poll
  <2>1. Opening(autoPaused) \in Job({"idle", "opening", "closing"})
    BY DEF Opening, Rest, Job, Idle
  <2>2. Closing(Active) \in Job({"idle", "opening", "closing"})
    BY DEF Closing, Rest, Job, Idle, Active
  <2>3. Idle \in Job({"idle", "opening", "closing"})
    BY DEF Idle, Job
  <2>4. session' \in Job({"idle", "opening", "closing"}) /\ autoPaused' \subseteq Ids /\ wasOpen' \in BOOLEAN
    BY <1>1, <2>1, <2>2, <2>3 DEF Poll
  <2>5. QED BY <1>1, <2>4 DEF Poll
<1>2. ASSUME NEW id \in Ids, SessionCheck(id) PROVE TypeOK'
  <2>1. PICK to \in Ids \cup {NoId} : session' = Rest([session EXCEPT !.todo = @ \ {id}, !.id = to])
    BY <1>2, Zenon DEF SessionCheck
  <2>2. [session EXCEPT !.todo = @ \ {id}, !.id = to] \in Job({"idle", "opening", "closing"})
    BY DEF Job
  <2>3. session' \in Job({"idle", "opening", "closing"})
    BY <2>1, <2>2, RestKeeps
  <2>4. QED BY <1>2, <2>3 DEF SessionCheck
<1>3. CASE SessionAct
  <2>1. [session EXCEPT !.id = NoId] \in Job({"idle", "opening", "closing"})
    BY DEF Job
  <2>2. session' \in Job({"idle", "opening", "closing"})
    BY <1>3, <2>1, RestKeeps DEF SessionAct
  <2>3. session.id \in Ids
    BY <1>3 DEF SessionAct, Job
  <2>4. rt' \in [Ids -> {"absent", "running", "paused"}]
    BY <1>3, <2>3, SetRegisteredKeeps DEF SessionAct
  <2>5. autoPaused' \subseteq Ids
    BY <1>3, <2>3 DEF SessionAct
  <2>6. QED BY <1>3, <2>2, <2>4, <2>5 DEF SessionAct
<1>4. CASE CutoffPoll
  <2>1. cutoff' \in Job({"idle", "checking"})
    BY <1>4 DEF CutoffPoll, Job, Active
  <2>2. QED BY <1>4, <2>1 DEF CutoffPoll
<1>5. ASSUME NEW id \in Ids, CutoffCheck(id) PROVE TypeOK'
  <2>1. PICK to \in Ids \cup {NoId} : cutoff' = Rest([cutoff EXCEPT !.todo = @ \ {id}, !.id = to])
    BY <1>5, Zenon DEF CutoffCheck
  <2>2. [cutoff EXCEPT !.todo = @ \ {id}, !.id = to] \in Job({"idle", "checking"})
    BY DEF Job
  <2>3. cutoff' \in Job({"idle", "checking"})
    BY <2>1, <2>2, RestKeeps
  <2>4. QED BY <1>5, <2>3 DEF CutoffCheck
<1>6. CASE CutoffAct
  <2>1. [cutoff EXCEPT !.id = NoId] \in Job({"idle", "checking"})
    BY DEF Job
  <2>2. cutoff' \in Job({"idle", "checking"})
    BY <1>6, <2>1, RestKeeps DEF CutoffAct
  <2>3. cutoff.id \in Ids
    BY <1>6 DEF CutoffAct, Job
  <2>4. rt' \in [Ids -> {"absent", "running", "paused"}]
    BY <1>6, <2>3, SetRegisteredKeeps DEF CutoffAct
  <2>5. QED BY <1>6, <2>2, <2>4 DEF CutoffAct
<1>7. ASSUME NEW id \in Ids, BootStart(id) PROVE TypeOK'
  <2>1. PICK to \in Ids \cup {NoId} :
           boot' = Rest([boot EXCEPT !.todo = @ \ {id}, !.id = to]) \/ boot' = Rest([boot EXCEPT !.todo = @ \ {id}])
    BY <1>7, Zenon DEF BootStart
  <2>2. /\ [boot EXCEPT !.todo = @ \ {id}, !.id = to] \in Job({"idle", "resuming"})
        /\ [boot EXCEPT !.todo = @ \ {id}] \in Job({"idle", "resuming"})
    BY DEF Job
  <2>3. boot' \in Job({"idle", "resuming"})
    BY <2>1, <2>2, RestKeeps
  <2>4. rt' \in [Ids -> {"absent", "running", "paused"}]
    BY <1>7 DEF BootStart
  <2>5. QED BY <1>7, <2>3, <2>4 DEF BootStart, monitorVars
<1>8. CASE BootPause
  <2>1. [boot EXCEPT !.id = NoId] \in Job({"idle", "resuming"})
    BY DEF Job
  <2>2. boot' \in Job({"idle", "resuming"})
    BY <1>8, <2>1, RestKeeps DEF BootPause
  <2>3. boot.id \in Ids
    BY <1>8 DEF BootPause, Job
  <2>4. rt' \in [Ids -> {"absent", "running", "paused"}]
    BY <1>8, <2>3, SetRegisteredKeeps DEF BootPause
  <2>5. QED BY <1>8, <2>2, <2>4 DEF BootPause, monitorVars
<1>9. CASE Restart
  <2>1. /\ Idle \in Job({"idle", "opening", "closing"}) /\ Idle \in Job({"idle", "checking"})
        /\ [at |-> "resuming", id |-> NoId, todo |-> Resumable] \in Job({"idle", "resuming"})
    BY DEF Idle, Job, Resumable
  <2>2. boot' \in Job({"idle", "resuming"})
    BY <1>9, <2>1, RestKeeps DEF Restart
  <2>3. rt' \in [Ids -> {"absent", "running", "paused"}] /\ call' \in [Humans -> [op : Ops, id : Ids] \cup {NoCall}]
    BY <1>9 DEF Restart
  <2>4. decision' \in [Ids -> [op : Ops \cup {"none"}, at : Humans \cup Answered]]
    BY <1>9 DEF Restart, Answered
  <2>5. QED BY <1>9, <2>1, <2>2, <2>3, <2>4 DEF Restart
<1>10. CASE MarketTurns
  BY <1>10 DEF MarketTurns, monitorVars
<1>11. ASSUME NEW h \in Humans, NEW op \in Ops, NEW id \in Ids, Handle(h, op, id) PROVE TypeOK'
  <2>1. RuntimeAfter(op) \in {"absent", "running", "paused"}
    BY AfterTypes
  <2>2. rt' \in [Ids -> {"absent", "running", "paused"}]
    BY <1>11, <2>1 DEF Handle
  <2>3. call' \in [Humans -> [op : Ops, id : Ids] \cup {NoCall}]
    BY <1>11 DEF Handle
  <2>4. decision' \in [Ids -> [op : Ops \cup {"none"}, at : Humans \cup Answered]]
    BY <1>11 DEF Handle
  <2>5. QED BY <1>11, <2>2, <2>3, <2>4 DEF Handle, monitorVars
<1>12. ASSUME NEW h \in Humans, Persist(h) PROVE TypeOK'
  <2>1. call[h] \in [op : Ops, id : Ids]
    BY <1>12 DEF Persist
  <2>2. DesiredAfter(call[h].op, desired[call[h].id]) \in {"none", "running", "paused", "stopped"}
    BY <2>1, AfterTypes
  <2>3. desired' \in [Ids -> {"none", "running", "paused", "stopped"}]
    BY <1>12, <2>1, <2>2 DEF Persist
  <2>4. decision' \in [Ids -> [op : Ops \cup {"none"}, at : Humans \cup Answered]]
    BY <1>12, PersistKeeps
  <2>5. call' \in [Humans -> [op : Ops, id : Ids] \cup {NoCall}]
    BY <1>12 DEF Persist
  <2>6. QED BY <1>12, <2>3, <2>4, <2>5 DEF Persist, monitorVars
<1>13. ASSUME NEW id \in Ids, CutoffReached(id) PROVE TypeOK'
  BY <1>13 DEF CutoffReached, monitorVars
<1>14. CASE UNCHANGED vars
  BY <1>14 DEF vars, monitorVars
<1>15. QED
  BY <1>1, <1>2, <1>3, <1>4, <1>5, <1>6, <1>7, <1>8, <1>9, <1>10, <1>11, <1>12, <1>13, <1>14
     DEF Next, SessionMonitor, CutoffMonitor, Boot, Request, Ops

LEMMA TypedInit == Init => TypeOK
  <1> SUFFICES ASSUME Init PROVE TypeOK
    OBVIOUS
  <1>1. /\ Idle \in Job({"idle", "opening", "closing"})
        /\ Idle \in Job({"idle", "checking"})
        /\ Idle \in Job({"idle", "resuming"})
    BY DEF Job, Idle
  <1>2. decision \in [Ids -> [op : Ops \cup {"none"}, at : Humans \cup Answered]]
    BY DEF Init, Answered
  <1>3. QED BY <1>1, <1>2 DEF Init, TypeOK

(* In every reachable state every variable has its type.                   *)
THEOREM Typed == Spec => []TypeOK
  BY TypedInit, TypedStep, PTL DEF Spec
-----------------------------------------------------------------------------
(* A strategy that nothing in memory brings back.                          *)
Out(id) == rt[id] = "absent" /\ id \notin boot.todo /\ boot.id # id

StopInv ==
    /\ TypeOK
    /\ \A id \in Ids : decision[id].op = "stop" =>
          /\ decision[id].at # "lost" => Out(id)
          /\ decision[id].at = "saved" => desired[id] = "stopped"
    /\ \A h \in Humans : call[h] # NoCall =>
          /\ boot = Idle
          /\ decision[call[h].id].at = h => decision[call[h].id].op = call[h].op

LEMMA StopInvInit == Init => StopInv
  <1> SUFFICES ASSUME Init PROVE StopInv
    OBVIOUS
  <1>1. TypeOK
    BY TypedInit
  <1>2. \A id \in Ids : decision[id].op # "stop"
    BY DEF Init
  <1>3. \A h \in Humans : call[h] = NoCall
    BY DEF Init
  <1>4. QED BY <1>1, <1>2, <1>3 DEF StopInv

(* A step that leaves the requests, the start-up and what is persisted     *)
(* alone keeps StopInv if it neither registers nor removes a runtime.      *)
LEMMA QuietStep ==
    ASSUME StopInv, TypeOK',
           UNCHANGED <<call, desired, boot, decision>>,
           \A id \in Ids : rt'[id] = "absent" <=> rt[id] = "absent"
    PROVE  StopInv'
  <1>1. \A h \in Humans : call[h] # NoCall => call[h].id \in Ids
    BY DEF StopInv, TypeOK
  <1>2. QED BY <1>1 DEF StopInv, Out

LEMMA StopInvStep == ASSUME StopInv, [Next]_vars PROVE StopInv'
<1>1. TypeOK /\ TypeOK'
  BY TypedStep DEF StopInv
<1>2. CASE \/ Poll \/ CutoffPoll \/ MarketTurns \/ UNCHANGED vars
          \/ \E id \in Ids : SessionCheck(id) \/ CutoffCheck(id) \/ CutoffReached(id)
  <2>1. UNCHANGED <<rt, call, desired, boot, decision>>
    BY <1>2 DEF Poll, CutoffPoll, MarketTurns, SessionCheck, CutoffCheck, CutoffReached, vars
  <2>2. QED BY <1>1, <2>1, QuietStep
<1>3. CASE SessionAct
  <2>1. session.id \in Ids
    BY <1>1, <1>3 DEF SessionAct, TypeOK, Job
  <2>2. \E st \in {"running", "paused"} : SetRegistered(session.id, st)
    BY <1>3 DEF SessionAct
  <2>3. \A id \in Ids : rt'[id] = "absent" <=> rt[id] = "absent"
    BY <1>1, <2>1, <2>2, SetRegisteredKeeps DEF TypeOK
  <2>4. QED BY <1>1, <1>3, <2>3, QuietStep DEF SessionAct
<1>4. CASE CutoffAct
  <2>1. cutoff.id \in Ids
    BY <1>1, <1>4 DEF CutoffAct, TypeOK, Job
  <2>2. \A id \in Ids : rt'[id] = "absent" <=> rt[id] = "absent"
    BY <1>1, <1>4, <2>1, SetRegisteredKeeps DEF CutoffAct, TypeOK
  <2>3. QED BY <1>1, <1>4, <2>2, QuietStep DEF CutoffAct
<1>5. ASSUME NEW id \in Ids, BootStart(id) PROVE StopInv'
  <2>1. boot # Idle
    BY <1>5 DEF BootStart, Idle
  <2>2. \A h \in Humans : call'[h] = NoCall
    BY <1>5, <2>1 DEF BootStart, StopInv
  <2>3. boot'.todo = boot.todo \ {id} /\ boot'.id \in {id, NoId}
    <3> DEFINE again == [boot EXCEPT !.todo = @ \ {id}, !.id = id]
               next == [boot EXCEPT !.todo = @ \ {id}, !.id = NoId]
               failed == [boot EXCEPT !.todo = @ \ {id}]
    <3>1. boot \in Job({"idle", "resuming"}) /\ boot.id = NoId
      BY <1>1, <1>5 DEF TypeOK, BootStart
    <3>2. /\ again \in Job({"idle", "resuming"}) /\ again.todo = boot.todo \ {id} /\ again.id = id
          /\ next \in Job({"idle", "resuming"}) /\ next.todo = boot.todo \ {id} /\ next.id = NoId
          /\ failed \in Job({"idle", "resuming"}) /\ failed.todo = boot.todo \ {id} /\ failed.id = NoId
      BY <3>1 DEF Job
    <3>3. boot' = Rest(again) \/ boot' = Rest(next) \/ boot' = Rest(failed)
      BY <1>5, Zenon DEF BootStart
    <3> HIDE DEF again, next, failed
    <3>4. QED BY <3>2, <3>3, RestKeeps
  <2>4. decision[id].op = "stop" => decision[id].at = "lost"
    BY <1>5 DEF BootStart, StopInv, Out
  <2>5. \A i \in Ids : i # id => rt'[i] = rt[i]
    BY <1>1, <1>5 DEF BootStart, TypeOK
  <2>6. UNCHANGED <<desired, decision>>
    BY <1>5 DEF BootStart
  <2>7. ASSUME NEW i \in Ids, decision'[i].op = "stop", decision'[i].at # "lost" PROVE Out(i)'
    <3>1. i # id /\ Out(i)
      BY <2>4, <2>6, <2>7 DEF StopInv
    <3>2. boot'.id # i
      BY <2>3, <3>1, RunControlAssumption
    <3>3. QED BY <2>3, <2>5, <3>1, <3>2 DEF Out
  <2>8. \A i \in Ids : decision'[i].op = "stop" /\ decision'[i].at = "saved" => desired'[i] = "stopped"
    BY <2>6 DEF StopInv
  <2>9. QED BY <1>1, <2>2, <2>7, <2>8 DEF StopInv
<1>6. CASE BootPause
  <2>1. boot # Idle /\ boot.id \in Ids
    BY <1>1, <1>6 DEF BootPause, Idle, TypeOK, Job
  <2>2. \A h \in Humans : call'[h] = NoCall
    BY <1>6, <2>1 DEF BootPause, StopInv
  <2>3. boot'.todo = boot.todo /\ boot'.id = NoId
    <3>1. [boot EXCEPT !.id = NoId] \in Job({"idle", "resuming"})
      BY <1>1 DEF TypeOK, Job
    <3>2. boot \in Job({"idle", "resuming"})
      BY <1>1 DEF TypeOK
    <3>3. QED BY <1>6, <3>1, <3>2, RestKeeps, ZenonT(60) DEF BootPause, Job
  <2>4. \A i \in Ids : rt'[i] = "absent" <=> rt[i] = "absent"
    BY <1>1, <1>6, <2>1, SetRegisteredKeeps DEF BootPause, TypeOK
  <2>5. UNCHANGED <<desired, decision>>
    BY <1>6 DEF BootPause
  <2>6. ASSUME NEW i \in Ids, decision'[i].op = "stop", decision'[i].at # "lost" PROVE Out(i)'
    <3>1. Out(i)
      BY <2>5, <2>6 DEF StopInv
    <3>2. QED BY <2>3, <2>4, <3>1, RunControlAssumption DEF Out
  <2>7. \A i \in Ids : decision'[i].op = "stop" /\ decision'[i].at = "saved" => desired'[i] = "stopped"
    BY <2>5 DEF StopInv
  <2>8. QED BY <1>1, <2>2, <2>6, <2>7 DEF StopInv
<1>7. CASE Restart
  <2>1. \A h \in Humans : call'[h] = NoCall
    BY <1>7 DEF Restart
  <2>2. boot'.todo = Resumable /\ boot'.id = NoId
    <3>1. [at |-> "resuming", id |-> NoId, todo |-> Resumable] \in Job({"idle", "resuming"})
      BY DEF Job, Resumable
    <3>2. QED BY <1>7, <3>1, RestKeeps DEF Restart
  <2>3. ASSUME NEW i \in Ids, decision'[i].op = "stop", decision'[i].at # "lost"
        PROVE  Out(i)' /\ desired'[i] = "stopped"
    <3>1. decision'[i] = [decision[i] EXCEPT !.at = IF @ = "saved" THEN @ ELSE "lost"]
      BY <1>7 DEF Restart
    <3>2. decision[i].op = "stop" /\ decision[i].at = "saved"
      BY <1>1, <2>3, <3>1 DEF TypeOK
    <3>3. desired[i] = "stopped" /\ desired' = desired /\ rt'[i] = "absent"
      BY <1>7, <3>2 DEF Restart, StopInv
    <3>4. i \notin Resumable
      BY <3>3 DEF Resumable
    <3>5. QED BY <2>2, <3>3, <3>4, RunControlAssumption DEF Out
  <2>4. QED BY <1>1, <2>1, <2>3 DEF StopInv
<1>8. ASSUME NEW h \in Humans, NEW op \in Ops, NEW id \in Ids, Handle(h, op, id) PROVE StopInv'
  <2>1. boot' = Idle /\ boot = Idle
    BY <1>8 DEF Handle, Serving
  <2>2. call'[h] = [op |-> op, id |-> id] /\ \A g \in Humans : g # h => call'[g] = call[g]
    BY <1>1, <1>8 DEF Handle, TypeOK
  <2>3. rt'[id] = RuntimeAfter(op) /\ decision'[id] = [op |-> op, at |-> h]
    BY <1>1, <1>8 DEF Handle, TypeOK
  <2>4. \A i \in Ids : i # id => rt'[i] = rt[i] /\ decision'[i] = decision[i]
    BY <1>1, <1>8 DEF Handle, TypeOK
  <2>5. ASSUME NEW i \in Ids, decision'[i].op = "stop" PROVE
               /\ decision'[i].at # "lost" => Out(i)'
               /\ decision'[i].at = "saved" => desired'[i] = "stopped"
    <3>1. CASE i = id
      <4>1. rt'[i] = "absent"
        BY <2>3, <2>5, <3>1 DEF RuntimeAfter
      <4>2. decision'[i].at # "saved"
        BY <2>3, <3>1, RunControlAssumption DEF Answered
      <4>3. QED BY <2>1, <4>1, <4>2, RunControlAssumption DEF Out, Idle
    <3>2. CASE i # id
      BY <1>8, <2>4, <2>5, <3>2 DEF Handle, StopInv, Out
    <3>3. QED BY <3>1, <3>2
  <2>6. ASSUME NEW g \in Humans, call'[g] # NoCall, decision'[call'[g].id].at = g
        PROVE  decision'[call'[g].id].op = call'[g].op
    <3>1. CASE g = h
      BY <2>2, <2>3, <3>1
    <3>2. CASE g # h
      <4>1. call[g] # NoCall /\ call[g].id \in Ids /\ call'[g] = call[g]
        BY <1>1, <2>2, <2>6, <3>2 DEF TypeOK
      <4>2. call[g].id # id
        BY <2>3, <2>6, <3>2, <4>1
      <4>3. QED BY <2>4, <2>6, <4>1, <4>2 DEF StopInv
    <3>3. QED BY <3>1, <3>2
  <2>7. QED BY <1>1, <2>1, <2>5, <2>6 DEF StopInv
<1>9. ASSUME NEW h \in Humans, Persist(h) PROVE StopInv'
  <2> DEFINE id == call[h].id
             op == call[h].op
  <2>1. id \in Ids /\ op \in Ops
    BY <1>1, <1>9, PersistKeeps
  <2>2. boot = Idle /\ boot' = Idle /\ rt' = rt
    BY <1>9 DEF Persist, StopInv
  <2>3. call'[h] = NoCall /\ \A g \in Humans : g # h => call'[g] = call[g]
    BY <1>1, <1>9 DEF Persist, TypeOK
  <2>4. ASSUME NEW i \in Ids, decision'[i].op = "stop", decision'[i].at # "lost" PROVE Out(i)'
    <3>1. decision[i].op = "stop" /\ decision[i].at # "lost"
      BY <1>1, <1>9, <2>4, PersistKeeps
    <3>2. Out(i)
      BY <3>1 DEF StopInv
    <3>3. QED BY <2>2, <3>2 DEF Out
  <2>5. ASSUME NEW i \in Ids, decision'[i].op = "stop", decision'[i].at = "saved" PROVE desired'[i] = "stopped"
    <3>1. decision[i].op = "stop"
      BY <1>1, <1>9, <2>5, PersistKeeps
    <3>2. CASE i # id
      BY <1>1, <1>9, <2>5, <3>1, <3>2, PersistKeeps DEF StopInv
    <3>3. CASE i = id
      <4>1. \/ decision[id].at = h /\ desired'[id] = DesiredAfter(op, desired[id])
            \/ /\ decision[id].at = "saved"
               /\ \/ desired'[id] = desired[id]
                  \/ op = decision[id].op /\ desired'[id] = DesiredAfter(op, desired[id])
        BY <1>1, <1>9, <2>5, <3>3, PersistKeeps
      <4>2. decision[id].at = h => op = "stop"
        BY <1>9, <3>1, <3>3 DEF Persist, StopInv
      <4>3. decision[id].at = "saved" => desired[id] = "stopped"
        BY <3>1, <3>3, <2>1 DEF StopInv
      <4>4. DesiredAfter("stop", desired[id]) = "stopped"
        BY DEF DesiredAfter
      <4>5. QED BY <3>1, <3>3, <4>1, <4>2, <4>3, <4>4
    <3>4. QED BY <3>2, <3>3
  <2>6. ASSUME NEW g \in Humans, call'[g] # NoCall, decision'[call'[g].id].at = g
        PROVE  decision'[call'[g].id].op = call'[g].op
    <3>1. g # h /\ call'[g] = call[g] /\ call[g] # NoCall /\ call[g].id \in Ids
      BY <1>1, <2>3, <2>6 DEF TypeOK
    <3>2. decision[call[g].id].at = g
      BY <1>1, <1>9, <2>6, <3>1, PersistKeeps, RunControlAssumption DEF Answered
    <3>3. decision[call[g].id].op = call[g].op
      BY <3>1, <3>2 DEF StopInv
    <3>4. decision'[call[g].id].op = decision[call[g].id].op
      BY <1>1, <1>9, <3>1, PersistKeeps
    <3>5. QED BY <3>1, <3>3, <3>4
  <2>7. QED BY <1>1, <2>2, <2>4, <2>5, <2>6 DEF StopInv
<1>10. QED
  BY <1>2, <1>3, <1>4, <1>5, <1>6, <1>7, <1>8, <1>9
     DEF Next, SessionMonitor, CutoffMonitor, Boot, Request, Ops

(* A strategy whose stop was answered stays out of the registry, with any  *)
(* number of requests at the same time, with both monitors and a start-up  *)
(* in the middle of a pass, until a human runs it again; through restarts  *)
(* as long as desired_status has the stop.                                 *)
THEOREM StopSticks == Spec => []StoppedStaysOut
<1>1. StopInv => StoppedStaysOut
  BY DEF StopInv, StoppedStaysOut, Stands, Out, Registered
<1>2. QED
  BY <1>1, StopInvInit, StopInvStep, PTL DEF Spec
=============================================================================
