------------------------------ MODULE RunControl ------------------------------
(***************************************************************************)
(* Who runs and pauses the strategies of the engine:                       *)
(*   api/server.go           the handlers of run, pause, resume and stop,  *)
(*                           desired_status, AutoResumeAll after a restart *)
(*   marketsession/monitor.go  pauses at market close, resumes at open     *)
(*   evalcutoff/monitor.go     pauses a strategy that ran long enough      *)
(* All three set the same flag of the same runtime, each from a goroutine  *)
(* of its own.  A monitor reads the state of a strategy and acts on it in  *)
(* two steps; a handler changes the engine first and persists the decision *)
(* afterwards, which may fail without the human being told.  How one       *)
(* engine call is made of smaller parts is the subject of module           *)
(* Scheduler; here it is one step.                                         *)
(*                                                                         *)
(* Names with a suffix are faulty variants of the definition before the    *)
(* underscore.                                                             *)
(***************************************************************************)
EXTENDS FiniteSets

CONSTANTS Ids,      \* strategies
          Humans    \* HTTP requests that may be handled at the same time

NoId == "none"

(* What became of a human's decision once it was answered.                 *)
Answered == {"saved", "unsaved", "lost"}

ASSUME RunControlAssumption ==
    /\ IsFiniteSet(Ids) /\ IsFiniteSet(Humans)
    /\ NoId \notin Ids /\ Humans \cap Answered = {}

VARIABLES
    open,        \* Current(now).Open: the NSE session
    rt,          \* state of the registered runtime, or "absent"
    wasOpen,     \* Monitor.wasOpen (false also before the first poll)
    autoPaused,  \* Monitor.autoPaused
    session,     \* what the session monitor is in the middle of
    cutoff,      \* what the cutoff monitor is in the middle of
    due,         \* strategies that crossed their evaluation cutoff
    call,        \* what each handler is in the middle of
    desired,     \* strategies.desired_status
    boot,        \* what AutoResumeAll still has to do, or Idle
    decision     \* history: the last decision of a human that the engine
                 \* carried out, and the request that makes it (not answered
                 \* yet) or what became of it: desired_status says so, does
                 \* not say so, or did not say so when the process ended

monitorVars == <<wasOpen, autoPaused, session, cutoff>>
vars == <<open, rt, monitorVars, due, call, desired, boot, decision>>

Idle == [at |-> "idle", id |-> NoId, todo |-> {}]
NoCall == [op |-> "none", id |-> NoId]

(* A pass over the strategies ends with its last step.                     *)
Rest(job) == IF job.todo = {} /\ job.id = NoId THEN Idle ELSE job
Opening(ids) == Rest([at |-> "opening", id |-> NoId, todo |-> ids])
Closing(ids) == Rest([at |-> "closing", id |-> NoId, todo |-> ids])

Registered(id) == rt[id] # "absent"
Active == {id \in Ids : Registered(id)}
Serving == boot = Idle

Init ==
    /\ open \in BOOLEAN
    /\ rt = [id \in Ids |-> "absent"]
    /\ wasOpen = FALSE
    /\ autoPaused = {}
    /\ session = Idle
    /\ cutoff = Idle
    /\ due = {}
    /\ call = [h \in Humans |-> NoCall]
    /\ desired = [id \in Ids |-> "none"]
    /\ boot = Idle
    /\ decision = [id \in Ids |-> [op |-> "none", at |-> "lost"]]
-----------------------------------------------------------------------------
(* The handlers.                                                           *)

RuntimeAfter(op) == [run |-> "running", pause |-> "paused", resume |-> "running", stop |-> "absent"][op]

DesiredAfter_StopForgotten(op, old) ==
    IF op = "stop" THEN old ELSE RuntimeAfter(op)

DesiredAfter_TheRequest(op, old) == op

DesiredAfter(op, old) == IF op = "stop" THEN "stopped" ELSE RuntimeAfter(op)

(* The engine call of a handler; one that fails answers with an error and  *)
(* changes nothing.                                                        *)
Handle(h, op, id) ==
    /\ Serving /\ call[h] = NoCall
    /\ IF op = "run" THEN ~Registered(id) ELSE Registered(id)
    /\ rt' = [rt EXCEPT ![id] = RuntimeAfter(op)]
    /\ call' = [call EXCEPT ![h] = [op |-> op, id |-> id]]
    /\ decision' = [decision EXCEPT ![id] = [op |-> op, at |-> h]]
    /\ UNCHANGED <<open, monitorVars, due, desired, boot>>

(* The request that made the last decision has its status stored or not;   *)
(* an older one that comes later may store another status over it.         *)
DecisionAfter(h, stored) ==
    LET id == call[h].id
    IN  [decision EXCEPT ![id].at =
           IF @ = h THEN IF stored THEN "saved" ELSE "unsaved"
           ELSE IF stored /\ @ = "saved" /\ call[h].op # decision[id].op THEN "unsaved" ELSE @]

(* setStatus, then the answer.  A status that cannot be stored is logged   *)
(* and the answer is the same.                                             *)
Persist(h) ==
    /\ Serving /\ call[h] # NoCall
    /\ \E stored \in BOOLEAN :
          /\ desired' = IF stored THEN [desired EXCEPT ![call[h].id] = DesiredAfter(call[h].op, @)] ELSE desired
          /\ decision' = DecisionAfter(h, stored)
    /\ call' = [call EXCEPT ![h] = NoCall]
    /\ UNCHANGED <<open, rt, monitorVars, due, boot>>
-----------------------------------------------------------------------------
(* The session monitor.                                                    *)

Poll_OnCloseEdge ==
    /\ Serving /\ session = Idle
    /\ wasOpen' = open
    /\ IF open /\ ~wasOpen
       THEN /\ session' = Opening(autoPaused)
            /\ autoPaused' = {}
       ELSE /\ session' = IF ~open /\ wasOpen THEN Closing(Active) ELSE Idle
            /\ autoPaused' = autoPaused
    /\ UNCHANGED <<open, rt, cutoff, due, call, desired, boot, decision>>

Poll_NeverSeesClose ==
    /\ Serving /\ session = Idle
    /\ wasOpen' = (wasOpen \/ open)
    /\ IF open /\ ~wasOpen
       THEN /\ session' = Opening(autoPaused)
            /\ autoPaused' = {}
       ELSE /\ session' = IF open THEN Idle ELSE Closing(Active)
            /\ autoPaused' = autoPaused
    /\ UNCHANGED <<open, rt, cutoff, due, call, desired, boot, decision>>

(* One poll: the opening is acted on once, a closed market on every poll.  *)
Poll ==
    /\ Serving /\ session = Idle
    /\ wasOpen' = open
    /\ IF open /\ ~wasOpen
       THEN /\ session' = Opening(autoPaused)
            /\ autoPaused' = {}
       ELSE /\ session' = IF open THEN Idle ELSE Closing(Active)
            /\ autoPaused' = autoPaused
    /\ UNCHANGED <<open, rt, cutoff, due, call, desired, boot, decision>>

(* Look at the next strategy; one in the wrong state is left alone.        *)
SessionCheck(id) ==
    /\ Serving /\ session.at \in {"opening", "closing"} /\ session.id = NoId
    /\ id \in session.todo
    /\ LET expected == IF session.at = "opening" THEN "paused" ELSE "running"
       IN  session' = Rest([session EXCEPT !.todo = @ \ {id},
                                           !.id = IF rt[id] = expected THEN id ELSE NoId])
    /\ UNCHANGED <<open, rt, wasOpen, autoPaused, cutoff, due, call, desired, boot, decision>>

SetRegistered(id, st) == rt' = IF Registered(id) THEN [rt EXCEPT ![id] = st] ELSE rt

(* ResumeStrategy or PauseStrategy, whatever happened since the look.      *)
SessionAct ==
    /\ Serving /\ session.id # NoId
    /\ session' = Rest([session EXCEPT !.id = NoId])
    /\ IF session.at = "opening"
       THEN /\ SetRegistered(session.id, "running")
            /\ autoPaused' = autoPaused
       ELSE /\ SetRegistered(session.id, "paused")
            /\ autoPaused' = IF Registered(session.id) THEN autoPaused \cup {session.id} ELSE autoPaused
    /\ UNCHANGED <<open, wasOpen, cutoff, due, call, desired, boot, decision>>
-----------------------------------------------------------------------------
(* The cutoff monitor.                                                     *)

CutoffPoll ==
    /\ Serving /\ cutoff = Idle
    /\ Active # {}
    /\ cutoff' = [at |-> "checking", id |-> NoId, todo |-> Active]
    /\ UNCHANGED <<open, rt, wasOpen, autoPaused, session, due, call, desired, boot, decision>>

CutoffCheck_SkipsDue(id) ==
    /\ Serving /\ cutoff.at = "checking" /\ cutoff.id = NoId
    /\ id \in cutoff.todo
    /\ cutoff' = Rest([cutoff EXCEPT !.todo = @ \ {id},
                                     !.id = IF rt[id] = "paused" /\ id \in due THEN id ELSE NoId])
    /\ UNCHANGED <<open, rt, wasOpen, autoPaused, session, due, call, desired, boot, decision>>

CutoffCheck(id) ==
    /\ Serving /\ cutoff.at = "checking" /\ cutoff.id = NoId
    /\ id \in cutoff.todo
    /\ cutoff' = Rest([cutoff EXCEPT !.todo = @ \ {id},
                                     !.id = IF rt[id] = "running" /\ id \in due THEN id ELSE NoId])
    /\ UNCHANGED <<open, rt, wasOpen, autoPaused, session, due, call, desired, boot, decision>>

CutoffAct ==
    /\ Serving /\ cutoff.id # NoId
    /\ cutoff' = Rest([cutoff EXCEPT !.id = NoId])
    /\ SetRegistered(cutoff.id, "paused")
    /\ UNCHANGED <<open, wasOpen, autoPaused, session, due, call, desired, boot, decision>>
-----------------------------------------------------------------------------
(* A restart: what is in memory is gone, AutoResumeAll runs before the     *)
(* monitors and the HTTP port.                                             *)

Resumable == {id \in Ids : desired[id] \in {"running", "paused"}}

Restart ==
    /\ rt' = [id \in Ids |-> "absent"]
    /\ wasOpen' = FALSE /\ autoPaused' = {} /\ session' = Idle /\ cutoff' = Idle
    /\ call' = [h \in Humans |-> NoCall]
    /\ boot' = Rest([at |-> "resuming", id |-> NoId, todo |-> Resumable])
    /\ decision' = [id \in Ids |-> [decision[id] EXCEPT !.at = IF @ = "saved" THEN @ ELSE "lost"]]
    /\ UNCHANGED <<open, due, desired>>

(* startStrategy may fail; a strategy that was paused runs until it is     *)
(* paused again.                                                           *)
BootStart(id) ==
    /\ boot.at = "resuming" /\ boot.id = NoId /\ id \in boot.todo
    /\ \/ /\ rt' = [rt EXCEPT ![id] = "running"]
          /\ boot' = Rest([boot EXCEPT !.todo = @ \ {id}, !.id = IF desired[id] = "paused" THEN id ELSE NoId])
       \/ /\ rt' = rt
          /\ boot' = Rest([boot EXCEPT !.todo = @ \ {id}])
    /\ UNCHANGED <<open, monitorVars, due, call, desired, decision>>

BootPause ==
    /\ boot.id # NoId
    /\ SetRegistered(boot.id, "paused")
    /\ boot' = Rest([boot EXCEPT !.id = NoId])
    /\ UNCHANGED <<open, monitorVars, due, call, desired, decision>>
-----------------------------------------------------------------------------
MarketTurns ==
    /\ open' = ~open
    /\ UNCHANGED <<rt, monitorVars, due, call, desired, boot, decision>>

(* The strategy gets old enough, or its last permitted trade closes.       *)
CutoffReached(id) ==
    /\ id \notin due
    /\ due' = due \cup {id}
    /\ UNCHANGED <<open, rt, monitorVars, call, desired, boot, decision>>

SessionMonitor == Poll \/ SessionAct \/ \E id \in Ids : SessionCheck(id)
CutoffMonitor == CutoffPoll \/ CutoffAct \/ \E id \in Ids : CutoffCheck(id)
Boot == BootPause \/ \E id \in Ids : BootStart(id)
Request(h) == \E op \in {"run", "pause", "resume", "stop"}, id \in Ids : Handle(h, op, id)

Next ==
    \/ SessionMonitor \/ CutoffMonitor \/ Boot \/ Restart \/ MarketTurns
    \/ \E h \in Humans : Request(h) \/ Persist(h)
    \/ \E id \in Ids : CutoffReached(id)

Spec == Init /\ [][Next]_vars

(* The monitors are tickers that always fire again; a start-up and a       *)
(* handler go on.                                                          *)
Fairness ==
    /\ WF_vars(SessionMonitor) /\ WF_vars(CutoffMonitor) /\ WF_vars(Boot)
    /\ \A h \in Humans : WF_vars(Persist(h))

FairSpec == Spec /\ Fairness
-----------------------------------------------------------------------------
(* Properties                                                              *)

Job(ats) == [at : ats, id : Ids \cup {NoId}, todo : SUBSET Ids]
Ops == {"run", "pause", "resume", "stop"}

(* Every variable has its type.                                            *)
TypeOK ==
    /\ open \in BOOLEAN /\ wasOpen \in BOOLEAN
    /\ rt \in [Ids -> {"absent", "running", "paused"}]
    /\ autoPaused \subseteq Ids /\ due \subseteq Ids
    /\ session \in Job({"idle", "opening", "closing"})
    /\ cutoff \in Job({"idle", "checking"})
    /\ call \in [Humans -> [op : Ops, id : Ids] \cup {NoCall}]
    /\ desired \in [Ids -> {"none", "running", "paused", "stopped"}]
    /\ boot \in Job({"idle", "resuming"})
    /\ decision \in [Ids -> [op : Ops \cup {"none"}, at : Humans \cup Answered]]

(* The decision of a human that was answered and that nobody revised.      *)
Stands(id, op) == decision[id].op = op /\ decision[id].at \in {"saved", "unsaved"}

(* A strategy whose stop was answered stays out of the registry, whatever  *)
(* the monitors, a start-up and other requests were in the middle of,      *)
(* until a human runs it again; through restarts as long as desired_status *)
(* has the stop.  It does not have it, and the next restart may start the  *)
(* strategy, when setStatus could not store it (server.go:417) or an older *)
(* request stored its own status later (server.go AutoResumeAll:           *)
(* "auto-starting a deliberately stopped strategy would override a real    *)
(* decision").                                                             *)
StoppedStaysOut == \A id \in Ids : Stands(id, "stop") => ~Registered(id)

(* A pause a human was given an answer for ends only by a human's decision *)
(* (monitor.go: "a strategy a human paused for their own reason before     *)
(* close is left alone"; ENGINE_SPEC Sec 6.1: the monitor "never claims    *)
(* credit for (or reverses) someone else's decision").                     *)
HumanPauseHolds ==
    [][\A id \in Ids :
        Stands(id, "pause") /\ rt[id] = "paused" /\ rt'[id] = "running"
            => ~Stands(id, "pause")']_vars

(* A strategy that runs while the market is closed, also one that was      *)
(* started then or came back with a restart, is paused by the monitor if   *)
(* the market stays closed (monitor.go checkAndAct).                       *)
PausedWhileClosed ==
    \A id \in Ids : (~open /\ rt[id] = "running") ~> (open \/ rt[id] # "running")

(* What the monitor paused for the night runs again once the market is     *)
(* open and stays open: a pause that overlaps the opening is not forgotten *)
(* (marketsession/monitor.go onOpen).  A process that dies does not pause. *)
ResumedAtOpen ==
    \A id \in Ids :
        (id \in autoPaused /\ rt[id] = "paused") ~> (rt[id] # "paused" \/ ~open)

(* A strategy that crossed its evaluation cutoff does not go on running    *)
(* (evalcutoff/monitor.go).                                                *)
CutoffPauses ==
    \A id \in Ids : (id \in due /\ rt[id] = "running") ~> rt[id] # "running"
=============================================================================
